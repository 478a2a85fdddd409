\* Two rows, two outputs and two keys.
SPECIFICATION Spec
CONSTANTS
  NoScope = NoScope
  Unread = Unread
  NoWish = NoWish
  Profile <- Small
  Factories <- SmallFactories
  MaxTurns = 2
  MaxActs = 3
INVARIANTS
  BaselineIsDecoder
  CodecRoundTrip
  LayoutSound
PROPERTIES
  OthersKept
  AssignTakesHold
  CouplerKeepsPending
CHECK_DEADLOCK FALSE

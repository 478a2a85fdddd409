\* docs/coupler.md:29-31: switching between the two pages does not discard.
SPECIFICATION CouplerSpec
CONSTANTS
  NoScope = NoScope
  Unread = Unread
  NoWish = NoWish
  Profile <- Small
  Factories <- SmallFactories
  MaxTurns = 2
  MaxActs = 3
PROPERTIES
  SwitchKeepsPending
CHECK_DEADLOCK FALSE

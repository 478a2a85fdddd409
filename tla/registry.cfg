\* Two locomotives and one decoder profile.
SPECIFICATION Spec
CONSTANTS
  l1 = l1
  l2 = l2
  d1 = d1
  d2 = d2
  NoScope = NoScope
  Unread = Unread
  NoDecoder = NoDecoder
  NoUrl = NoUrl
  Locos <- TwoLocos
  Decoders <- OneDecoder
  Addresses <- ThreeAddresses
  Longs <- OneLong
  Inputs <- FewInputs
  Factory <- TwoFactory
  MaxActs = 3
INVARIANTS
  TypeOK
  BaselineIsDecoder
  PersistedOrArmed
  NothingLeftBehind
PROPERTIES
  FailedStaysPending
CHECK_DEADLOCK FALSE

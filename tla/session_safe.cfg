\* A read and a write of a tab with two tokens and one disturbance.
SPECIFICATION Spec
CONSTANTS
  r1 = r1
  r2 = r2
  w1 = w1
  NoReq = NoReq
  NoToken = NoToken
  Undefined = Undefined
  Reqs <- OneOfEach
  Reads <- OneRead
  Dumps = {}
  Tokens <- TwoTokens
  MaxFaults = 1
INVARIANTS
  TypeOK
  RunsUnderOwnToken
PROPERTIES
  KeepsPromises
CHECK_DEADLOCK FALSE

\* Two reads, one queued behind the other, under fair scheduling; one of them is a
\* backup's, whose values are not for the CV table.
SPECIFICATION FairSpec
CONSTANTS
  r1 = r1
  r2 = r2
  w1 = w1
  NoReq = NoReq
  NoToken = NoToken
  Undefined = Undefined
  Reqs <- JustReads
  Reads <- JustReads
  Dumps <- OneDump
  Tokens <- NullToken
  MaxFaults = 1
INVARIANTS
  OneReadAtATime
PROPERTIES
  LateSamplesDropped
  OkSamplesInTable
  EverySettles
  AbandonedStops
  Reconnects
CHECK_DEADLOCK FALSE

SPECIFICATION Spec
CONSTANTS
  o1 = o1  o2 = o2  o3 = o3  tab1 = tab1  tab2 = tab2
  NoOne = NoOne  NoHost = NoHost
  Ops = {o1, o2}
  Conn <- OneTab
  Requests <- WriteThenWrite
  Cvs = {1, 2, 3}
  ValidCvs = {1, 2}
  Hosts = {h1}
  PomRepeat = 1
  MaxReloads = 0
  Faults = {"loss", "cancel", "io"}
INVARIANTS TypeOK OwnVerdict ConfirmedWritesProgrammed BatchAccounted
PROPERTIES ServesBatches

SPECIFICATION Spec
CONSTANTS
  o1 = o1  o2 = o2  o3 = o3  tab1 = tab1  tab2 = tab2
  NoOne = NoOne  NoHost = NoHost
  Ops = {o1, o2}
  Conn <- TwoTabs
  Requests <- BatchAndOthers
  Cvs = {1, 2, 3}
  ValidCvs = {1, 2}
  Hosts = {h1, h2}
  PomRepeat = 2
  MaxReloads = 1
  Faults = {"cancel", "close", "down"}
INVARIANTS SlotExclusive AtMostOneCvAfterReload OnlyConfiguredEndpoints

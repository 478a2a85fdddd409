SPECIFICATION FairSpec
CONSTANTS
  o1 = o1  o2 = o2  o3 = o3  tab1 = tab1  tab2 = tab2
  NoOne = NoOne  NoHost = NoHost
  Ops = {o1, o2}
  Conn <- TwoTabs
  Requests <- BatchAndReader
  Cvs = {1, 2}
  ValidCvs = {1, 2}
  Hosts = {h1}
  PomRepeat = 1
  MaxReloads = 0
  Faults = {"loss", "cancel"}
INVARIANTS AtMostOneSendAfterCancel BrokenSessionRetired
PROPERTIES EveryCallReturns

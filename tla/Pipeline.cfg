CONSTANTS
  client = client
  server = server
  driver = driver
  Null = Null
  MonitorEP = MonitorEP
  PD = {client, server, driver}
  Prio <- MCPrio
  Ends <- MCEnds
  Irqs <- MCIrqs
  Parent <- MCParent
  Passive = {server}
  DeferUnit = "wakeup"
  MayFault = {}
  MayManage = {}
SPECIFICATION FairSpec
INVARIANTS
  NoCallCycle
  DeferredOnce
PROPERTIES
  DeferredNeverLost
  SignalNotified
  CallReturns
\* Every PD may wait with nothing left to arrive: an idle system.
CHECK_DEADLOCK FALSE

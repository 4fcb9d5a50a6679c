CONSTANTS
  server = server
  parent = parent
  worker = worker
  NoPD = NoPD
  PD = {server, parent, worker}
  Passive = {server, worker}
  Parent <- MCParent
  Core <- WithMonitor
  MonitorCore = 0
  MayFault = {server, parent}
  MayRestart = {worker}
SPECIFICATION FairSpec
INVARIANTS
  RequestServed
PROPERTIES
  FaultIsFinal
  BecomesPassive
  EveryFaultTaken
\* Every PD may wait for a message that never comes.
CHECK_DEADLOCK FALSE

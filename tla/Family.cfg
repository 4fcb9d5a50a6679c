CONSTANTS
  parent = parent
  child = child
  Null = Null
  MonitorEP = MonitorEP
  PD = {parent, child}
  Prio <- MCPrio
  Ends <- MCEnds
  Irqs <- MCIrqs
  Parent <- MCParent
  Passive = {}
  DeferUnit = "wakeup"
  MayFault = {parent, child}
  MayManage = {child}
SPECIFICATION FairSpec
INVARIANTS
  CallerHeld
  IrqAccounted
PROPERTIES
  FaultDelivered
\* A parent that stops its child and waits is an idle system.
CHECK_DEADLOCK FALSE

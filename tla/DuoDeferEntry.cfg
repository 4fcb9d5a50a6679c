CONSTANTS
  client = client
  server = server
  Null = Null
  MonitorEP = MonitorEP
  PD = {client, server}
  Prio <- MCPrio
  Ends <- MCEnds
  Irqs <- MCIrqs
  Parent <- MCParent
  Passive = {}
  DeferUnit = "entry"
  MayFault = {}
  MayManage = {}
SPECIFICATION Spec
PROPERTIES
  DeferredNeverLost
CHECK_DEADLOCK FALSE

CONSTANTS
  Systems <- MCSystems
SPECIFICATION Spec
INVARIANTS
  NoPanic
  SlotsUnique
  ChannelsWork
  OneSource
  ChildFaultsArrive
  MonitorKnows
  MasksAgree
  UserCapsArrive
\* The builder ends.
CHECK_DEADLOCK FALSE

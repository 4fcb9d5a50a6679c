CONSTANTS
  Levels = 4
  TopLevel = 1
  TopBits = 2
  EntryBits = 1
  UserTop = 255
  PdMaxStackSize = 64
  MonitorStackSize = 16
  MonitorElf <- Monitor
  Descriptions <- MCDescriptions
SPECIFICATION Spec
\* The tool ends.
CHECK_DEADLOCK FALSE
INVARIANTS
  PanicExplained
  SpacesRight
  ContentsRight
PROPERTY MapsFlat

CONSTANTS
  Systems <- MCSystems
SPECIFICATION Spec
INVARIANT ChildManageable
\* The builder ends.
CHECK_DEADLOCK FALSE

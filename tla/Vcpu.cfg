CONSTANTS
  Channels <- MCChannels
  Rips = {"r1", "r2"}
SPECIFICATION FairSpec
\* A PD without signals waits for ever.
CHECK_DEADLOCK FALSE
INVARIANTS
  NothingOwedInGuest
  GuestResumesRight
PROPERTIES
  SignalNotified

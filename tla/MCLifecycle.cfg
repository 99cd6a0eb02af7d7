SPECIFICATION EndFairSpec
CHECK_DEADLOCK FALSE
CONSTANTS
  Requests <- TwoRequests
  Subsystems <- OneSubsystem
  Dashboard = "dashboard"
  None = "none"
INVARIANTS
  RestartHonoured
  PanicNeedsQuit
PROPERTIES
  EventuallyEnds

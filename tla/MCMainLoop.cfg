SPECIFICATION Spec
CONSTANTS
  Nil = Nil
  StopDelay = 1
  AutoTeleopGap = 0
  NTDisconnectGrace = 0
  DetachDelay = 1
  RecordTrigger = "any"
  CollectTrigger = "fms"
  Steps <- UnitStep
  ControlWords <- ThreeWords
  FmsBuffer = 1
  CmdBuffer = 2
INVARIANTS
  SessionFollowsCollector
  FailsafeCollects
  ObsFollowsMachine
  PauseEndsSession

SPECIFICATION FairSpec
CONSTANTS
  Nil = Nil
  StopDelay = 4
  AutoTeleopGap = 2
  NTDisconnectGrace = 3
  DetachDelay = 2
  MaxStep = 2
  Horizon = 9
  ControlWords <- AllWords
  ClockJumps <- Jumps
INVARIANT
  StopsInTime
PROPERTIES
  NoEarlyStop
  EventuallyStops
  ImplementsContract

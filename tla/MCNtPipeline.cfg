SPECIFICATION FairSpec
CONSTANTS
  Words = {off, on}
  Nil = Nil
  Other = Other
  ValuesCap = 1
  FmsCap = 1
  CamerasCap = 1
  WireCap = 2
  MaxPolls = 1
INVARIANTS
  NewestOnItsWay
  NoSendAfterClose
PROPERTIES
  ShutdownEnds
  WordArrives

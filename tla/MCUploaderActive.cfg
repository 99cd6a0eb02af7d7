SPECIFICATION Spec
CONSTANTS
  Nil = Nil
  Files <- OneFile
  Content <- TwoEntries
  Targets <- OneTarget
  Configs <- QueueConfigs
  BatchSize = 1
INVARIANTS
  NothingLost

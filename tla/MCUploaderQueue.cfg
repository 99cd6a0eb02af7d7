SPECIFICATION FairSpec
CONSTANTS
  Nil = Nil
  Files <- TwoFiles
  Content <- OneEntryAndNone
  Targets <- OneTarget
  Configs <- QueueConfigs
  BatchSize = 1
PROPERTIES
  DrainLeavesOnlyFailures
  EventuallyUploaded

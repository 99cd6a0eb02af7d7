SPECIFICATION Spec
CONSTANTS
  Nil = Nil
  Files <- OneFile
  Content <- TwoEntries
  Targets <- TwoTargets
  Configs <- SharedConfigs
  BatchSize = 1
INVARIANTS
  MarkersTrue
  StoredIsPrefix
PROPERTIES
  ImplementsDelivery

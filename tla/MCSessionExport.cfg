SPECIFICATION Spec
CONSTANTS
  Nil = Nil
  Files = {1, 2}
  Requests = {r1, r2}
  MaxLines = 1
  Base = 2
  Sessions <- MCSessions
SYMMETRY Symmetric
INVARIANTS
  NothingMissed
  ExportWhole
  RecordsFaithful
  TimesFaithful

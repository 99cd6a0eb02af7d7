SPECIFICATION FairSpec
CONSTANTS
  Nil = Nil
  Files <- TwoFiles
  Topics = {t1}
  Readings = {r1, nan}
  Unencodable = {nan}
  CmdBuffer = 1
  MaxLines = 3
INVARIANTS
  OneSessionPerFile
  ClosedIsWhole
  SnapshotKept
PROPERTIES
  ImplementsSessionFiles
  ReturnsClosed

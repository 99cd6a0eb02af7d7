SPECIFICATION Spec
CONSTANTS
  Posts = {p1, p2}
  Values = {old, new}
  Default = old
  Hole = Hole
  None = None
  Inodes = {i1, i2, i3, i4}
INVARIANTS
  DiskMatchesMemory
PROPERTIES
  AtomicReplace
  ImplementsRegister
SYMMETRY Symmetry

SPECIFICATION Spec
CONSTANTS
  Procs = {p1, p2}
  MaxInode = 4
  MaxStarts = 3
SYMMETRY Symmetry
INVARIANTS
  HandlesCurrent
  RemovesOwn
  SoleWriter
  VersionChecked
CHECK_DEADLOCK FALSE

SPECIFICATION MCSpec
CONSTANTS
  k1 = k1
  k2 = k2
  Procs = {p1, p2}
  Names = {k1, k2}
  Big = {k2}
  me_maxpg = 11
  MaxTxn = 4
  Changes <- MCChanges
  MaxCrashes = 1
  Keys = {1, 2, 3, 4, 5, 6, 7}
  KSize <- MCKSize
  DSizes <- MCDSizes
  pmax = 8
  MaxDepth = 4
  MaxPages = 13
SYMMETRY Symmetry
INVARIANTS
  DatabaseSound
  TreeHolds
  LeqIsGreatest
VIEW View1
CHECK_DEADLOCK FALSE

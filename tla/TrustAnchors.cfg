SPECIFICATION Spec
CONSTANTS
  k1 = k1
  k2 = k2
  Keys <- MCKeys
  Initial <- MCInitial
  Procs = {p1, p2}
  hold_down_time = 2
  keep_removed = 1
  Ttl = 4
  hour = 1
  day = 1
  MaxFails = 1
  MaxTime = 17
SYMMETRY Symmetry
INVARIANTS
  NoEarlyTrust
  NeverStranded
  TrustEnds
CHECK_DEADLOCK FALSE

CONSTANTS
  Task = {t1, t2, t3}
  Key = {k1}
  NoTask = NoTask
  NoKey = NoKey
  Sources = {"tcp"}
  MayRunOut = TRUE
  MAX_PENDING = 1
  KR_ITER_LIMIT = 2
  KR_TIMEOUT_LIMIT = 1
  Slack = 1
  SizeT = 8
SPECIFICATION Spec
SYMMETRY TaskSymmetry
INVARIANTS RefCount SubreqTable SomeoneSteps RConcurrentExact

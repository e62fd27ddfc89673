SPECIFICATION Spec
CONSTANTS
  KR_QUERY_NSRETRY_LIMIT = 2
  MAX_REVALIDATION_CNT = 1
  KR_ITER_LIMIT = 36
  Worlds <- MCWorlds
INVARIANTS BogusIsServfail
CHECK_DEADLOCK FALSE

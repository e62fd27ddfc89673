CONSTANTS
  Task = {t1}
  Peer = {p1}
  Session = {s1}
  NoTask = NoTask
  NoSession = NoSession
  TlsPeer = {p1}
  Sources = {"tcp"}
  Faults = {}
  LongIdle = FALSE
  TCP_PIPELINE_MAX = 2
  KR_ITER_LIMIT = 2
  KR_TIMEOUT_LIMIT = 2
SPECIFICATION Spec
INVARIANT NoAssertionFails

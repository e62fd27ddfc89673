CONSTANTS
  Task = {t1, t2}
  Peer = {p1, p2}
  Session = {s1, s2}
  NoTask = NoTask
  NoSession = NoSession
  TlsPeer = {p2}
  Sources = {"udp", "tcp"}
  Faults = {"connect", "send", "answer"}
  LongIdle = TRUE
  TCP_PIPELINE_MAX = 1
  KR_ITER_LIMIT = 2
  KR_TIMEOUT_LIMIT = 2
SPECIFICATION Spec
SYMMETRY UpstreamSymmetry
INVARIANTS MapsSound OnePlace

CONSTANTS
  Task = {t1}
  Peer = {p1}
  Session = {s1}
  NoTask = NoTask
  NoSession = NoSession
  TlsPeer = {}
  Sources = {"udp"}
  Faults = {"write"}
  LongIdle = FALSE
  TCP_PIPELINE_MAX = 2
  KR_ITER_LIMIT = 1
  KR_TIMEOUT_LIMIT = 1
SPECIFICATION FairSpec
PROPERTY EventuallyFinished
CHECK_DEADLOCK FALSE

CONSTANTS
  Task = {t1, t2}
  Key = {k1}
  NoTask = NoTask
  NoKey = NoKey
  Sources = {"udp", "tcp"}
  MayRunOut = TRUE
  MAX_PENDING = 2
  KR_ITER_LIMIT = 1
  KR_TIMEOUT_LIMIT = 1
  Slack = 1
  SizeT = 8
  Peer = {p1, p2}
  Session = {s1}
  NoSession = NoSession
  TlsPeer = {p2}
  TcpSources = {"udp"}
  Faults = {"connect"}
  LongIdle = FALSE
  TCP_PIPELINE_MAX = 2
  TcpIterLimit = 2
  TcpTimeoutLimit = 2
  Nsset <- MCNsset
  AddrsOf <- MCAddrsOf
  V6 <- MCV6
  Targets <- MCTargets
  Elapsed = {5, 1950}
  Pauses = {1001}
  Interval = 1000
  MaxElections = 6
  Zones <- MCZones
  Order <- MCOrder
  MaxImports = 2
  chunk_size = 16
  Header = 4
  MP_CHUNK_TAIL = 2
  CPU_STRUCT_ALIGN = 2
  StateSize = 4
  Sizes = {3, 8, 9}
  MaxOps = 5
  TrieKeys <- MCTrieKeys
  Nibble = 2
  LruKeys = {1, 2, 3}
  LruHash <- MCLruHash
  LruValues = {1, 2}
  LRU_ASSOC = 2
  LRU_TRACKED = 3
  MaxCount = 2
SPECIFICATION MCSpec
INVARIANTS AlreadyDecoded ElectionSound TwoStrikes ZoneImported PoolSound ContainersSound
PROPERTY RequestLive RequestLiveTcp

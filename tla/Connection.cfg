CONSTANTS
  s1 = s1
  s2 = s2
  Task = {t1, t2, t3}
  Session <- MCSession
  NoSession = NoSession
  Tls <- MCTls
  MaxBatch <- MCMaxBatch
  TCP_PIPELINE_MAX = 2
  Streams <- MCStreams
  wire_buf_size = 12
  KNOT_WIRE_HEADER_SIZE = 2
  KNOT_WIRE_QUESTION_MIN_SIZE = 5
  Records <- MCRecords
  MaxBytes = 7
  Sessions = {c1, c2}
  Addrs = {a1}
  Credentials = {x1, x2}
  Entries = {e1, e2}
  Chains <- MCChains
  Configs <- MCConfigs
  CertsFor <- MCCertsFor
  MaxOps = 4
  chunk_cap = 3
  MaxPush = 7
  TST_KEY_LIFETIME = 3
  Starts <- MCStarts
  Delays = {0, 1, 700, 3500000}
  MaxChecks = 3
SPECIFICATION MCSpec
INVARIANTS SourceAlive StreamDelivered
  StreamIntact HeldIsAlive PeerIsVerified QueueIsFifo RotatesInTime
PROPERTY ThrottleEnds

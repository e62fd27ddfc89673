SPECIFICATION MCSpec
CONSTANTS
  KR_QUERY_NSRETRY_LIMIT = 2
  MAX_REVALIDATION_CNT = 1
  KR_ITER_LIMIT = 36
  Worlds <- MCWorlds
  CacheNames <- MCCacheNames
  CacheHash <- MCHash
  CacheTypes = {"A", "DS"}
  Zones <- MCZones
  AllChains = {"NSEC", "NSEC3", "optout", "none"}
  Ttl = 20
  NsecTtl = 12
  TtlMax = 30
  TtlMargin = 10
  Step = 16
  MaxTime = 16
  MaxOps = 2
  DenialNames <- MCDenialNames
  DenialHash <- MCHash
  DenialTypes = {"A", "DS", "CNAME"}
  Chains = {"NSEC", "NSEC3", "optout"}
  MaxOwners = 2
INVARIANTS PlanOrder InsecureIsProven AnswerIsPublished ADIsEarned HealthyIsAnswered
  CachedIsPublished StashedIsServed DenialAccepted
CHECK_DEADLOCK FALSE

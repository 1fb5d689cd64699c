SPECIFICATION Spec
CONSTANTS
  r1 = r1  r2 = r2  p1 = p1  p2 = p2  p3 = p3  k1 = k1  w1 = w1  w2 = w2
  l1 = l1  l2 = l2  l3 = l3  web = web
  Runs = {r1}
  Plans <- OnePlan
  Keys = {k1}
  NoKey = NoKey
  AttemptLimit = 2
  MaxAttempts <- Twice
  Health = {"HEALTHY", "ERROR"}
  Workers = {w1}
  WorkerDefinitions <- OneSlot
  Leases = {l1, l2}
  LeaseDuration = 2
  MaxLeaseLifetime = 3
  HeartbeatFreshness = 0
  Priority <- NormalPriority
  Domain <- NoDomains
  NoDomain = NoDomain
  RateLimit <- AnyRate
  RateWindow = 0
  MaxPerDomain = 1
  ClaimLimit = 2
  Backoff <- ShortBackoff
  BackoffCap = 1
PROPERTIES DisablementReturnsJobs

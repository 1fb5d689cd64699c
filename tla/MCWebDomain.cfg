SPECIFICATION Spec
CONSTANTS
  r1 = r1  r2 = r2  p1 = p1  p2 = p2  p3 = p3  k1 = k1  w1 = w1  w2 = w2
  l1 = l1  l2 = l2  l3 = l3  web = web
  Runs = {r1, r2}
  Plans <- ThreePlans
  Keys = {}
  NoKey = NoKey
  AttemptLimit = 1
  MaxAttempts <- Once
  Health = {"HEALTHY"}
  Workers = {w1}
  WorkerDefinitions <- Slots
  Leases = {l1, l2, l3}
  LeaseDuration = 1
  MaxLeaseLifetime = 1
  HeartbeatFreshness = 0
  Priority <- Urgency
  Domain <- OneDomain
  NoDomain = NoDomain
  RateLimit <- Rates
  RateWindow = 1
  MaxPerDomain = 1
  ClaimLimit = 1
  Backoff <- NoBackoff
  BackoffCap = 0
SYMMETRY Symmetric
INVARIANTS WebDomainQuotaKept
PROPERTIES CapacityRespected

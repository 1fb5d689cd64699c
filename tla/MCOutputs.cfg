SPECIFICATION MCSpec
CONSTANTS
  Jobs = {j1, m1, g1}
  Managed = {m1}
  Grounded = {g1}
  Workers = {w1, w2}
  None = None
  MaxAttempts = 2
  MaxLosses = 2
  MaxCrashes = 1
  j1 = j1  m1 = m1  g1 = g1
  q1 = q1  q2 = q2  d1 = d1  d2 = d2  c1 = c1  c2 = c2
  i1 = i1  i2 = i2  t1 = t1  a1 = a1  a2 = a2  p1 = p1  p2 = p2
  CellCount = 6
  MaxDeaths = 3
  MaxRejections = 1
  Intents = {i1, i2}
  Targets = {t1}
  TargetOf <- OneTarget
  Actors = {a1, a2}
  Keys = {k1, k2}
  Plans = {q1, q2}
  Processes = {p1, p2}
  NoOne = NoOne
  NoRequest = NoRequest
  MaxChanges = 1
  Operators = {q1}
  Issues = {"TIMEOUT", "UNAVAILABLE"}
  AuditWindow = 20
  MaxSends = 3
  MaxStops = 3
  MaxSwitches = 2
  Artifacts = {1, 2}
  Conversions = {1, 2}
  ArtifactOf <- OfTheFirst
  Limit = 2
  Roots = {root1, root2}
  Documents = {d1, d2}
  Paths = {t1}
  PathOf <- OnePath
  Contents = {c1, c2}
  ContentOf <- OwnContents
  MaxRevisions = 2
  MaxEdits = 1
  MaxEnds = 1
INVARIANTS
  CallsAccounted PaymentsAccounted OneRunPerIntent ResultsAreHonoured
  ArchivedIsUnused OneUnresolvedDestination
PROPERTIES
  GuardedSteps EverythingSettles
CHECK_DEADLOCK FALSE

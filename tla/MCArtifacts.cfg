SPECIFICATION MCSpec
CONSTANTS
  Sessions = {s1, s2}
  Digests = {d1}
  Leases = {l1}
  Calls = {c1, c2}
  NoSession = NoSession
  ClockLimit = 1
  CrashLimit = 1
  r1 = r1  i1 = i1  i2 = i2
  t1 = t1  d1 = d1  c1 = c1  c2 = c2  root1 = root1
  None = None
  Nobody = Nobody
  Requests = {r1}
  Intents = {i1, i2}
  Persistent = {i1}
  MaxEnds = 1
  Roots = {root1}
  Targets = {t1}
  Contents = {c1, c2}
  Documents = {d1}
  TargetOf <- ItsTarget
  ContentOf <- ItsContent
  Acceptable = {c1}
  ListLimit = 9
  MaxRevisions = 1
  MaxEdits = 1
  MaxStops = 1
  MaxInspections = 2
  MaxFailures = 1
INVARIANTS
  RegistryAgreesWithStore OneUploadOneArtifact ImportedOnceAsReviewed
PROPERTIES
  UploadsGoOn
CHECK_DEADLOCK FALSE

SPECIFICATION MCSpec
CONSTANTS
  r1 = r1  r2 = r2  r3 = r3  w1 = w1
  a1 = a1  a2 = a2  s1 = s1  s2 = s2  q1 = q1  q2 = q2  p1 = p1  p2 = p2
  Runs = {r1, r2, r3}
  Workers = {w1}
  MaxAttempts <- Attempts
  MaxGeneration = 2
  Path <- OwnPaths
  Document <- Documents
  Version <- Numbers
  ReconcileLimit = 1
  MaxStops = 1
  Artifacts = {a1, a2}
  Sources = {s1, s2}
  Source <- ItsSource
  Profiles = {q1, q2}
  Precedence <- InOrder
  Accepts <- Takes
  Unreadable = {a1}
  Processes = {p1, p2}
  Limit = 2
  MaxEdits = 1
  MaxEnds = 1
INVARIANTS
  DocumentsAreExact
PROPERTIES
  NothingIsTakenBack ConversionGoesOn
CHECK_DEADLOCK FALSE

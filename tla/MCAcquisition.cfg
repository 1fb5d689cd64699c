SPECIFICATION MCSpec
CONSTANTS
  root1 = root1  root2 = root2
  r1 = r1  k1 = k1  NoKey = NoKey  w1 = w1  l1 = l1  l2 = l2  NoDomain = NoDomain
  Roots = {root1, root2}
  MaxRetries = 2
  MaxOperator = 1
  Limit = 1
  MaxEdits = 1
  MaxEnds = 1
  Urls = {1, 2}
  Discoveries <- GrowingSite
  Processes = {p1}
  BatchLimit = 1
  PruneLimit = 1
  MaxDays = 2
  MaxRuns = 4
  MaxStops = 1
INVARIANTS
  CampaignIsTrue CasesTellTheirRun
PROPERTIES
  NothingIsForgotten NothingRunsForever
CHECK_DEADLOCK FALSE

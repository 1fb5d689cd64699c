SPECIFICATION MCSpec
CONSTANTS
  r1 = r1  r2 = r2  r3 = r3  r4 = r4  t1 = t1
  item1 = item1  item2 = item2  w1 = w1  w2 = w2  NoWorker = NoWorker
  Items = {item1, item2}
  Workers = {w1, w2}
  DetailAttempts = 1
  MaxRequests = 1
  Cap = 2
  Overlap = FALSE
  MaxHolds = 1
  Runs = {r1, r2, r3, r4}
  ManualRuns = {}
  Plans <- TwoPlans
  Keys <- Slots
  NoKey = NoKey
  AttemptLimit = 1
  MaxAttempts <- OneAttempt
  Processes = {t1}
  Schedules <- AllKinds
  TickLimit = 1
  MaxTime = 2
  MaxCrashes = 1
  None = None
INVARIANTS
  CatchUpOnce RowTellsHistory BudgetKept
PROPERTIES
  PausedPlansRest RowsFollowTheStateMachine NobodyStarves
CHECK_DEADLOCK FALSE

SPECIFICATION Spec
CONSTANTS
  m1 = m1  r1 = r1  r2 = r2  r3 = r3  r4 = r4  t1 = t1  t2 = t2
  Runs = {m1, r1, r2}
  ManualRuns = {m1}
  Plans <- OnePlan
  Keys <- SlotKeys
  NoKey = NoKey
  AttemptLimit = 1
  MaxAttempts <- OneAttempt
  Processes = {t1}
  Schedules <- OneInterval
  TickLimit = 1
  MaxTime = 2
  MaxCrashes = 1
  None = None
PROPERTIES InspectionReadOnly

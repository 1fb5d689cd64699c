----------------------------- MODULE ProgressProofs ----------------------------
(***************************************************************************)
(* What the scheduler guarantees whatever the number of processes, plans,  *)
(* runs and crashes: what rests on the dispatch transaction alone, that a  *)
(* slot moves forward, and for one process what a row tells, which slots   *)
(* are worked off and that paused plans stay alone.  And what the detail   *)
(* queue does: it keeps the budget of its windows, a fetched row has its   *)
(* artifact, and its rows live the life of the runtime's state machine.    *)
(***************************************************************************)
EXTENDS Progress, FiniteSetTheorems, SequenceTheorems, TLAPS

\* The table of runs, as far as the dispatches need to know it.
Row(x) == x = NoRun \/ x = [status |-> x.status, plan |-> x.plan, key |-> x.key]

RunTable ==
  /\ run = [r \in Runs |-> run[r]]
  /\ \A r \in Runs : Row(run[r])

InFlightStatus == {"PENDING", "RUNNING"}

SlotInv == RunTable /\ OneRunPerSlot /\ ScheduledRunsNeverOverlap

\* A new row is a row.
LEMMA NewRow == \A p, k : LET x == [status |-> "PENDING", plan |-> p, key |-> k] IN Row(x)
BY DEF Row

\* A fresh identity is one of the table's.
LEMMA FreshRun == NewRun \in Runs
<1>1. \E r \in Runs \ ManualRuns :
        run[r] = NoRun \/ \A q \in Runs \ ManualRuns : run[q] # NoRun
  BY SchedulerAssumption
<1> QED BY <1>1 DEF NewRun

\* What steps that insert no run do to the table: a row keeps its plan and its
\* key, and is in flight only if it was.
Settles ==
  /\ run' = [r \in Runs |-> run'[r]]
  /\ \A r \in Runs :
       \/ run'[r] = run[r]
       \/ /\ run[r] # NoRun /\ run'[r] # NoRun /\ Row(run'[r])
          /\ run'[r].plan = run[r].plan /\ run'[r].key = run[r].key
          /\ run'[r].status \in InFlightStatus => run[r].status \in InFlightStatus

\* Such steps keep the invariant.
LEMMA SettlingKeeps == SlotInv /\ Settles => SlotInv'
<1> SUFFICES ASSUME SlotInv, Settles PROVE SlotInv'
  OBVIOUS
<1>1. RunTable'
  BY DEF SlotInv, RunTable, Settles
<1>2. \A r \in Runs : Scheduled(r)' => Scheduled(r) /\ run'[r].key = run[r].key
                                         /\ run'[r].plan = run[r].plan
  BY DEF Settles, Scheduled
<1>3. OneRunPerSlot'
  BY <1>2 DEF SlotInv, OneRunPerSlot
<1>4. \A r \in Runs : run'[r].status \in InFlightStatus => run[r].status \in InFlightStatus
  BY DEF Settles
<1>5. ScheduledRunsNeverOverlap'
  BY <1>2, <1>4 DEF SlotInv, ScheduledRunsNeverOverlap, InFlightStatus
<1> QED BY <1>1, <1>3, <1>5 DEF SlotInv

\* The end of a run and its cancellation, in the table.
LEMMA StatusSettles ==
  ASSUME SlotInv, NEW r \in Runs, NEW s, s \notin InFlightStatus,
         run[r].status \in InFlightStatus,
         run' = [run EXCEPT ![r].status = s]
  PROVE  Settles
<1>1. run[r] # NoRun
  BY DEF NoRun, InFlightStatus
<1>2. run[r] = [status |-> run[r].status, plan |-> run[r].plan, key |-> run[r].key]
  BY <1>1 DEF SlotInv, RunTable, Row
<1>3. run'[r] = [status |-> s, plan |-> run[r].plan, key |-> run[r].key]
  BY <1>2 DEF SlotInv, RunTable
<1>4. run' = [q \in Runs |-> run'[q]] /\ \A q \in Runs \ {r} : run'[q] = run[q]
  BY DEF SlotInv, RunTable
<1>5. run'[r] # NoRun
  BY <1>3 DEF NoRun
<1> QED BY <1>1, <1>3, <1>4, <1>5 DEF Settles, Row

\* A run inserted under a key nobody has, for a plan with nothing in flight if it
\* is a scheduled one, keeps the invariant.
LEMMA InsertKeeps ==
  ASSUME SlotInv, NEW r \in Runs, NEW p, NEW k, run[r] = NoRun, InsertRun(r, p, k),
         k # NoKey => /\ \A q \in Runs : run[q] # NoRun => run[q].key # k
                      /\ InFlight(p) = {}
  PROVE  SlotInv'
<1>1. /\ run' = [q \in Runs |-> run'[q]]
      /\ run'[r] = [status |-> "PENDING", plan |-> p, key |-> k]
      /\ \A q \in Runs \ {r} : run'[q] = run[q]
  BY DEF SlotInv, RunTable, InsertRun
<1>2. RunTable'
  BY <1>1, NewRow DEF SlotInv, RunTable
<1>3. /\ run'[r].status = "PENDING" /\ run'[r].plan = p /\ run'[r].key = k
      /\ \A q \in Runs \ {r} : Scheduled(q)' <=> Scheduled(q)
      /\ Scheduled(r)' => k # NoKey
  BY <1>1 DEF Scheduled
<1>4. OneRunPerSlot'
  <2> SUFFICES ASSUME NEW a \in Runs, NEW b \in Runs, Scheduled(a)', Scheduled(b)',
                      run'[a].key = run'[b].key
               PROVE  a = b
    BY DEF OneRunPerSlot
  <2>1. CASE a # r /\ b # r
    BY <1>1, <1>3, <2>1 DEF SlotInv, OneRunPerSlot
  <2>2. CASE (a = r) # (b = r)
    BY <1>1, <1>3, <2>2 DEF Scheduled
  <2> QED BY <2>1, <2>2
<1>5. ScheduledRunsNeverOverlap'
  <2> SUFFICES ASSUME NEW a \in Runs, NEW b \in Runs, Scheduled(a)', Scheduled(b)',
                      run'[a].plan = run'[b].plan,
                      {run'[a].status, run'[b].status} \subseteq {"PENDING", "RUNNING"}
               PROVE  a = b
    BY DEF ScheduledRunsNeverOverlap
  <2>1. CASE a # r /\ b # r
    BY <1>1, <1>3, <2>1 DEF SlotInv, ScheduledRunsNeverOverlap
  <2>2. CASE (a = r) # (b = r)
    BY <1>1, <1>3, <2>2 DEF InFlight
  <2> QED BY <2>1, <2>2
<1> QED BY <1>2, <1>4, <1>5 DEF SlotInv

LEMMA SlotInit == Init => SlotInv
BY DEF Init, LedgerInit, SlotInv, RunTable, Row, OneRunPerSlot,
       ScheduledRunsNeverOverlap, Scheduled, NoRun

\* Each of the scheduler's transactions.
LEMMA SlotDispatch ==
  ASSUME SlotInv, NEW t \in Processes, DispatchScheduled(t)
  PROVE  SlotInv'
<1> DEFINE p == Current(t)
           slot == process[t].due
<1>1. CASE UNCHANGED run
  BY <1>1, SettlingKeeps DEF Settles, SlotInv, RunTable
<1>2. CASE /\ SlotRuns(p, slot) = {} /\ InFlight(p) = {}
           /\ run[NewRun] = NoRun
           /\ InsertRun(NewRun, p, <<p, slot>>)
  <2>1. \A q \in Runs : run[q] # NoRun => run[q].key # <<p, slot>>
    BY <1>2 DEF SlotRuns
  <2> QED BY <1>2, <2>1, FreshRun, InsertKeeps
<1> QED BY <1>1, <1>2 DEF DispatchScheduled

\* Every step.
LEMMA SlotNext == SlotInv /\ [Next]_vars => SlotInv'
<1> SUFFICES ASSUME SlotInv, [Next]_vars PROVE SlotInv'
  OBVIOUS
<1>1. CASE UNCHANGED run
  BY <1>1, SettlingKeeps DEF Settles, SlotInv, RunTable
<1>2. CASE \E t \in Processes : DispatchScheduled(t)
  BY <1>2, SlotDispatch
<1>3. CASE \E r \in ManualRuns, p \in Plans : ManualRun(r, p)
  BY <1>3, InsertKeeps, SchedulerAssumption DEF ManualRun, DispatchManual
<1>4. CASE \E r \in Runs : CancelRun(r)
  <2>1. PICK r \in Runs : Cancel(r)
    BY <1>4 DEF CancelRun
  <2>2. run[r].status \in InFlightStatus /\ "CANCELLED" \notin InFlightStatus
    BY <2>1 DEF Cancel, InFlightStatus
  <2>3. run' = [run EXCEPT ![r].status = "CANCELLED"]
    BY <2>1 DEF Cancel
  <2>4. Settles
    BY <2>2, <2>3, StatusSettles
  <2> QED BY <2>4, SettlingKeeps
<1>5. CASE \E r \in Runs : EndRun(r)
  <2>1. PICK r \in Runs : EndRun(r)
    BY <1>5
  <2>2. run[r].status \in InFlightStatus /\ "COMPLETED" \notin InFlightStatus
    BY <2>1 DEF EndRun, InFlightStatus
  <2>3. run' = [run EXCEPT ![r].status = "COMPLETED"]
    BY <2>1 DEF EndRun
  <2>4. Settles
    BY <2>2, <2>3, StatusSettles
  <2> QED BY <2>4, SettlingKeeps
<1> QED
  BY <1>1, <1>2, <1>3, <1>4, <1>5
  DEF Next, vars, TickStep, BeginTick, Inspect, ReadState, Initialize, ReadBack, Advance,
      WriteScheduleError, Crash, Elsewhere, Request, EditPlan, TimePasses

\* Two runs never have the same slot of a plan: every dispatch of every process
\* looks for the slot's run in the transaction that inserts it, so neither crashes
\* nor other processes can make the same slot run twice.
THEOREM SlotsRunOnce == Spec => []OneRunPerSlot
<1>1. SlotInv => OneRunPerSlot
  BY DEF SlotInv
<1> QED BY <1>1, SlotInit, SlotNext, PTL DEF Spec

\* At most one scheduled run of a plan is in flight, for any number of processes.
THEOREM NoOverlap == Spec => []ScheduledRunsNeverOverlap
<1>1. SlotInv => ScheduledRunsNeverOverlap
  BY DEF SlotInv
<1> QED BY <1>1, SlotInit, SlotNext, PTL DEF Spec

-----------------------------------------------------------------------------
(* The rows of the schedule table, and what a process remembers of them. *)

Entry == [id : Plans, schedule : Schedules]
PlanRecord == [active : BOOLEAN, schedule : Schedules, ready : BOOLEAN]

\* Only a schedule that could be evaluated has a due time.
StateRow(x) ==
  /\ x # NoRow /\ x.schedule \in Schedules
  /\ x.due # None => x.due \in Nat /\ Valid(x.schedule)

\* What a process remembers between its transactions: the plans it has left, and
\* the slot it found due at its own now.
Busy(x, S) ==
  /\ x # Idle /\ x.now \in Nat /\ x.todo \in Seq(Entry) /\ x.todo # <<>>
  /\ x.at = "reread" => S[Head(x.todo).id] # NoRow
  /\ x.at \in {"dispatch", "advance", "error"} =>
       x.due \in Nat /\ x.due <= x.now /\ S[Head(x.todo).id] # NoRow

TickInv ==
  /\ plan \in [Plans -> PlanRecord] /\ clock \in Nat
  /\ state = [p \in Plans |-> state[p]] /\ process = [t \in Processes |-> process[t]]
  /\ \A p \in Plans : state[p] = NoRow \/ StateRow(state[p])
  /\ \A t \in Processes : process[t] = Idle \/ Busy(process[t], state)

\* Rows and work are never mistaken for their absence.
LEMMA Present ==
  /\ \A a, b, c, d, e : [schedule |-> a, due |-> b, lastSlot |-> c, lastRun |-> d, errorAt |-> e]
                          # NoRow
  /\ \A a, b, c, d, e, f : a # "idle" => Work(a, b, c, d, e, f) # Idle
<1>1. ASSUME NEW a, NEW b, NEW c, NEW d, NEW e
      PROVE  [schedule |-> a, due |-> b, lastSlot |-> c, lastRun |-> d, errorAt |-> e] # NoRow
  <2>1. "due" \in DOMAIN [schedule |-> a, due |-> b, lastSlot |-> c, lastRun |-> d, errorAt |-> e]
    OBVIOUS
  <2>2. "due" \notin DOMAIN NoRow
    BY DEF NoRow
  <2> QED BY <2>1, <2>2
<1>2. ASSUME NEW a, NEW b, NEW c, NEW d, NEW e, NEW f, a # "idle"
      PROVE  Work(a, b, c, d, e, f) # Idle
  <2>1. Work(a, b, c, d, e, f).at = a /\ Idle.at = "idle"
    BY DEF Work, Idle
  <2> QED BY <1>2, <2>1
<1> QED BY <1>1, <1>2

\* The arithmetic of schedules: what follows a time lies after it.
LEMMA Division ==
  ASSUME NEW a \in Nat, NEW e \in Nat \ {0}
  PROVE  a \div e \in Nat /\ (a \div e + 1) * e \in Nat /\ (a \div e + 1) * e > a
         /\ (a \div e + 1) * e >= e
<1>1. a \div e \in Nat /\ (a \div e + 1) * e > a
  OBVIOUS
<1>2. \A k \in Nat : (k + 1) * e \in Nat /\ (k + 1) * e >= e
  OBVIOUS
<1> QED BY <1>1, <1>2

LEMMA SlotsFollow ==
  ASSUME NEW s \in Schedules, Valid(s), NEW now \in Nat
  PROVE  /\ NextScheduledAt(s, now) \in Nat /\ NextScheduledAt(s, now) > now
         /\ \A slot \in Nat : slot <= now =>
              /\ NextFutureScheduledAt(s, slot, now) \in Nat
              /\ NextFutureScheduledAt(s, slot, now) > now
<1>1. s.every \in Nat \ {0}
  BY SchedulerAssumption DEF Valid
<1>2. NextOccurrence(s, now) \in Nat /\ NextOccurrence(s, now) > now
  BY <1>1, Division DEF NextOccurrence
<1>3. NextScheduledAt(s, now) \in Nat /\ NextScheduledAt(s, now) > now
  BY <1>1, <1>2 DEF NextScheduledAt
<1>4. ASSUME NEW slot \in Nat, slot <= now
      PROVE  /\ NextFutureScheduledAt(s, slot, now) \in Nat
             /\ NextFutureScheduledAt(s, slot, now) > now
  <2> DEFINE next == slot + s.every
  <2>1. CASE s.mode = "CRON"
    BY <1>2, <2>1 DEF NextFutureScheduledAt
  <2>2. CASE s.mode # "CRON" /\ next > now
    BY <1>1, <2>2 DEF NextFutureScheduledAt
  <2>3. CASE s.mode # "CRON" /\ next <= now
    <3>1. now - next \in Nat /\ next \in Nat
      BY <1>1, <2>3
    <3>2. NextFutureScheduledAt(s, slot, now) = next + ((now - next) \div s.every + 1) * s.every
      <4>1. ~(next > now)
        BY <2>3, <3>1
      <4> QED BY <2>3, <4>1 DEF NextFutureScheduledAt
    <3> DEFINE jump == ((now - next) \div s.every + 1) * s.every
    <3>3. jump \in Nat /\ jump > now - next
      BY <1>1, <3>1, Division
    <3> HIDE DEF jump
    <3> QED BY <3>1, <3>2, <3>3 DEF jump
  <2> QED BY <1>1, <2>1, <2>2, <2>3
<1> QED BY <1>3, <1>4

\* The plan a process works on, and the plans it has left.
LEMMA WorkList ==
  ASSUME NEW s \in Seq(Entry), s # <<>>
  PROVE  /\ Head(s).id \in Plans /\ Head(s).schedule \in Schedules
         /\ Tail(s) \in Seq(Entry) /\ (Len(s) # 1 => Tail(s) # <<>>)
<1>1. Head(s) \in Entry /\ Tail(s) \in Seq(Entry)
  BY HeadTailProperties
<1>2. Len(s) # 1 => Tail(s) # <<>>
  <2>1. Len(Tail(s)) = Len(s) - 1 /\ Len(s) \in Nat
    BY HeadTailProperties, LenProperties
  <2>2. Tail(s) = <<>> => Len(Tail(s)) = 0
    BY EmptySeq
  <2> QED BY <2>1, <2>2
<1> QED BY <1>1, <1>2 DEF Entry

\* What the query returns.
LEMMA SelectedEntries ==
  ASSUME TickInv, NEW todo \in Selected(clock)
  PROVE  /\ todo \in Seq(Entry)
         /\ \A i \in 1 .. Len(todo) :
              plan[todo[i].id].active /\ plan[todo[i].id].schedule = todo[i].schedule
<1> DEFINE S == {p \in Plans : Automatic(p)}
<1>1. PICK q \in Ordered(clock) :
        todo = [i \in 1 .. (IF Len(q) <= TickLimit THEN Len(q) ELSE TickLimit) |->
                  [id |-> q[i], schedule |-> plan[q[i]].schedule]]
  BY DEF Selected
<1>2. IsFiniteSet(S) /\ Cardinality(S) \in Nat
  BY SchedulerAssumption, FS_Subset, FS_CardinalityType
<1>3. q \in [1 .. Cardinality(S) -> S]
  BY <1>1 DEF Ordered
<1> HIDE DEF S
<1>4. q \in Seq(S) /\ Len(q) = Cardinality(S)
  BY <1>2, <1>3
<1>5. \A i \in 1 .. Len(q) : q[i] \in Plans /\ plan[q[i]].active
  BY <1>3, <1>4 DEF S, Automatic
<1> DEFINE n == IF Len(q) <= TickLimit THEN Len(q) ELSE TickLimit
<1>6. n \in Nat /\ n <= Len(q)
  BY <1>2, <1>4, SchedulerAssumption
<1>7. \A i \in 1 .. n : [id |-> q[i], schedule |-> plan[q[i]].schedule] \in Entry
  BY <1>2, <1>4, <1>5, <1>6 DEF TickInv, PlanRecord, Entry
<1>8. todo = [i \in 1 .. n |-> [id |-> q[i], schedule |-> plan[q[i]].schedule]]
  BY <1>1
<1> HIDE DEF n
<1>9. todo \in Seq(Entry) /\ Len(todo) = n
  BY <1>6, <1>7, <1>8
<1>10. \A i \in 1 .. n : todo[i].id = q[i] /\ todo[i].schedule = plan[q[i]].schedule
  BY <1>8
<1>11. \A i \in 1 .. n : i \in 1 .. Len(q)
  BY <1>2, <1>4, <1>6
<1> QED BY <1>5, <1>9, <1>10, <1>11

\* A process that is done with a plan, or goes on with it.
LEMMA FinishedWork ==
  ASSUME NEW t, Busy(process[t], state), NEW S
  PROVE  Finished(t) = Idle \/ Busy(Finished(t), S)
<1> DEFINE w == Work("read", process[t].kind, process[t].now, Tail(process[t].todo), None, None)
<1>1. CASE Len(process[t].todo) = 1
  BY <1>1 DEF Finished
<1>2. CASE Len(process[t].todo) # 1
  <2>1. Finished(t) = w
    BY <1>2 DEF Finished
  <2>2. w # Idle
    BY Present
  <2>3. w.at = "read" /\ w.now = process[t].now /\ w.todo = Tail(process[t].todo)
    BY DEF Work
  <2>4. w.todo \in Seq(Entry) /\ w.todo # <<>> /\ w.now \in Nat
    BY <1>2, <2>3, WorkList DEF Busy
  <2> HIDE DEF w
  <2> QED BY <2>1, <2>2, <2>3, <2>4 DEF Busy
<1> QED BY <1>1, <1>2

LEMMA GoesOnWork ==
  ASSUME NEW t, Busy(process[t], state), NEW S, NEW place, place # "idle", NEW due, NEW r,
         place \in {"reread", "dispatch", "advance", "error"} => S[Current(t)] # NoRow,
         place \in {"dispatch", "advance", "error"} => due \in Nat /\ due <= process[t].now
  PROVE  Busy(Work(place, process[t].kind, process[t].now, process[t].todo, due, r), S)
<1> DEFINE w == Work(place, process[t].kind, process[t].now, process[t].todo, due, r)
<1>1. w # Idle
  BY Present
<1>2. w.at = place /\ w.now = process[t].now /\ w.todo = process[t].todo /\ w.due = due
  BY DEF Work
<1> HIDE DEF w
<1>3. Busy(w, S)
  BY <1>1, <1>2 DEF Busy, Current
<1> QED BY <1>3 DEF w

LEMMA CurrentPlan ==
  ASSUME NEW t, Busy(process[t], state)
  PROVE  Current(t) \in Plans /\ Schedule(t) \in Schedules /\ process[t].now \in Nat
BY WorkList DEF Busy, Current, Schedule

\* Nobody removes a row, so a step of one process leaves the others where they are.
LEMMA WorkingKeeps ==
  ASSUME TickInv, NEW t \in Processes, NEW w, process' = [process EXCEPT ![t] = w],
         UNCHANGED <<plan, clock>>, state' = [p \in Plans |-> state'[p]],
         \A p \in Plans : state'[p] = state[p] \/ StateRow(state'[p]),
         w = Idle \/ Busy(w, state')
  PROVE  TickInv'
<1>1. \A p \in Plans : /\ state'[p] = NoRow \/ StateRow(state'[p])
                       /\ state[p] # NoRow => state'[p] # NoRow
  BY DEF TickInv, StateRow
<1>2. process' = [u \in Processes |-> process'[u]] /\ process'[t] = w
      /\ \A u \in Processes : u # t => process'[u] = process[u]
  BY DEF TickInv
<1>3. ASSUME NEW u \in Processes, u # t PROVE process'[u] = Idle \/ Busy(process'[u], state')
  <2>1. CASE process[u] = Idle
    BY <1>2, <1>3, <2>1
  <2>2. CASE Busy(process[u], state)
    <3>1. Head(process[u].todo).id \in Plans
      BY <2>2, WorkList DEF Busy
    <3> QED BY <1>1, <1>2, <1>3, <2>2, <3>1 DEF Busy
  <2> QED BY <2>1, <2>2 DEF TickInv
<1> QED BY <1>1, <1>2, <1>3 DEF TickInv

\* What a process writes to the row of its plan.
LEMMA WrittenRows ==
  ASSUME TickInv, NEW t, Busy(process[t], state)
  PROVE  /\ StateRow(ErrorRow(t))
         /\ At(t, "initialize") /\ Valid(Schedule(t)) =>
              StateRow([schedule |-> Schedule(t),
                        due      |-> NextScheduledAt(Schedule(t), process[t].now),
                        lastSlot |-> IF state[Current(t)] = NoRow THEN None
                                     ELSE state[Current(t)].lastSlot,
                        lastRun  |-> IF state[Current(t)] = NoRow THEN None
                                     ELSE state[Current(t)].lastRun,
                        errorAt  |-> None])
         /\ /\ At(t, "advance") /\ state[Current(t)].schedule = Schedule(t)
            /\ state[Current(t)].due = process[t].due
            => /\ StateRow(Advanced(t, state[Current(t)])) /\ process[t].due \in Nat
               /\ process[t].due < Advanced(t, state[Current(t)]).due
               /\ process[t].now < Advanced(t, state[Current(t)]).due
<1> DEFINE p == Current(t)
           old == state[p]
<1>1. p \in Plans /\ Schedule(t) \in Schedules /\ process[t].now \in Nat
  BY CurrentPlan
<1>2. old = NoRow \/ StateRow(old)
  BY <1>1 DEF TickInv
<1>3. StateRow(ErrorRow(t))
  <2> DEFINE row == ErrorRow(t)
  <2>1. row # NoRow
    BY Present DEF ErrorRow
  <2>2. row.schedule = Schedule(t)
        /\ row.due = IF old = NoRow \/ old.schedule # Schedule(t) THEN None ELSE old.due
    BY DEF ErrorRow
  <2> HIDE DEF row
  <2>3. StateRow(row)
    BY <1>1, <1>2, <2>1, <2>2 DEF StateRow
  <2> QED BY <2>3 DEF row
<1>4. ASSUME Valid(Schedule(t))
      PROVE  StateRow([schedule |-> Schedule(t),
                       due      |-> NextScheduledAt(Schedule(t), process[t].now),
                       lastSlot |-> IF old = NoRow THEN None ELSE old.lastSlot,
                       lastRun  |-> IF old = NoRow THEN None ELSE old.lastRun,
                       errorAt  |-> None])
  <2> DEFINE row == [schedule |-> Schedule(t),
                     due      |-> NextScheduledAt(Schedule(t), process[t].now),
                     lastSlot |-> IF old = NoRow THEN None ELSE old.lastSlot,
                     lastRun  |-> IF old = NoRow THEN None ELSE old.lastRun,
                     errorAt  |-> None]
  <2>1. row # NoRow
    BY Present
  <2>2. row.schedule = Schedule(t) /\ row.due = NextScheduledAt(Schedule(t), process[t].now)
    OBVIOUS
  <2> HIDE DEF row
  <2>3. StateRow(row)
    BY <1>1, <1>4, <2>1, <2>2, SlotsFollow DEF StateRow
  <2> QED BY <2>3 DEF row
<1>5. ASSUME At(t, "advance"), old.schedule = Schedule(t), old.due = process[t].due
      PROVE  /\ StateRow(Advanced(t, old)) /\ process[t].due \in Nat
             /\ process[t].due < Advanced(t, old).due
             /\ process[t].now < Advanced(t, old).due
  <2> DEFINE row == Advanced(t, old)
  <2>1. process[t].due \in Nat /\ process[t].due <= process[t].now /\ old # NoRow
    BY <1>5 DEF Busy, At, Current
  <2>2. Valid(Schedule(t))
    BY <1>2, <1>5, <2>1, SchedulerAssumption DEF StateRow
  <2>3. row # NoRow
    BY Present DEF Advanced
  <2>4. row.schedule = Schedule(t)
        /\ row.due = NextFutureScheduledAt(Schedule(t), process[t].due, process[t].now)
    BY <1>5 DEF Advanced
  <2> HIDE DEF row
  <2>5. row.due \in Nat /\ row.due > process[t].now
    BY <1>1, <2>1, <2>2, <2>4, SlotsFollow
  <2>6. StateRow(row)
    BY <1>1, <2>2, <2>3, <2>4, <2>5 DEF StateRow
  <2> QED BY <1>1, <2>1, <2>5, <2>6 DEF row
<1> QED BY <1>3, <1>4, <1>5

\* What a process does next with the row it has read.
LEMMA ExamineWork ==
  ASSUME TickInv, NEW t \in Processes, Busy(process[t], state), state[Current(t)] # NoRow,
         Examine(t, state[Current(t)])
  PROVE  \E w : process' = [process EXCEPT ![t] = w] /\ (w = Idle \/ Busy(w, state))
<1> DEFINE row == state[Current(t)]
<1>1. StateRow(row)
  BY CurrentPlan DEF TickInv
<1>2. CASE process[t].kind = "tick" /\ row.due # None /\ row.due <= process[t].now
  <2> DEFINE w == Work("dispatch", process[t].kind, process[t].now, process[t].todo, row.due, None)
  <2>1. row.due \in Nat
    BY <1>1, <1>2 DEF StateRow
  <2>2. Busy(w, state)
    <3> HIDE DEF row
    <3>1. state[Current(t)] # NoRow
      OBVIOUS
    <3> QED BY <1>2, <2>1, <3>1, GoesOnWork
  <2>3. process' = [process EXCEPT ![t] = w]
    BY <1>2 DEF Examine, GoesOn
  <2> HIDE DEF w
  <2> QED BY <2>2, <2>3
<1>3. CASE ~(process[t].kind = "tick" /\ row.due # None /\ row.due <= process[t].now)
  <2>1. process' = [process EXCEPT ![t] = Finished(t)]
    BY <1>3 DEF Examine
  <2> QED BY <2>1, FinishedWork
<1> QED BY <1>2, <1>3

LEMMA TickInit == Init => TickInv
<1> SUFFICES ASSUME Init PROVE TickInv
  OBVIOUS
<1>1. plan \in [Plans -> PlanRecord]
  BY DEF Init, PlanRecord
<1> QED BY <1>1 DEF Init, TickInv

LEMMA TickStepKeeps ==
  ASSUME TickInv, NEW t \in Processes, TickStep(t)
  PROVE  TickInv'
<1>1. Busy(process[t], state)
  <2>1. Idle.at = "idle"
    BY DEF Idle
  <2>2. process[t] # Idle
    BY <2>1 DEF TickStep, ReadState, Initialize, ReadBack, DispatchScheduled, Advance,
                WriteScheduleError, At
  <2> QED BY <2>2 DEF TickInv
<1>2. Current(t) \in Plans
  BY <1>1, CurrentPlan
<1>3. state = [p \in Plans |-> state[p]]
  BY DEF TickInv
<1>4. ASSUME UNCHANGED <<plan, clock, state>>,
             \E w : process' = [process EXCEPT ![t] = w] /\ (w = Idle \/ Busy(w, state))
      PROVE  TickInv'
  BY <1>3, <1>4, WorkingKeeps
<1>5. CASE ReadState(t)
  <2>1. UNCHANGED <<plan, clock, state>>
    BY <1>5 DEF ReadState, planVars
  <2>2. CASE state[Current(t)] # NoRow /\ Examine(t, state[Current(t)])
    BY <1>1, <1>4, <2>1, <2>2, ExamineWork
  <2>3. CASE GoesOn(t, "initialize", None, None)
    <3> DEFINE place == "initialize"
    <3>0. place # "idle" /\ place \notin {"reread", "dispatch", "advance", "error"}
          /\ place \notin {"dispatch", "advance", "error"}
      OBVIOUS
    <3> HIDE DEF place
    <3>2. Busy(Work(place, process[t].kind, process[t].now, process[t].todo, None, None), state)
      BY <1>1, <3>0, GoesOnWork
    <3>1. Busy(Work("initialize", process[t].kind, process[t].now, process[t].todo, None, None), state)
      BY <3>2 DEF place
    <3> QED BY <1>4, <2>1, <2>3, <3>1 DEF GoesOn
  <2> QED BY <1>5, <2>2, <2>3 DEF ReadState
<1>6. CASE Initialize(t)
  <2> DEFINE w == Work("reread", process[t].kind, process[t].now, process[t].todo, None, None)
  <2>1. UNCHANGED <<plan, clock>> /\ process' = [process EXCEPT ![t] = w]
    BY <1>6 DEF Initialize, GoesOn
  <2>2. PICK row : state' = [state EXCEPT ![Current(t)] = row] /\ StateRow(row)
    BY <1>1, <1>6, WrittenRows DEF Initialize
  <2>3. /\ state' = [p \in Plans |-> state'[p]] /\ state'[Current(t)] = row
        /\ \A p \in Plans : state'[p] = state[p] \/ StateRow(state'[p])
    BY <1>2, <1>3, <2>2
  <2>4. Busy(w, state')
    BY <1>1, <2>2, <2>3, GoesOnWork DEF StateRow
  <2> HIDE DEF w
  <2> QED BY <2>1, <2>3, <2>4, WorkingKeeps
<1>7. CASE ReadBack(t)
  <2>1. UNCHANGED <<plan, clock, state>> /\ Examine(t, state[Current(t)])
    BY <1>7 DEF ReadBack, planVars
  <2>2. state[Current(t)] # NoRow
    BY <1>1, <1>7 DEF ReadBack, At, Busy, Current
  <2> QED BY <1>1, <1>4, <2>1, <2>2, ExamineWork
<1>8. CASE DispatchScheduled(t)
  <2>1. UNCHANGED <<plan, clock, state>>
    BY <1>8 DEF DispatchScheduled
  <2>2. \E r : GoesOn(t, "error", process[t].due, r) \/ GoesOn(t, "advance", process[t].due, r)
    BY <1>8 DEF DispatchScheduled
  <2>3. /\ process[t].due \in Nat /\ process[t].due <= process[t].now
        /\ state[Current(t)] # NoRow
    BY <1>1, <1>8 DEF DispatchScheduled, At, Busy, Current
  <2>4. ASSUME NEW r, NEW place \in {"error", "advance"}
        PROVE  Busy(Work(place, process[t].kind, process[t].now, process[t].todo, process[t].due, r),
                    state)
    BY <1>1, <2>3, GoesOnWork
  <2>5. \E w : process' = [process EXCEPT ![t] = w] /\ Busy(w, state)
    BY <2>2, <2>4 DEF GoesOn
  <2> QED BY <1>4, <2>1, <2>5
<1>9. CASE Advance(t) \/ WriteScheduleError(t)
  <2>1. UNCHANGED <<plan, clock>> /\ process' = [process EXCEPT ![t] = Finished(t)]
    BY <1>9 DEF Advance, WriteScheduleError
  <2>2. Finished(t) = Idle \/ Busy(Finished(t), state')
    BY <1>1, FinishedWork
  <2>3. CASE state' = state
    BY <1>3, <2>1, <2>2, <2>3, WorkingKeeps
  <2>4. CASE \E row : state' = [state EXCEPT ![Current(t)] = row] /\ StateRow(row)
    <3>1. PICK row : state' = [state EXCEPT ![Current(t)] = row] /\ StateRow(row)
      BY <2>4
    <3>2. /\ state' = [p \in Plans |-> state'[p]]
          /\ \A p \in Plans : state'[p] = state[p] \/ StateRow(state'[p])
      BY <1>2, <1>3, <3>1
    <3> QED BY <2>1, <2>2, <3>2, WorkingKeeps
  <2>5. WriteScheduleError(t) => \E row : state' = [state EXCEPT ![Current(t)] = row] /\ StateRow(row)
    BY <1>1, WrittenRows DEF WriteScheduleError
  <2>6. Advance(t) => \/ state' = state
                      \/ \E row : state' = [state EXCEPT ![Current(t)] = row] /\ StateRow(row)
    BY <1>1, WrittenRows DEF Advance
  <2> QED BY <1>9, <2>3, <2>4, <2>5, <2>6
<1> QED BY <1>5, <1>6, <1>7, <1>8, <1>9 DEF TickStep

\* A process that begins.
LEMMA BeginKeeps ==
  ASSUME TickInv, NEW t \in Processes, NEW kind, NEW todo \in Seq(Entry), todo # <<>>,
         process' = [process EXCEPT ![t] = Work("read", kind, clock, todo, None, None)],
         UNCHANGED <<plan, clock, state>>
  PROVE  TickInv'
<1> DEFINE w == Work("read", kind, clock, todo, None, None)
<1>1. w # Idle
  BY Present
<1>2. w.at = "read" /\ w.now = clock /\ w.todo = todo
  BY DEF Work
<1>3. state = [p \in Plans |-> state[p]] /\ clock \in Nat
  BY DEF TickInv
<1> HIDE DEF w
<1>4. Busy(w, state)
  BY <1>1, <1>2, <1>3 DEF Busy
<1>5. process' = [process EXCEPT ![t] = w]
  BY DEF w
<1> QED BY <1>3, <1>4, <1>5, WorkingKeeps

LEMMA TickNext == TickInv /\ [Next]_vars => TickInv'
<1> SUFFICES ASSUME TickInv, [Next]_vars PROVE TickInv'
  OBVIOUS
<1>1. CASE UNCHANGED <<plan, clock, state, process>>
  BY <1>1 DEF TickInv
<1>2. ASSUME NEW t \in Processes, TickStep(t) PROVE TickInv'
  BY <1>2, TickStepKeeps
<1>3. ASSUME NEW t \in Processes, BeginTick(t) PROVE TickInv'
  <2>1. PICK todo \in Selected(clock) : todo # <<>> /\
          process' = [process EXCEPT ![t] = Work("read", "tick", clock, todo, None, None)]
    BY <1>3 DEF BeginTick
  <2>2. todo \in Seq(Entry)
    BY SelectedEntries
  <2> QED BY <1>3, <2>1, <2>2, BeginKeeps DEF BeginTick, planVars
<1>4. ASSUME NEW t \in Processes, NEW p \in Plans, Inspect(t, p) PROVE TickInv'
  <2> DEFINE e == [id |-> p, schedule |-> plan[p].schedule]
  <2>1. e \in Entry
    BY DEF TickInv, PlanRecord, Entry
  <2>2. process' = [process EXCEPT ![t] = Work("read", "inspection", clock, <<e>>, None, None)]
    BY <1>4 DEF Inspect
  <2> HIDE DEF e
  <2>3. <<e>> \in Seq(Entry) /\ <<e>> # <<>>
    BY <2>1
  <2> QED BY <1>4, <2>2, <2>3, BeginKeeps DEF Inspect, planVars
<1>5. ASSUME NEW t \in Processes, Crash(t) PROVE TickInv'
  <2>1. state = [p \in Plans |-> state[p]]
    BY DEF TickInv
  <2> QED BY <1>5, <2>1, WorkingKeeps DEF Crash, planVars
<1>6. CASE Elsewhere
  <2>1. UNCHANGED <<process, clock, state>>
    BY <1>6 DEF Elsewhere, Request, EditPlan, ManualRun, CancelRun, EndRun, planVars
  <2>2. plan' \in [Plans -> PlanRecord]
    <3>1. \A p \in Plans, s \in Schedules, a \in BOOLEAN, b \in BOOLEAN :
            EditPlan(p, s, a, b) => plan' \in [Plans -> PlanRecord]
      BY DEF EditPlan, TickInv, PlanRecord
    <3>2. plan' = plan => plan' \in [Plans -> PlanRecord]
      BY DEF TickInv
    <3> QED BY <1>6, <3>1, <3>2 DEF Elsewhere, Request, ManualRun, CancelRun, EndRun, planVars
  <2> QED BY <2>1, <2>2 DEF TickInv
<1>7. CASE TimePasses
  BY <1>7 DEF TimePasses, TickInv, planVars
<1> QED
  BY <1>1, <1>2, <1>3, <1>4, <1>5, <1>6, <1>7 DEF Next, vars

\* Consuming a slot moves a plan's row forward, also when the tick that does it was
\* overtaken by another one, for any number of processes: advanceState compares the
\* slot and the schedule, and only a schedule that could be evaluated has a slot.
THEOREM SlotsMoveForward == Spec => SlotsConsumedForward
<1> DEFINE Step == \A p \in Plans : state[p] # NoRow /\ state'[p].lastSlot # state[p].lastSlot
                     => state[p].due = state'[p].lastSlot /\ state[p].due < state'[p].due
<1>1. TickInv /\ [Next]_vars => Step
  <2> SUFFICES ASSUME TickInv, [Next]_vars, NEW p \in Plans, state[p] # NoRow,
                      state'[p].lastSlot # state[p].lastSlot
               PROVE  state[p].due = state'[p].lastSlot /\ state[p].due < state'[p].due
    OBVIOUS
  <2>0. state = [q \in Plans |-> state[q]]
    BY DEF TickInv
  <2>1. PICK t \in Processes : Initialize(t) \/ Advance(t) \/ WriteScheduleError(t)
    BY DEF Next, vars, TickStep, BeginTick, Inspect, ReadState, ReadBack, DispatchScheduled,
           Crash, Elsewhere, Request, EditPlan, ManualRun, CancelRun, EndRun, TimePasses, planVars
  <2>2. Busy(process[t], state)
    <3>1. Idle.at = "idle"
      BY DEF Idle
    <3>2. process[t] # Idle
      BY <2>1, <3>1 DEF Initialize, Advance, WriteScheduleError, At
    <3> QED BY <3>2 DEF TickInv
  <2>3. p = Current(t)
    BY <2>0, <2>1 DEF Initialize, Advance, WriteScheduleError
  <2>4. CASE Initialize(t)
    <3>1. ErrorRow(t).lastSlot = state[p].lastSlot
      BY <2>3 DEF ErrorRow
    <3> QED BY <2>0, <2>3, <2>4, <3>1 DEF Initialize
  <2>5. CASE WriteScheduleError(t)
    <3>1. ErrorRow(t).lastSlot = state[p].lastSlot
      BY <2>3 DEF ErrorRow
    <3> QED BY <2>0, <2>3, <2>5, <3>1 DEF WriteScheduleError
  <2>6. CASE Advance(t)
    <3>1. /\ state[p].schedule = Schedule(t) /\ state[p].due = process[t].due
          /\ state'[p] = Advanced(t, state[p])
      BY <2>0, <2>3, <2>6 DEF Advance
    <3>2. process[t].due < Advanced(t, state[p]).due
      BY <2>2, <2>3, <2>6, <3>1, WrittenRows DEF Advance
    <3>3. Advanced(t, state[p]).lastSlot = process[t].due
      BY DEF Advanced
    <3> QED BY <3>1, <3>2, <3>3
  <2> QED BY <2>1, <2>4, <2>5, <2>6
<1>2. TickInv /\ [Next]_vars => [Step]_vars
  BY <1>1
<1>3. Spec => [][Step]_vars
  BY <1>2, TickInit, TickNext, PTL DEF Spec
<1> QED BY <1>3 DEF SlotsConsumedForward

-----------------------------------------------------------------------------
(* One process.  Nothing but time and its own death then falls between the *)
(* steps of a tick, so that what it remembers stays true.                  *)

OneProcess == \A t, u \in Processes : t = u

\* A run is requested when its slot has come.
RunsDated ==
  \A r \in Runs : Scheduled(r) =>
    /\ run[r].plan \in Plans /\ run[r].key = <<run[r].plan, SlotOf(r)>>
    /\ SlotOf(r) \in Nat /\ requestedAt[r] \in Nat
    /\ SlotOf(r) <= requestedAt[r] /\ requestedAt[r] <= clock

\* What is due next is the slot of a run or lies after its request.
New(due, p) ==
  due # None => \A r \in Runs : Scheduled(r) /\ run[r].plan = p
                                  => due = SlotOf(r) \/ requestedAt[r] < due

\* The row x of plan p tells the truth about the slot and the run it names.
Tells(x, p) ==
  /\ x.lastSlot # None => /\ x.lastSlot \in Nat /\ x.lastSlot <= clock
                          /\ x.due # None => x.lastSlot < x.due
  /\ x.lastRun # None => /\ x.lastRun \in Runs /\ Scheduled(x.lastRun)
                         /\ run[x.lastRun].plan = p
                         /\ x.lastSlot # None /\ SlotOf(x.lastRun) <= x.lastSlot

RowsTell ==
  \A p \in Plans : state[p] # NoRow => New(state[p].due, p) /\ Tells(state[p], p)

\* What the process remembers is still so, and nothing has happened after its now.
UpToDate(x) ==
  /\ x.now <= clock
  /\ \A i \in 1 .. Len(x.todo) :
       plan[x.todo[i].id].active /\ plan[x.todo[i].id].schedule = x.todo[i].schedule
  /\ \A r \in Runs : Scheduled(r) => requestedAt[r] <= x.now
  /\ \A p \in Plans : state[p] # NoRow /\ state[p].lastSlot # None => state[p].lastSlot <= x.now
  /\ x.at \in {"reread", "dispatch", "advance", "error"} =>
       state[Head(x.todo).id].schedule = Head(x.todo).schedule
  /\ x.at \in {"dispatch", "advance", "error"} => state[Head(x.todo).id].due = x.due
  /\ x.at = "advance" /\ x.run # None =>
       /\ x.run \in Runs /\ Scheduled(x.run)
       /\ run[x.run].plan = Head(x.todo).id /\ SlotOf(x.run) = x.due

Past == RunsDated /\ RowsTell /\ CatchUpOnce

HistoryInv ==
  /\ clock \in Times /\ requestedAt = [r \in Runs |-> requestedAt[r]]
  /\ Past
  /\ \A t \in Processes : process[t] # Idle => UpToDate(process[t])

\* What most steps do to the scheduled runs.
RunsKept ==
  \A r \in Runs :
    /\ Scheduled(r)' <=> Scheduled(r)
    /\ Scheduled(r) => /\ run'[r].plan = run[r].plan /\ run'[r].key = run[r].key
                       /\ requestedAt'[r] = requestedAt[r]

\* A step that touches neither scheduled runs nor rows leaves the past alone.
LEMMA PastKept ==
  ASSUME Past, clock \in Times, clock' \in Times, clock <= clock', RunsKept, UNCHANGED state
  PROVE  Past'
<1>1. RunsDated'
  BY DEF Past, RunsDated, RunsKept, SlotOf, Times
<1>2. RowsTell'
  <2> SUFFICES ASSUME NEW p \in Plans, state[p] # NoRow
               PROVE  (New(state[p].due, p) /\ Tells(state[p], p))'
    BY DEF RowsTell
  <2>1. New(state[p].due, p) /\ Tells(state[p], p)
    BY DEF Past, RowsTell
  <2>2. New(state[p].due, p)'
    BY <2>1 DEF New, RunsKept, SlotOf
  <2>3. Tells(state[p], p)'
    BY <2>1 DEF Tells, RunsKept, SlotOf, Times
  <2> QED BY <2>2, <2>3
<1>3. CatchUpOnce'
  BY DEF Past, CatchUpOnce, RunsKept, SlotOf
<1> QED BY <1>1, <1>2, <1>3 DEF Past

\* The process goes on with its plan or with the next one.
LEMMA StillUpToDate ==
  ASSUME NEW t \in Processes, Busy(process[t], state), UpToDate(process[t]), UNCHANGED plan,
         clock \in Times, clock' \in Times, clock <= clock',
         NEW w, w.now = process[t].now,
         \A r \in Runs : Scheduled(r)' => requestedAt'[r] <= w.now,
         \A p \in Plans :
           state'[p] # NoRow /\ state'[p].lastSlot # None => state'[p].lastSlot <= w.now,
         \/ w.at = "read" /\ w.todo = Tail(process[t].todo)
         \/ /\ w.todo = process[t].todo
            /\ w.at \in {"reread", "dispatch", "advance", "error"} =>
                 state'[Current(t)].schedule = Schedule(t)
            /\ w.at \in {"dispatch", "advance", "error"} => state'[Current(t)].due = w.due
            /\ w.at = "advance" /\ w.run # None =>
                 /\ w.run \in Runs /\ Scheduled(w.run)'
                 /\ run'[w.run].plan = Current(t) /\ SlotOf(w.run)' = w.due
  PROVE  UpToDate(w)'
<1>1. w.now <= clock'
  BY DEF UpToDate, Busy, Times
<1>2. \A i \in 1 .. Len(w.todo) :
        plan'[w.todo[i].id].active /\ plan'[w.todo[i].id].schedule = w.todo[i].schedule
  <2>1. CASE w.todo = process[t].todo
    BY <2>1 DEF UpToDate
  <2>2. CASE w.todo = Tail(process[t].todo)
    <3>1. process[t].todo \in Seq(Entry) /\ process[t].todo # <<>>
      BY DEF Busy
    <3>2. /\ Len(w.todo) = Len(process[t].todo) - 1 /\ Len(process[t].todo) \in Nat
          /\ \A i \in 1 .. Len(w.todo) : w.todo[i] = process[t].todo[i + 1]
      BY <2>2, <3>1, HeadTailProperties, LenProperties
    <3>3. \A i \in 1 .. Len(w.todo) : i + 1 \in 1 .. Len(process[t].todo)
      BY <3>2
    <3> QED BY <3>2, <3>3 DEF UpToDate
  <2> QED BY <2>1, <2>2
<1>3. CASE w.at = "read"
  BY <1>1, <1>2, <1>3 DEF UpToDate
<1>4. CASE w.at # "read"
  <2>1. Head(w.todo).id = Current(t) /\ Head(w.todo).schedule = Schedule(t)
    BY <1>4 DEF Current, Schedule
  <2> DEFINE h == Head(w.todo)
  <2>2. h.id = Current(t) /\ h.schedule = Schedule(t)
    BY <2>1
  <2>3. /\ w.at \in {"reread", "dispatch", "advance", "error"} => state'[h.id].schedule = h.schedule
        /\ w.at \in {"dispatch", "advance", "error"} => state'[h.id].due = w.due
    BY <1>4, <2>2
  <2>4. w.at = "advance" /\ w.run # None =>
          w.run \in Runs /\ Scheduled(w.run)' /\ run'[w.run].plan = h.id /\ SlotOf(w.run)' = w.due
    BY <1>4, <2>2
  <2> QED BY <1>1, <1>2, <2>3, <2>4 DEF UpToDate
<1> QED BY <1>3, <1>4

\* What the step of the only process leaves to show.
LEMMA HistoryKept ==
  ASSUME OneProcess, HistoryInv, process = [u \in Processes |-> process[u]], Past',
         clock' \in Times, requestedAt' = [r \in Runs |-> requestedAt'[r]],
         NEW t \in Processes, NEW w, process' = [process EXCEPT ![t] = w],
         w = Idle \/ UpToDate(w)'
  PROVE  HistoryInv'
<1>1. \A u \in Processes : process'[u] = w
  BY DEF OneProcess
<1>2. \A u \in Processes : process'[u] # Idle => UpToDate(process[u])'
  <2> SUFFICES ASSUME NEW u \in Processes, process'[u] # Idle PROVE UpToDate(process[u])'
    OBVIOUS
  <2>1. process'[u] = w /\ UpToDate(w)'
    BY <1>1
  <2> QED BY <2>1 DEF UpToDate, Scheduled, SlotOf
<1> QED BY <1>2 DEF HistoryInv

\* The facts of a process that works, for the lemmas below.
LEMMA WorkingFacts ==
  ASSUME TickInv, HistoryInv, NEW t \in Processes, process[t] # Idle
  PROVE  /\ Busy(process[t], state) /\ UpToDate(process[t])
         /\ Current(t) \in Plans /\ Schedule(t) \in Schedules /\ process[t].now \in Nat
         /\ process[t].now <= clock /\ clock \in Times /\ clock \in Nat
         /\ \A r \in Runs : Scheduled(r) => requestedAt[r] <= process[t].now
         /\ \A p \in Plans :
              state[p] # NoRow /\ state[p].lastSlot # None => state[p].lastSlot <= process[t].now
<1>1. Busy(process[t], state) /\ UpToDate(process[t])
  BY DEF TickInv, HistoryInv
<1>2. Current(t) \in Plans /\ Schedule(t) \in Schedules /\ process[t].now \in Nat
  BY <1>1, CurrentPlan
<1> QED BY <1>1, <1>2 DEF UpToDate, HistoryInv, TickInv

\* A process that only reads, and has done with the plan or goes on with it.
LEMMA ReadingKeeps ==
  ASSUME OneProcess, TickInv, HistoryInv, NEW t \in Processes, process[t] # Idle,
         UNCHANGED <<run, plan, state, requestedAt, clock>>,
         \/ process' = [process EXCEPT ![t] = Finished(t)]
         \/ GoesOn(t, "initialize", None, None)
         \/ \E r : /\ state[Current(t)].schedule = Schedule(t)
                   /\ \/ GoesOn(t, "dispatch", state[Current(t)].due, r)
                      \/ GoesOn(t, "error", state[Current(t)].due, r)
                      \/ /\ GoesOn(t, "advance", state[Current(t)].due, r)
                         /\ r # None => /\ r \in Runs /\ Scheduled(r)
                                        /\ run[r].plan = Current(t)
                                        /\ SlotOf(r) = state[Current(t)].due
  PROVE  HistoryInv'
<1>1. clock \in Times /\ clock' = clock /\ clock <= clock'
  BY WorkingFacts DEF HistoryInv
<1>2. Past'
  BY <1>1, PastKept DEF HistoryInv, RunsKept, Scheduled
<1>3. requestedAt' = [r \in Runs |-> requestedAt'[r]] /\ process = [u \in Processes |-> process[u]]
  BY DEF HistoryInv, TickInv
<1>4. /\ \A r \in Runs : Scheduled(r)' => requestedAt'[r] <= process[t].now
      /\ \A p \in Plans :
           state'[p] # NoRow /\ state'[p].lastSlot # None => state'[p].lastSlot <= process[t].now
      /\ Busy(process[t], state) /\ UpToDate(process[t])
  BY WorkingFacts DEF Scheduled
<1>5. CASE process' = [process EXCEPT ![t] = Finished(t)]
  <2>1. PICK w : w = Finished(t)
    OBVIOUS
  <2>2. CASE w # Idle
    <3>1. w.now = process[t].now /\ w.at = "read" /\ w.todo = Tail(process[t].todo)
      BY <2>1, <2>2 DEF Finished, Work
    <3>2. UpToDate(w)'
      BY <1>1, <1>4, <3>1, StillUpToDate
    <3> QED BY <1>1, <1>2, <1>3, <1>5, <2>1, <3>2, HistoryKept
  <2> QED BY <1>1, <1>2, <1>3, <1>5, <2>1, <2>2, HistoryKept
<1>6. ASSUME NEW place, NEW due, NEW r, GoesOn(t, place, due, r),
             \/ place = "initialize"
             \/ /\ state[Current(t)].schedule = Schedule(t) /\ state[Current(t)].due = due
                /\ place = "advance" /\ r # None =>
                     r \in Runs /\ Scheduled(r) /\ run[r].plan = Current(t) /\ SlotOf(r) = due
      PROVE  HistoryInv'
  <2>1. PICK w : w = Work(place, process[t].kind, process[t].now, process[t].todo, due, r)
    OBVIOUS
  <2>2. w.at = place /\ w.now = process[t].now /\ w.todo = process[t].todo /\ w.due = due
        /\ w.run = r
    BY <2>1 DEF Work
  <2>3. UpToDate(w)'
    <3>1. CASE place = "initialize"
      BY <1>1, <1>4, <2>2, <3>1, StillUpToDate
    <3>2. CASE place # "initialize"
      <4>1. /\ state'[Current(t)].schedule = Schedule(t) /\ state'[Current(t)].due = w.due
            /\ w.at = "advance" /\ w.run # None =>
                 /\ w.run \in Runs /\ Scheduled(w.run)'
                 /\ run'[w.run].plan = Current(t) /\ SlotOf(w.run)' = w.due
        BY <1>6, <2>2, <3>2 DEF Scheduled, SlotOf
      <4> QED BY <1>1, <1>4, <2>2, <4>1, StillUpToDate
    <3> QED BY <3>1, <3>2
  <2>4. process' = [process EXCEPT ![t] = w]
    BY <1>6, <2>1 DEF GoesOn
  <2> QED BY <1>1, <1>2, <1>3, <2>3, <2>4, HistoryKept
<1> QED BY <1>5, <1>6

\* A process that writes the row of its plan.
LEMMA WritingKeeps ==
  ASSUME OneProcess, TickInv, HistoryInv, NEW t \in Processes, process[t] # Idle,
         UNCHANGED <<run, plan, requestedAt, clock>>,
         NEW row, state' = [state EXCEPT ![Current(t)] = row],
         New(row.due, Current(t)), Tells(row, Current(t)),
         row.lastSlot # None => row.lastSlot <= process[t].now,
         \/ process' = [process EXCEPT ![t] = Finished(t)]
         \/ GoesOn(t, "reread", None, None) /\ row.schedule = Schedule(t)
  PROVE  HistoryInv'
<1>1. clock \in Times /\ clock' = clock /\ clock <= clock'
  BY WorkingFacts DEF HistoryInv
<1>2. /\ requestedAt' = [r \in Runs |-> requestedAt'[r]]
      /\ process = [u \in Processes |-> process[u]] /\ state = [q \in Plans |-> state[q]]
  BY DEF HistoryInv, TickInv
<1>3. PICK p \in Plans : p = Current(t)
  BY WorkingFacts
<1>4. state'[p] = row /\ \A q \in Plans : q # p => state'[q] = state[q]
  BY <1>2, <1>3
<1>5. Past'
  <2>1. RunsDated' /\ CatchUpOnce'
    BY <1>1 DEF HistoryInv, Past, RunsDated, CatchUpOnce, Scheduled, SlotOf
  <2>2. ASSUME NEW q \in Plans, state'[q] # NoRow
        PROVE  (New(state[q].due, q) /\ Tells(state[q], q))'
    <3>1. PICK x : x = state'[q]
      OBVIOUS
    <3>2. New(x.due, q) /\ Tells(x, q)
      BY <1>3, <1>4, <2>2, <3>1 DEF HistoryInv, Past, RowsTell
    <3> QED BY <1>1, <3>1, <3>2 DEF New, Tells, Scheduled, SlotOf
  <2> QED BY <2>1, <2>2 DEF Past, RowsTell
<1>6. /\ \A r \in Runs : Scheduled(r)' => requestedAt'[r] <= process[t].now
      /\ \A q \in Plans :
           state'[q] # NoRow /\ state'[q].lastSlot # None => state'[q].lastSlot <= process[t].now
      /\ Busy(process[t], state) /\ UpToDate(process[t])
  BY <1>4, WorkingFacts DEF Scheduled
<1>7. CASE process' = [process EXCEPT ![t] = Finished(t)]
  <2>1. PICK w : w = Finished(t)
    OBVIOUS
  <2>2. CASE w # Idle
    <3>1. w.now = process[t].now /\ w.at = "read" /\ w.todo = Tail(process[t].todo)
      BY <2>1, <2>2 DEF Finished, Work
    <3>2. UpToDate(w)'
      BY <1>1, <1>6, <3>1, StillUpToDate
    <3> QED BY <1>1, <1>2, <1>5, <1>7, <2>1, <3>2, HistoryKept
  <2> QED BY <1>1, <1>2, <1>5, <1>7, <2>1, <2>2, HistoryKept
<1>8. CASE GoesOn(t, "reread", None, None) /\ row.schedule = Schedule(t)
  <2>1. PICK w : w = Work("reread", process[t].kind, process[t].now, process[t].todo, None, None)
    OBVIOUS
  <2>2. w.at = "reread" /\ w.now = process[t].now /\ w.todo = process[t].todo
    BY <2>1 DEF Work
  <2>3. state'[Current(t)].schedule = Schedule(t)
    BY <1>3, <1>4, <1>8
  <2>4. UpToDate(w)'
    BY <1>1, <1>6, <2>2, <2>3, StillUpToDate
  <2>5. process' = [process EXCEPT ![t] = w]
    BY <1>8, <2>1 DEF GoesOn
  <2> QED BY <1>1, <1>2, <1>5, <2>4, <2>5, HistoryKept
<1> QED BY <1>7, <1>8

\* The rows that are written tell the truth.
LEMMA WrittenTruth ==
  ASSUME TickInv, HistoryInv, NEW t \in Processes, process[t] # Idle, NEW row,
         LET old == state[Current(t)]
         IN  \/ row = ErrorRow(t)
             \/ /\ Valid(Schedule(t))
                /\ row.due = NextScheduledAt(Schedule(t), process[t].now)
                /\ row.lastSlot = IF old = NoRow THEN None ELSE old.lastSlot
                /\ row.lastRun = IF old = NoRow THEN None ELSE old.lastRun
             \/ /\ At(t, "advance") /\ old.schedule = Schedule(t) /\ old.due = process[t].due
                /\ row = Advanced(t, old)
  PROVE  /\ New(row.due, Current(t)) /\ Tells(row, Current(t))
         /\ row.lastSlot # None => row.lastSlot <= process[t].now
<1> DEFINE p == Current(t)
           old == state[p]
<1>1. /\ Busy(process[t], state) /\ UpToDate(process[t])
      /\ p \in Plans /\ Schedule(t) \in Schedules /\ process[t].now \in Nat
      /\ process[t].now <= clock /\ clock \in Nat
      /\ \A r \in Runs : Scheduled(r) => requestedAt[r] <= process[t].now
      /\ old # NoRow /\ old.lastSlot # None => old.lastSlot <= process[t].now
  BY WorkingFacts
<1>2. old # NoRow => New(old.due, p) /\ Tells(old, p)
  BY <1>1 DEF HistoryInv, Past, RowsTell
<1>3. \A r \in Runs : Scheduled(r) => requestedAt[r] \in Nat /\ SlotOf(r) \in Nat
  BY DEF HistoryInv, Past, RunsDated
<1>4. \A due \in Nat : due > process[t].now => New(due, p)
  BY <1>1, <1>3 DEF New
<1>5. New(None, p)
  BY DEF New
<1>6. CASE row = ErrorRow(t)
  <2>1. /\ row.due = IF old = NoRow \/ old.schedule # Schedule(t) THEN None ELSE old.due
        /\ row.lastSlot = IF old = NoRow THEN None ELSE old.lastSlot
        /\ row.lastRun = IF old = NoRow THEN None ELSE old.lastRun
    BY <1>6 DEF ErrorRow
  <2> HIDE DEF p, old
  <2>2. New(row.due, p)
    BY <1>2, <1>5, <2>1
  <2>3. Tells(row, p)
    BY <1>2, <2>1 DEF Tells
  <2> QED BY <1>1, <2>1, <2>2, <2>3 DEF p, old
<1>7. CASE /\ Valid(Schedule(t))
           /\ row.due = NextScheduledAt(Schedule(t), process[t].now)
           /\ row.lastSlot = IF old = NoRow THEN None ELSE old.lastSlot
           /\ row.lastRun = IF old = NoRow THEN None ELSE old.lastRun
  <2>1. row.due \in Nat /\ row.due > process[t].now
    BY <1>1, <1>7, SlotsFollow
  <2>2. New(row.due, p)
    BY <1>4, <2>1
  <2> HIDE DEF p, old
  <2>3. Tells(row, p)
    BY <1>1, <1>2, <1>7, <2>1 DEF Tells
  <2> QED BY <1>1, <1>7, <2>2, <2>3 DEF p, old
<1>8. CASE /\ At(t, "advance") /\ old.schedule = Schedule(t) /\ old.due = process[t].due
           /\ row = Advanced(t, old)
  <2>1. row.lastSlot = process[t].due /\ process[t].due \in Nat
        /\ process[t].due < row.due /\ process[t].now < row.due
        /\ StateRow(row)
    <3>1. row.lastSlot = process[t].due
      BY <1>8 DEF Advanced
    <3> QED BY <1>1, <1>8, <3>1, WrittenRows
  <2>2. row.lastRun = IF process[t].run = None THEN old.lastRun ELSE process[t].run
    BY <1>8 DEF Advanced
  <2>3. row.due \in Nat
    <3>1. old.due # None /\ old # NoRow /\ process[t].due <= process[t].now
      BY <1>1, <1>8, <2>1, SchedulerAssumption DEF Busy, At, Current
    <3>2. Valid(Schedule(t))
      BY <1>1, <1>8, <3>1 DEF TickInv, StateRow
    <3>3. row.due = NextFutureScheduledAt(Schedule(t), process[t].due, process[t].now)
      BY <1>8 DEF Advanced
    <3> QED BY <1>1, <2>1, <3>1, <3>2, <3>3, SlotsFollow
  <2>4. New(row.due, p)
    BY <1>4, <2>1, <2>3
  <2>5. process[t].due <= process[t].now /\ old # NoRow
    BY <1>1, <1>8 DEF Busy, At, Current
  <2>6. process[t].run # None =>
          /\ process[t].run \in Runs /\ Scheduled(process[t].run)
          /\ run[process[t].run].plan = p /\ SlotOf(process[t].run) = process[t].due
    BY <1>1, <1>8 DEF UpToDate, At, Current
  <2> HIDE DEF p, old
  <2>7. row.lastRun # None =>
          /\ row.lastRun \in Runs /\ Scheduled(row.lastRun) /\ run[row.lastRun].plan = p
          /\ SlotOf(row.lastRun) <= process[t].due
    <3>1. CASE process[t].run # None
      BY <2>1, <2>2, <2>6, <3>1
    <3>2. CASE process[t].run = None
      <4>1. old.due \in Nat /\ old.due # None
        BY <1>8, <2>1, SchedulerAssumption
      <4> QED BY <1>2, <1>3, <1>8, <2>1, <2>2, <2>5, <3>2, <4>1 DEF Tells
    <3> QED BY <3>1, <3>2
  <2>8. Tells(row, p)
    BY <1>1, <2>1, <2>3, <2>5, <2>7, SchedulerAssumption DEF Tells
  <2> QED BY <1>1, <2>1, <2>4, <2>5, <2>8 DEF p
<1> QED BY <1>6, <1>7, <1>8

\* The dispatch of a slot: nothing dispatched before lies at or after it.
LEMMA InsertingKeeps ==
  ASSUME OneProcess, SlotInv, TickInv, HistoryInv, NEW t \in Processes, process[t] # Idle,
         At(t, "dispatch"), NEW r \in Runs, run[r] = NoRun,
         InsertRun(r, Current(t), <<Current(t), process[t].due>>),
         SlotRuns(Current(t), process[t].due) = {},
         requestedAt' = [requestedAt EXCEPT ![r] = process[t].now],
         GoesOn(t, "advance", process[t].due, r), UNCHANGED <<plan, state, clock>>
  PROVE  HistoryInv'
<1>1. PICK p \in Plans : p = Current(t)
  BY WorkingFacts
<1>2. PICK slot \in Nat : slot = process[t].due
  BY WorkingFacts DEF Busy, At
<1>3. PICK now \in Nat : now = process[t].now
  BY WorkingFacts
<1>4. /\ slot <= now /\ now <= clock /\ clock \in Times /\ clock \in Nat
      /\ state[p] # NoRow /\ state[p].schedule = Schedule(t) /\ state[p].due = slot
      /\ \A q \in Runs : Scheduled(q) => requestedAt[q] <= now
      /\ \A q \in Plans : state[q] # NoRow /\ state[q].lastSlot # None => state[q].lastSlot <= now
  <2>1. Busy(process[t], state) /\ UpToDate(process[t])
    BY WorkingFacts
  <2>2. slot <= now /\ state[p] # NoRow
    BY <1>1, <1>2, <1>3, <2>1 DEF Busy, At, Current
  <2>3. state[p].schedule = Schedule(t) /\ state[p].due = slot
    BY <1>1, <1>2, <2>1 DEF UpToDate, At, Current, Schedule
  <2> QED BY <1>3, <2>2, <2>3, WorkingFacts
<1>5. <<p, slot>> # NoKey
  <2>1. slot \in Times
    BY <1>4, SchedulerAssumption DEF Times
  <2> QED BY <2>1, SchedulerAssumption, LedgerAssumption
<1>6. /\ run'[r] = [status |-> "PENDING", plan |-> p, key |-> <<p, slot>>]
      /\ \A q \in Runs : q # r => run'[q] = run[q]
      /\ requestedAt' = [q \in Runs |-> requestedAt'[q]]
      /\ requestedAt'[r] = now /\ \A q \in Runs : q # r => requestedAt'[q] = requestedAt[q]
  BY <1>1, <1>2, <1>3 DEF InsertRun, SlotInv, RunTable, HistoryInv
<1>7. /\ Scheduled(r)' /\ run'[r].plan = p /\ run'[r].key = <<p, slot>> /\ SlotOf(r)' = slot
      /\ ~Scheduled(r)
  <2>1. run'[r] # NoRun
    BY <1>6 DEF NoRun
  <2> QED BY <1>5, <1>6, <2>1 DEF Scheduled, SlotOf
<1>8. ASSUME NEW q \in Runs, q # r
      PROVE  /\ Scheduled(q)' <=> Scheduled(q)
             /\ run'[q].plan = run[q].plan /\ run'[q].key = run[q].key
             /\ SlotOf(q)' = SlotOf(q) /\ requestedAt'[q] = requestedAt[q]
  BY <1>6, <1>8 DEF Scheduled, SlotOf
<1>9. /\ \A q \in Runs : Scheduled(q) => /\ SlotOf(q) \in Nat /\ requestedAt[q] \in Nat
                                        /\ SlotOf(q) <= requestedAt[q]
      /\ \A q \in Runs : Scheduled(q) /\ run[q].plan = p => slot = SlotOf(q) \/ requestedAt[q] < slot
  <2>1. New(slot, p) /\ slot # None
    BY <1>4, SchedulerAssumption DEF HistoryInv, Past, RowsTell
  <2> QED BY <2>1 DEF HistoryInv, Past, RunsDated, New
<1>10. RunsDated'
  BY <1>4, <1>6, <1>7, <1>8 DEF HistoryInv, Past, RunsDated
<1>11. RowsTell'
  <2> SUFFICES ASSUME NEW q \in Plans, state[q] # NoRow
               PROVE  (New(state[q].due, q) /\ Tells(state[q], q))'
    BY DEF RowsTell
  <2>1. New(state[q].due, q) /\ Tells(state[q], q)
    BY DEF HistoryInv, Past, RowsTell
  <2>2. New(state[q].due, q)'
    BY <1>4, <1>7, <1>8, <2>1 DEF New
  <2>3. Tells(state[q], q)'
    <3>1. state[q].lastRun # None => state[q].lastRun # r
      BY <1>7, <2>1 DEF Tells
    <3> QED BY <1>6, <2>1, <3>1 DEF Tells, Scheduled, SlotOf
  <2> QED BY <2>2, <2>3
<1>12. CatchUpOnce'
  <2> SUFFICES ASSUME NEW a \in Runs, NEW b \in Runs, Scheduled(a)', Scheduled(b)',
                      run'[a].plan = run'[b].plan, SlotOf(a)' < SlotOf(b)'
               PROVE  requestedAt'[a] < SlotOf(b)'
    BY DEF CatchUpOnce
  <2>1. CASE a # r /\ b # r
    BY <1>8, <2>1 DEF HistoryInv, Past, CatchUpOnce
  <2>2. CASE a = r /\ b # r
    BY <1>7, <1>8, <1>9, <2>2
  <2>3. CASE a # r /\ b = r
    BY <1>7, <1>8, <1>9, <2>3
  <2>4. CASE a = r /\ b = r
    BY <1>7, <2>4
  <2> QED BY <2>1, <2>2, <2>3, <2>4
<1>13. Past'
  BY <1>10, <1>11, <1>12 DEF Past
<1>14. PICK w : w = Work("advance", process[t].kind, process[t].now, process[t].todo, slot, r)
  OBVIOUS
<1>15. w.at = "advance" /\ w.now = process[t].now /\ w.todo = process[t].todo /\ w.due = slot
       /\ w.run = r
  BY <1>14 DEF Work
<1>16. UpToDate(w)'
  <2>1. \A q \in Runs : Scheduled(q)' => requestedAt'[q] <= w.now
    BY <1>3, <1>4, <1>6, <1>7, <1>8, <1>15
  <2>2. \A q \in Plans : state'[q] # NoRow /\ state'[q].lastSlot # None => state'[q].lastSlot <= w.now
    BY <1>3, <1>4, <1>15
  <2>3. /\ state'[Current(t)].schedule = Schedule(t) /\ state'[Current(t)].due = w.due
        /\ w.run \in Runs /\ Scheduled(w.run)'
        /\ run'[w.run].plan = Current(t) /\ SlotOf(w.run)' = w.due
    BY <1>1, <1>4, <1>7, <1>15 DEF Scheduled, SlotOf
  <2>4. /\ Busy(process[t], state) /\ UpToDate(process[t])
        /\ clock' = clock /\ clock <= clock' /\ clock' \in Times
    BY <1>4, WorkingFacts
  <2> QED BY <1>4, <1>15, <2>1, <2>2, <2>3, <2>4, StillUpToDate
<1>17. process' = [process EXCEPT ![t] = w] /\ process = [u \in Processes |-> process[u]]
  BY <1>2, <1>14 DEF GoesOn, TickInv
<1> QED BY <1>4, <1>6, <1>13, <1>16, <1>17, HistoryKept

LEMMA HistoryInit == Init => HistoryInv
<1> SUFFICES ASSUME Init PROVE HistoryInv
  OBVIOUS
<1>1. \A r \in Runs : ~Scheduled(r)
  BY DEF Init, LedgerInit, Scheduled
<1>2. clock \in Times
  BY SchedulerAssumption DEF Init, Times
<1>3. Past
  BY <1>1 DEF Past, RunsDated, RowsTell, CatchUpOnce, Init
<1> QED BY <1>2, <1>3 DEF Init, HistoryInv

LEMMA HistoryStep ==
  ASSUME OneProcess, SlotInv, TickInv, HistoryInv, NEW t \in Processes, TickStep(t)
  PROVE  HistoryInv'
<1> DEFINE row == state[Current(t)]
<1>1. process[t] # Idle
  <2>1. Idle.at = "idle"
    BY DEF Idle
  <2> QED BY <2>1 DEF TickStep, ReadState, Initialize, ReadBack, DispatchScheduled, Advance,
                      WriteScheduleError, At
<1>2. Busy(process[t], state) /\ UpToDate(process[t]) /\ Current(t) \in Plans
  BY <1>1, WorkingFacts
<1>3. CASE ReadState(t) \/ ReadBack(t)
  <2>1. UNCHANGED <<run, plan, state, requestedAt, clock>>
    BY <1>3 DEF ReadState, ReadBack, planVars
  <2>2. \/ GoesOn(t, "initialize", None, None)
        \/ row.schedule = Schedule(t) /\ Examine(t, row)
    BY <1>2, <1>3 DEF ReadState, ReadBack, UpToDate, At, Current, Schedule
  <2>3. CASE row.schedule = Schedule(t) /\ GoesOn(t, "dispatch", row.due, None)
    BY <1>1, <2>1, <2>3, ReadingKeeps
  <2>4. CASE GoesOn(t, "initialize", None, None) \/ process' = [process EXCEPT ![t] = Finished(t)]
    BY <1>1, <2>1, <2>4, ReadingKeeps
  <2> QED BY <2>2, <2>3, <2>4 DEF Examine
<1>4. CASE Initialize(t)
  <2>1. PICK x : /\ state' = [state EXCEPT ![Current(t)] = x] /\ x.schedule = Schedule(t)
                 /\ \/ x = ErrorRow(t)
                    \/ /\ Valid(Schedule(t))
                       /\ x.due = NextScheduledAt(Schedule(t), process[t].now)
                       /\ x.lastSlot = IF row = NoRow THEN None ELSE row.lastSlot
                       /\ x.lastRun = IF row = NoRow THEN None ELSE row.lastRun
    <3>1. CASE ~Valid(Schedule(t))
      <4>1. ErrorRow(t).schedule = Schedule(t)
        BY DEF ErrorRow
      <4> QED BY <1>4, <3>1, <4>1 DEF Initialize
    <3>2. CASE Valid(Schedule(t))
      <4> DEFINE x == [schedule |-> Schedule(t),
                       due      |-> NextScheduledAt(Schedule(t), process[t].now),
                       lastSlot |-> IF row = NoRow THEN None ELSE row.lastSlot,
                       lastRun  |-> IF row = NoRow THEN None ELSE row.lastRun,
                       errorAt  |-> None]
      <4>1. state' = [state EXCEPT ![Current(t)] = x]
        BY <1>4, <3>2 DEF Initialize
      <4>2. /\ x.schedule = Schedule(t) /\ x.due = NextScheduledAt(Schedule(t), process[t].now)
            /\ x.lastSlot = IF row = NoRow THEN None ELSE row.lastSlot
            /\ x.lastRun = IF row = NoRow THEN None ELSE row.lastRun
        OBVIOUS
      <4> HIDE DEF x
      <4> QED BY <3>2, <4>1, <4>2
    <3> QED BY <3>1, <3>2
  <2>2. /\ New(x.due, Current(t)) /\ Tells(x, Current(t))
        /\ x.lastSlot # None => x.lastSlot <= process[t].now
    BY <1>1, <2>1, WrittenTruth
  <2>3. UNCHANGED <<run, plan, requestedAt, clock>> /\ GoesOn(t, "reread", None, None)
    BY <1>4 DEF Initialize
  <2> QED BY <1>1, <2>1, <2>2, <2>3, WritingKeeps
<1>5. CASE WriteScheduleError(t)
  <2>1. PICK x : x = ErrorRow(t)
    OBVIOUS
  <2>2. /\ New(x.due, Current(t)) /\ Tells(x, Current(t))
        /\ x.lastSlot # None => x.lastSlot <= process[t].now
    BY <1>1, <2>1, WrittenTruth
  <2>3. /\ UNCHANGED <<run, plan, requestedAt, clock>>
        /\ state' = [state EXCEPT ![Current(t)] = x]
        /\ process' = [process EXCEPT ![t] = Finished(t)]
    BY <1>5, <2>1 DEF WriteScheduleError
  <2> QED BY <1>1, <2>2, <2>3, WritingKeeps
<1>6. CASE Advance(t)
  <2>1. /\ UNCHANGED <<run, plan, requestedAt, clock>>
        /\ process' = [process EXCEPT ![t] = Finished(t)]
    BY <1>6 DEF Advance
  <2>2. CASE state' = state
    BY <1>1, <2>1, <2>2, ReadingKeeps
  <2>3. CASE /\ row.schedule = Schedule(t) /\ row.due = process[t].due
             /\ state' = [state EXCEPT ![Current(t)] = Advanced(t, row)]
    <3>1. PICK x : x = Advanced(t, row)
      OBVIOUS
    <3>2. /\ New(x.due, Current(t)) /\ Tells(x, Current(t))
          /\ x.lastSlot # None => x.lastSlot <= process[t].now
      BY <1>1, <1>6, <2>3, <3>1, WrittenTruth DEF Advance
    <3> QED BY <1>1, <2>1, <2>3, <3>1, <3>2, WritingKeeps
  <2> QED BY <1>6, <2>2, <2>3 DEF Advance
<1>7. CASE DispatchScheduled(t)
  <2>1. /\ UNCHANGED <<plan, state, clock>> /\ At(t, "dispatch")
        /\ row.schedule = Schedule(t) /\ row.due = process[t].due
    BY <1>2, <1>7 DEF DispatchScheduled, UpToDate, At, Current, Schedule
  <2>2. CASE GoesOn(t, "error", process[t].due, None) /\ UNCHANGED <<run, requestedAt>>
    BY <1>1, <2>1, <2>2, ReadingKeeps
  <2>3. CASE GoesOn(t, "advance", process[t].due, None) /\ UNCHANGED <<run, requestedAt>>
    BY <1>1, <2>1, <2>3, ReadingKeeps
  <2>4. CASE /\ \E r \in SlotRuns(Current(t), process[t].due) : GoesOn(t, "advance", process[t].due, r)
             /\ UNCHANGED <<run, requestedAt>>
    <3>1. PICK r \in Runs : /\ run[r] # NoRun /\ run[r].key = <<Current(t), process[t].due>>
                            /\ GoesOn(t, "advance", process[t].due, r)
      BY <2>4 DEF SlotRuns
    <3>2. process[t].due \in Times
      <4>1. process[t].due \in Nat /\ process[t].due <= process[t].now
        BY <1>2, <2>1 DEF Busy, At
      <4> QED BY <1>1, <4>1, WorkingFacts, SchedulerAssumption DEF Times
    <3>3. Scheduled(r)
      BY <1>2, <3>1, <3>2, SchedulerAssumption, LedgerAssumption DEF Scheduled
    <3>4. run[r].plan = Current(t) /\ SlotOf(r) = process[t].due
      BY <3>1, <3>3 DEF HistoryInv, Past, RunsDated, SlotOf
    <3> QED BY <1>1, <2>1, <2>4, <3>1, <3>3, <3>4, ReadingKeeps
  <2>5. CASE /\ SlotRuns(Current(t), process[t].due) = {}
             /\ run[NewRun] = NoRun
             /\ InsertRun(NewRun, Current(t), <<Current(t), process[t].due>>)
             /\ requestedAt' = [requestedAt EXCEPT ![NewRun] = process[t].now]
             /\ GoesOn(t, "advance", process[t].due, NewRun)
    <3>1. PICK r \in Runs : r = NewRun
      BY FreshRun
    <3> QED BY <1>1, <2>1, <2>5, <3>1, InsertingKeeps
  <2> QED BY <1>7, <2>2, <2>3, <2>4, <2>5 DEF DispatchScheduled
<1> QED BY <1>3, <1>4, <1>5, <1>6, <1>7 DEF TickStep

\* A process that begins has read the plans it will work on.
LEMMA BeginningKeeps ==
  ASSUME OneProcess, TickInv, HistoryInv, NEW t \in Processes, NEW kind, NEW todo,
         process' = [process EXCEPT ![t] = Work("read", kind, clock, todo, None, None)],
         UNCHANGED <<run, plan, state, requestedAt, clock>>,
         \A i \in 1 .. Len(todo) :
           plan[todo[i].id].active /\ plan[todo[i].id].schedule = todo[i].schedule
  PROVE  HistoryInv'
<1>1. clock \in Times /\ clock \in Nat /\ clock' = clock /\ clock <= clock'
  BY DEF HistoryInv, TickInv
<1>2. Past'
  BY <1>1, PastKept DEF HistoryInv, RunsKept, Scheduled
<1>3. PICK w : w = Work("read", kind, clock, todo, None, None)
  OBVIOUS
<1>4. w.at = "read" /\ w.now = clock /\ w.todo = todo
  BY <1>3 DEF Work
<1>5. /\ \A r \in Runs : Scheduled(r) => requestedAt[r] <= clock
      /\ \A p \in Plans : state[p] # NoRow /\ state[p].lastSlot # None => state[p].lastSlot <= clock
  BY DEF HistoryInv, Past, RunsDated, RowsTell, Tells
<1>6. UpToDate(w)'
  BY <1>1, <1>4, <1>5 DEF UpToDate, Scheduled
<1>7. requestedAt' = [r \in Runs |-> requestedAt'[r]] /\ process = [u \in Processes |-> process[u]]
  BY DEF HistoryInv, TickInv
<1> QED BY <1>1, <1>2, <1>3, <1>6, <1>7, HistoryKept

\* What other handlers do to runs, when the process is free.
LEMMA RequestsKeepRuns ==
  ASSUME SlotInv, HistoryInv, Request
  PROVE  RunsKept /\ UNCHANGED state /\ requestedAt' = [r \in Runs |-> requestedAt'[r]]
<1>1. requestedAt = [r \in Runs |-> requestedAt[r]] /\ run = [r \in Runs |-> run[r]]
  BY DEF HistoryInv, SlotInv, RunTable
<1>2. ASSUME Settles, UNCHANGED <<state, requestedAt>>
      PROVE  RunsKept /\ UNCHANGED state /\ requestedAt' = [r \in Runs |-> requestedAt'[r]]
  BY <1>1, <1>2 DEF Settles, RunsKept, Scheduled
<1>3. CASE \E p \in Plans, s \in Schedules, a \in BOOLEAN, b \in BOOLEAN : EditPlan(p, s, a, b)
  <2>1. UNCHANGED <<run, state, requestedAt>>
    BY <1>3 DEF EditPlan
  <2> QED BY <1>1, <1>2, <2>1 DEF Settles
<1>4. CASE \E r \in ManualRuns, p \in Plans : ManualRun(r, p)
  <2>1. PICK r \in Runs, p \in Plans : ManualRun(r, p)
    BY <1>4, SchedulerAssumption
  <2>2. /\ run[r] = NoRun /\ run'[r].key = NoKey /\ UNCHANGED state
        /\ \A q \in Runs : q # r => run'[q] = run[q] /\ requestedAt'[q] = requestedAt[q]
        /\ requestedAt' = [q \in Runs |-> requestedAt'[q]]
    BY <1>1, <2>1 DEF ManualRun, DispatchManual, InsertRun
  <2> QED BY <2>2 DEF RunsKept, Scheduled
<1>5. CASE \E r \in Runs : CancelRun(r) \/ EndRun(r)
  <2>1. PICK r \in Runs : CancelRun(r) \/ EndRun(r)
    BY <1>5
  <2>2. PICK s \in {"CANCELLED", "COMPLETED"} : run' = [run EXCEPT ![r].status = s]
    BY <2>1 DEF CancelRun, Cancel, EndRun
  <2>3. run[r].status \in InFlightStatus /\ s \notin InFlightStatus
    BY <2>1, <2>2 DEF CancelRun, Cancel, EndRun, InFlightStatus
  <2>4. UNCHANGED <<state, requestedAt>>
    BY <2>1 DEF CancelRun, EndRun, planVars
  <2> QED BY <1>2, <2>2, <2>3, <2>4, StatusSettles
<1> QED BY <1>3, <1>4, <1>5 DEF Request

LEMMA HistoryNext ==
  ASSUME OneProcess, SlotInv, TickInv, HistoryInv, [Next]_vars
  PROVE  HistoryInv'
<1>1. CASE UNCHANGED vars
  BY <1>1 DEF vars, planVars, HistoryInv, Past, RunsDated, RowsTell, New, Tells, CatchUpOnce,
              UpToDate, Scheduled, SlotOf
<1>2. ASSUME NEW t \in Processes, TickStep(t) PROVE HistoryInv'
  BY <1>2, HistoryStep
<1>3. ASSUME NEW t \in Processes, BeginTick(t) PROVE HistoryInv'
  <2>1. PICK todo \in Selected(clock) :
          process' = [process EXCEPT ![t] = Work("read", "tick", clock, todo, None, None)]
    BY <1>3 DEF BeginTick
  <2>2. \A i \in 1 .. Len(todo) :
          plan[todo[i].id].active /\ plan[todo[i].id].schedule = todo[i].schedule
    BY <2>1, SelectedEntries
  <2> QED BY <1>3, <2>1, <2>2, BeginningKeeps DEF BeginTick, planVars
<1>4. ASSUME NEW t \in Processes, NEW p \in Plans, Inspect(t, p) PROVE HistoryInv'
  <2>1. PICK todo : todo = <<[id |-> p, schedule |-> plan[p].schedule]>>
    OBVIOUS
  <2>2. process' = [process EXCEPT ![t] = Work("read", "inspection", clock, todo, None, None)]
    BY <1>4, <2>1 DEF Inspect
  <2>3. \A i \in 1 .. Len(todo) :
          plan[todo[i].id].active /\ plan[todo[i].id].schedule = todo[i].schedule
    BY <1>4, <2>1 DEF Inspect, Automatic
  <2> QED BY <1>4, <2>2, <2>3, BeginningKeeps DEF Inspect, planVars
<1>5. ASSUME NEW t \in Processes, Crash(t) PROVE HistoryInv'
  <2>1. UNCHANGED <<run, plan, state, requestedAt, clock>>
        /\ process' = [process EXCEPT ![t] = Idle]
    BY <1>5 DEF Crash, planVars
  <2>2. process = [u \in Processes |-> process[u]] /\ clock \in Times /\ clock <= clock'
        /\ requestedAt' = [r \in Runs |-> requestedAt'[r]] /\ clock' \in Times
    BY <2>1 DEF TickInv, HistoryInv
  <2>3. Past'
    BY <2>1, <2>2, PastKept DEF HistoryInv, RunsKept, Scheduled
  <2> QED BY <2>1, <2>2, <2>3, HistoryKept
<1>6. CASE Elsewhere
  <2>1. \A u \in Processes : process'[u] = Idle
    BY <1>6 DEF Elsewhere, OneProcess
  <2>2. clock' = clock /\ clock \in Times /\ clock <= clock'
    BY <1>6 DEF Elsewhere, HistoryInv, TickInv
  <2>3. Past' /\ requestedAt' = [r \in Runs |-> requestedAt'[r]]
    BY <1>6, <2>2, RequestsKeepRuns, PastKept DEF Elsewhere, HistoryInv
  <2> QED BY <2>1, <2>2, <2>3 DEF HistoryInv
<1>7. CASE TimePasses
  <2>1. UNCHANGED <<run, plan, state, requestedAt, process>>
    BY <1>7 DEF TimePasses, planVars
  <2>2. clock \in Nat /\ clock \in Times /\ clock' \in Times /\ clock <= clock'
    BY <1>7, SchedulerAssumption DEF TimePasses, HistoryInv, TickInv, Times
  <2>3. Past'
    BY <2>1, <2>2, PastKept DEF HistoryInv, RunsKept, Scheduled
  <2>4. ASSUME NEW u \in Processes, process[u] # Idle PROVE UpToDate(process[u])'
    <3>1. UpToDate(process[u]) /\ process[u].now \in Nat
      BY <2>4, WorkingFacts
    <3> QED BY <2>1, <2>2, <3>1 DEF UpToDate, Scheduled, SlotOf, Times
  <2> QED BY <2>1, <2>2, <2>3, <2>4 DEF HistoryInv
<1> QED BY <1>1, <1>2, <1>3, <1>4, <1>5, <1>6, <1>7 DEF Next

LEMMA HistoryHolds == ASSUME OneProcess PROVE Spec => [](SlotInv /\ TickInv /\ HistoryInv)
<1>1. SlotInv /\ TickInv /\ HistoryInv /\ [Next]_vars => (SlotInv /\ TickInv /\ HistoryInv)'
  BY SlotNext, TickNext, HistoryNext
<1> QED BY <1>1, SlotInit, TickInit, HistoryInit, PTL DEF Spec

\* With one process, however often it dies and whenever plans are edited, paused,
\* resumed or dispatched by hand: the slots missed before a run was requested are
\* never worked off.
THEOREM MissedSlotsRunOnce == ASSUME OneProcess PROVE Spec => []CatchUpOnce
<1>1. HistoryInv => CatchUpOnce
  BY DEF HistoryInv, Past
<1> QED BY <1>1, HistoryHolds, PTL

\* With one process, the row of every plan names a run of that plan and a slot
\* consumed after it, and what is due next lies after both.
THEOREM RowsTellHistory == ASSUME OneProcess PROVE Spec => []RowTellsHistory
<1>1. HistoryInv => RowTellsHistory
  BY DEF HistoryInv, Past, RowsTell, Tells, RowTellsHistory
<1> QED BY <1>1, HistoryHolds, PTL

\* With one process, a scheduled run is made only for a plan that is active, under
\* the schedule it has at that moment, although the tick read both long before.
THEOREM PausedPlansStay == ASSUME OneProcess PROVE Spec => PausedPlansRest
<1> DEFINE Step == \A r \in Runs : run[r] = NoRun /\ Scheduled(r)' =>
                     LET p == run'[r].plan
                     IN  plan[p].active /\ state[p].schedule = plan[p].schedule
<1>1. SlotInv /\ TickInv /\ HistoryInv /\ [Next]_vars => Step
  <2> SUFFICES ASSUME SlotInv, TickInv, HistoryInv, [Next]_vars, NEW r \in Runs, run[r] = NoRun,
                      Scheduled(r)'
               PROVE  /\ plan[run'[r].plan].active
                      /\ state[run'[r].plan].schedule = plan[run'[r].plan].schedule
    OBVIOUS
  <2>1. ~UNCHANGED run
    BY DEF Scheduled
  <2>2. ~Elsewhere
    <3>1. Request => ~Scheduled(r)'
      BY RequestsKeepRuns DEF RunsKept, Scheduled
    <3> QED BY <3>1 DEF Elsewhere
  <2>3. PICK t \in Processes : DispatchScheduled(t)
    BY <2>1, <2>2 DEF Next, vars, TickStep, BeginTick, Inspect, ReadState, Initialize, ReadBack,
                      Advance, WriteScheduleError, Crash, TimePasses
  <2>4. process[t] # Idle /\ At(t, "dispatch")
    BY <2>3 DEF DispatchScheduled, At, Idle
  <2>5. Busy(process[t], state) /\ UpToDate(process[t])
    BY <2>4, WorkingFacts
  <2>6. state[Current(t)].schedule = Schedule(t)
    BY <2>4, <2>5 DEF UpToDate, At, Current, Schedule
  <2>7. plan[Current(t)].active /\ plan[Current(t)].schedule = Schedule(t)
    <3>1. process[t].todo \in Seq(Entry) /\ process[t].todo # <<>>
      BY <2>5 DEF Busy
    <3>2. 1 \in 1 .. Len(process[t].todo) /\ Head(process[t].todo) = process[t].todo[1]
      BY <3>1, HeadTailProperties, LenProperties, EmptySeq
    <3> QED BY <2>5, <3>2 DEF UpToDate, Current, Schedule
  <2>8. run'[r].plan = Current(t)
    <3>1. InsertRun(NewRun, Current(t), <<Current(t), process[t].due>>)
      BY <2>1, <2>3 DEF DispatchScheduled
    <3>2. r = NewRun
      BY <3>1 DEF InsertRun, SlotInv, RunTable, Scheduled
    <3> QED BY <3>1, <3>2 DEF InsertRun, SlotInv, RunTable
  <2> QED BY <2>6, <2>7, <2>8
<1>2. SlotInv /\ TickInv /\ HistoryInv /\ [Next]_vars => [Step]_vars
  BY <1>1
<1>3. Spec => [][Step]_vars
  BY <1>2, HistoryHolds, PTL DEF Spec
<1> QED BY <1>3 DEF PausedPlansRest

-----------------------------------------------------------------------------
(* The detail queue. *)

\* What the functions of the state machine make of an item.
LEMMA ItemsTyped ==
  ASSUME Detail!EnrichmentAssumption, NEW x \in Detail!D!CnipaDetailEnrichmentItem
  PROVE  /\ Detail!D!reclaimExpiredCnipaDetailLease(x) \in Detail!D!CnipaDetailEnrichmentItem
         /\ Detail!D!releaseCnipaDetailAuthSecurityHold(x) \in Detail!D!CnipaDetailEnrichmentItem
         /\ \A w \in Workers: Detail!D!leaseCnipaDetailEnrichmentItem(x, w) \in Detail!D!CnipaDetailEnrichmentItem
         /\ \A outcome \in Detail!D!Outcome:
              Detail!D!applyCnipaDetailAttemptOutcome(x, outcome) \in Detail!D!CnipaDetailEnrichmentItem
<1>1. DetailAttempts \in Nat  BY DEF Detail!EnrichmentAssumption
<1>2. Detail!D!Counted(x.attempts) \in 0 .. DetailAttempts
  BY <1>1 DEF Detail!D!Counted, Detail!D!CnipaDetailEnrichmentItem
<1>3. Detail!D!reclaimExpiredCnipaDetailLease(x) \in Detail!D!CnipaDetailEnrichmentItem
  BY DEF Detail!D!CnipaDetailEnrichmentItem, Detail!D!Lifecycle, Detail!D!reclaimExpiredCnipaDetailLease
<1>4. Detail!D!releaseCnipaDetailAuthSecurityHold(x) \in Detail!D!CnipaDetailEnrichmentItem
  BY DEF Detail!D!CnipaDetailEnrichmentItem, Detail!D!releaseCnipaDetailAuthSecurityHold
<1>5. \A w \in Workers: Detail!D!leaseCnipaDetailEnrichmentItem(x, w) \in Detail!D!CnipaDetailEnrichmentItem
  BY DEF Detail!D!CnipaDetailEnrichmentItem, Detail!D!Lifecycle, Detail!D!leaseCnipaDetailEnrichmentItem
<1>6. ASSUME NEW outcome \in Detail!D!Outcome
      PROVE  Detail!D!applyCnipaDetailAttemptOutcome(x, outcome) \in Detail!D!CnipaDetailEnrichmentItem
  <2> DEFINE ended == [x EXCEPT !.lease = NoWorker, !.expired = FALSE, !.next = "NULL"]
  <2>1. ended \in Detail!D!CnipaDetailEnrichmentItem /\ ended.attempts = x.attempts
    BY DEF Detail!D!CnipaDetailEnrichmentItem
  <2>2. CASE outcome = "AUTH_SECURITY_HOLD"
    BY <2>1, <2>2 DEF Detail!D!applyCnipaDetailAttemptOutcome, Detail!D!CnipaDetailEnrichmentItem,
                      Detail!D!Lifecycle
  <2>3. CASE outcome = "RETRYABLE"
    BY <1>2, <2>1, <2>3 DEF Detail!D!applyCnipaDetailAttemptOutcome, Detail!D!CnipaDetailEnrichmentItem,
                            Detail!D!Lifecycle
  <2>4. CASE outcome = "FETCHED"
    BY <1>2, <2>1, <2>4 DEF Detail!D!applyCnipaDetailAttemptOutcome, Detail!D!CnipaDetailEnrichmentItem,
                            Detail!D!Lifecycle
  <2>5. CASE outcome = "PERMANENTLY_UNAVAILABLE"
    BY <1>2, <2>1, <2>5 DEF Detail!D!applyCnipaDetailAttemptOutcome, Detail!D!CnipaDetailEnrichmentItem,
                            Detail!D!Lifecycle
  <2> QED BY <2>2, <2>3, <2>4, <2>5, <1>6 DEF Detail!D!Outcome
<1> QED BY <1>3, <1>4, <1>5, <1>6

\* What a row tells of its time: only a row that waits for a retry has one to come,
\* one that is held has none.
RowSound(x) ==
  /\ x.next = "LATER" => x.lifecycle = "RETRYABLE"
  /\ x.next = "DUE" => x.lifecycle \in {"RETRYABLE", "LEASED"}
  /\ x.hold => x.lifecycle = "PENDING" /\ x.next = "NULL"
  /\ x.expired => x.lifecycle = "LEASED"

RowsSound == \A i \in Items: RowSound(queue[i])

LEMMA FunctionsSound ==
  ASSUME Detail!EnrichmentAssumption, NEW x \in Detail!D!CnipaDetailEnrichmentItem, RowSound(x)
  PROVE  /\ RowSound(Detail!D!reclaimExpiredCnipaDetailLease(x))
         /\ RowSound(Detail!D!releaseCnipaDetailAuthSecurityHold(x))
         /\ \A w \in Workers: Detail!D!isCnipaDetailEligible(x)
              => RowSound(Detail!D!leaseCnipaDetailEnrichmentItem(x, w))
         /\ \A outcome \in Detail!D!Outcome:
              x.lifecycle = "LEASED" => RowSound(Detail!D!applyCnipaDetailAttemptOutcome(x, outcome))
<1>1. RowSound(Detail!D!reclaimExpiredCnipaDetailLease(x))
  BY DEF Detail!D!CnipaDetailEnrichmentItem, Detail!D!reclaimExpiredCnipaDetailLease, RowSound
<1>2. RowSound(Detail!D!releaseCnipaDetailAuthSecurityHold(x))
  BY DEF Detail!D!CnipaDetailEnrichmentItem, Detail!D!releaseCnipaDetailAuthSecurityHold, RowSound
<1>3. \A w \in Workers: Detail!D!isCnipaDetailEligible(x)
        => RowSound(Detail!D!leaseCnipaDetailEnrichmentItem(x, w))
  BY DEF Detail!D!CnipaDetailEnrichmentItem, Detail!D!leaseCnipaDetailEnrichmentItem, RowSound,
         Detail!D!isCnipaDetailEligible
<1>4. ASSUME NEW outcome \in Detail!D!Outcome, x.lifecycle = "LEASED"
      PROVE  RowSound(Detail!D!applyCnipaDetailAttemptOutcome(x, outcome))
  <2> DEFINE ended == [x EXCEPT !.lease = NoWorker, !.expired = FALSE, !.next = "NULL"]
  <2>1. /\ ended \in Detail!D!CnipaDetailEnrichmentItem /\ ~ended.hold /\ ~ended.expired
             /\ ended.next = "NULL"
    BY <1>4 DEF Detail!D!CnipaDetailEnrichmentItem, RowSound
  <2>2. CASE outcome = "AUTH_SECURITY_HOLD"
    BY <2>1, <2>2 DEF Detail!D!applyCnipaDetailAttemptOutcome, Detail!D!CnipaDetailEnrichmentItem, RowSound
  <2>3. CASE outcome = "RETRYABLE"
    BY <2>1, <2>3 DEF Detail!D!applyCnipaDetailAttemptOutcome, Detail!D!CnipaDetailEnrichmentItem, RowSound
  <2>4. CASE outcome = "FETCHED"
    BY <2>1, <2>4 DEF Detail!D!applyCnipaDetailAttemptOutcome, Detail!D!CnipaDetailEnrichmentItem, RowSound
  <2>5. CASE outcome = "PERMANENTLY_UNAVAILABLE"
    BY <2>1, <2>5 DEF Detail!D!applyCnipaDetailAttemptOutcome, Detail!D!CnipaDetailEnrichmentItem, RowSound
  <2> QED BY <2>2, <2>3, <2>4, <2>5, <1>4 DEF Detail!D!Outcome
<1> QED BY <1>1, <1>2, <1>3, <1>4

-----------------------------------------------------------------------------

\* R is an order of the set S.
Orders(R, S) ==
  /\ R \subseteq S \X S
  /\ \A i \in S: <<i, i>> \notin R
  /\ \A i, j, k \in S: <<i, j>> \in R /\ <<j, k>> \in R => <<i, k>> \in R

\* The order stays one when rows fall due after all others, and when one is taken.
LEMMA OrderGrows ==
  ASSUME NEW R, NEW S, NEW T, Orders(R, S), \A i \in T: i \notin S
  PROVE  Orders(R \cup S \X T, S \cup T)
<1> DEFINE Q == R \cup S \X T
<1>1. \A i, j: <<i, j>> \in R => i \in S /\ j \in S  BY DEF Orders
<1>2. \A i, j: <<i, j>> \in Q <=> <<i, j>> \in R \/ (i \in S /\ j \in T)  OBVIOUS
<1>3. Q \subseteq (S \cup T) \X (S \cup T)  BY DEF Orders
<1>4. \A i \in S \cup T: <<i, i>> \notin Q  BY <1>1, <1>2 DEF Orders
<1>5. ASSUME NEW i \in S \cup T, NEW j \in S \cup T, NEW k \in S \cup T, <<i, j>> \in Q, <<j, k>> \in Q
      PROVE  <<i, k>> \in Q
  <2>1. <<i, j>> \in R /\ j \in S  BY <1>1, <1>2, <1>5
  <2>2. CASE <<j, k>> \in R  BY <1>1, <1>2, <2>1, <2>2 DEF Orders
  <2>3. CASE k \in T  BY <1>1, <1>2, <2>1, <2>3
  <2> QED BY <1>2, <1>5, <2>2, <2>3
<1> HIDE DEF Q
<1> QED BY <1>3, <1>4, <1>5 DEF Orders, Q

LEMMA OrderShrinks ==
  ASSUME NEW R, NEW S, NEW x, Orders(R, S)
  PROVE  Orders({p \in R: x \notin {p[1], p[2]}}, S \ {x})
BY DEF Orders

\* Where each worker is, and what it knows there.
LEMMA WorkersTyped ==
  ASSUME Detail!EnrichmentAssumption, Detail!TypeOK, NEW w \in Workers
  PROVE  /\ worker[w] = Detail!Idle <=> worker[w].phase = "IDLE"
         /\ worker[w].phase \in {"IDLE", "CLAIM", "REQUEST", "INGEST", "RECORD"}
         /\ worker[w].phase = "CLAIM" => worker[w] \in [phase: {"CLAIM"}, left: 1 .. Cap, window: Detail!Window]
         /\ worker[w].phase \in {"REQUEST", "INGEST", "RECORD"} =>
              worker[w] \in [phase: {"REQUEST", "INGEST", "RECORD"}, left: 1 .. Cap, window: Detail!Window,
                             item: Items]
         /\ worker[w].phase # "IDLE" => worker[w].left \in 1 .. Cap /\ worker[w].window \in Detail!Window
         /\ worker[w].phase \in {"REQUEST", "INGEST", "RECORD"} => worker[w].item \in Items
<1>1. worker[w] \in Detail!WorkerState  BY DEF Detail!TypeOK
<1>2. CASE worker[w] = Detail!Idle  BY <1>2 DEF Detail!Idle
<1>3. CASE worker[w] \in [phase: {"CLAIM"}, left: 1 .. Cap, window: Detail!Window]  BY <1>3 DEF Detail!Idle
<1>4. CASE worker[w] \in [phase: {"REQUEST", "INGEST", "RECORD"}, left: 1 .. Cap, window: Detail!Window, item: Items]
  BY <1>4 DEF Detail!Idle
<1> QED BY <1>1, <1>2, <1>3, <1>4 DEF Detail!WorkerState

\* A run goes on with one request less, or ends.
LEMMA OutcomeTyped ==
  ASSUME Detail!EnrichmentAssumption, Detail!TypeOK, NEW w \in Workers, worker[w].phase # "IDLE",
         NEW outcome \in Detail!D!Outcome
  PROVE  Detail!AfterOutcome(w, outcome) = Detail!Idle
           \/ ( /\ Detail!AfterOutcome(w, outcome) \in [phase: {"CLAIM"}, left: 1 .. Cap, window: Detail!Window]
                /\ Detail!AfterOutcome(w, outcome).window = worker[w].window)
<1>1. worker[w].left \in 1 .. Cap /\ worker[w].window \in Detail!Window /\ Cap \in Nat
  BY WorkersTyped DEF Detail!EnrichmentAssumption
<1> QED BY <1>1 DEF Detail!AfterOutcome

LEMMA TypedOrder == Detail!TypeOK => Orders(earlier, Detail!Due)
BY DEF Detail!TypeOK, Orders

RowsInv == Detail!TypeOK /\ RowsSound

\* The rows once expired leases are taken back.
LEMMA ReclaimedRows ==
  ASSUME Detail!EnrichmentAssumption, RowsInv
  PROVE  /\ Detail!Reclaimed \in [Items -> Detail!D!CnipaDetailEnrichmentItem]
         /\ \A i \in Items: /\ Detail!Reclaimed[i] = Detail!D!reclaimExpiredCnipaDetailLease(queue[i])
                            /\ RowSound(Detail!Reclaimed[i])
                            /\ i \notin Detail!Expired => Detail!Reclaimed[i] = queue[i]
                            /\ i \in Detail!Expired => /\ Detail!Reclaimed[i].lifecycle = "RETRYABLE"
                                                /\ Detail!Reclaimed[i].next = "DUE"
         /\ {i \in Items: Detail!Reclaimed[i].lifecycle = "RETRYABLE"
              /\ Detail!Reclaimed[i].next = "DUE"} = Detail!Due \cup Detail!Expired
         /\ Orders(Detail!DueReclaimed, Detail!Due \cup Detail!Expired)
<1>1. \A i \in Items: queue[i] \in Detail!D!CnipaDetailEnrichmentItem /\ RowSound(queue[i])
  BY DEF RowsInv, Detail!TypeOK, RowsSound
<1>2. \A i \in Items: Detail!Reclaimed[i] = Detail!D!reclaimExpiredCnipaDetailLease(queue[i])
  BY DEF Detail!Reclaimed
<1>3. \A i \in Items: Detail!Reclaimed[i] \in Detail!D!CnipaDetailEnrichmentItem
        /\ RowSound(Detail!Reclaimed[i])
  BY <1>1, <1>2, ItemsTyped, FunctionsSound
<1>4. \A i \in Items: i \notin Detail!Expired => Detail!Reclaimed[i] = queue[i]
  BY <1>2 DEF Detail!Expired, Detail!D!reclaimExpiredCnipaDetailLease
<1>5. \A i \in Items: i \in Detail!Expired => Detail!Reclaimed[i].lifecycle = "RETRYABLE"
        /\ Detail!Reclaimed[i].next = "DUE"
  BY <1>1, <1>2 DEF Detail!Expired, Detail!D!reclaimExpiredCnipaDetailLease,
                    Detail!D!CnipaDetailEnrichmentItem
<1>6. {i \in Items: Detail!Reclaimed[i].lifecycle = "RETRYABLE"
        /\ Detail!Reclaimed[i].next = "DUE"} = Detail!Due \cup Detail!Expired
  BY <1>4, <1>5 DEF Detail!Due, Detail!Expired
<1>7. \A i \in Detail!Expired: i \notin Detail!Due
  BY DEF Detail!Due, Detail!Expired
<1>8. Orders(Detail!DueReclaimed, Detail!Due \cup Detail!Expired)
  BY <1>7, OrderGrows, TypedOrder DEF Detail!DueReclaimed, RowsInv
<1>9. Detail!Reclaimed \in [Items -> Detail!D!CnipaDetailEnrichmentItem]
  BY <1>3 DEF Detail!Reclaimed
<1> QED BY <1>2, <1>3, <1>4, <1>5, <1>6, <1>8, <1>9

\* A step that leaves the queue alone.
LEMMA QueueStays ==
  ASSUME RowsInv, UNCHANGED <<queue, earlier>>, admitted' \subseteq Items, lane' \in Detail!Lane,
         window' \in Detail!Window,
         requests' \in [Detail!Window -> Nat], worker' \in [Workers -> Detail!WorkerState], stored' \subseteq Items,
         holds' \in 0 .. MaxHolds
  PROVE  RowsInv'
<1>1. Detail!Due' = Detail!Due  BY DEF Detail!Due
<1> QED BY <1>1 DEF RowsInv, Detail!TypeOK, RowsSound

\* A step that moves one row which is not due and does not fall due.
LEMMA RowMoves ==
  ASSUME RowsInv, NEW i \in Items, NEW x \in Detail!D!CnipaDetailEnrichmentItem, RowSound(x),
         queue' = [queue EXCEPT ![i] = x], UNCHANGED <<earlier, admitted, lane, window, requests, stored>>,
         worker' \in [Workers -> Detail!WorkerState], holds' \in 0 .. MaxHolds,
         ~(queue[i].lifecycle = "RETRYABLE" /\ queue[i].next = "DUE"),
         ~(x.lifecycle = "RETRYABLE" /\ x.next = "DUE")
  PROVE  RowsInv'
<1>1. /\ queue' \in [Items -> Detail!D!CnipaDetailEnrichmentItem] /\ queue'[i] = x
      /\ \A j \in Items: j # i => queue'[j] = queue[j]
  BY DEF RowsInv, Detail!TypeOK
<1>2. Detail!Due' = Detail!Due  BY <1>1 DEF Detail!Due
<1>3. Detail!TypeOK'  BY <1>1, <1>2 DEF RowsInv, Detail!TypeOK
<1>4. RowsSound'  BY <1>1 DEF RowsInv, RowsSound
<1> QED BY <1>3, <1>4 DEF RowsInv

LEMMA RowsInit == Detail!EnrichmentAssumption /\ Detail!Init => RowsInv
<1> SUFFICES ASSUME Detail!EnrichmentAssumption, Detail!Init PROVE RowsInv
  OBVIOUS
<1>1. DetailAttempts \in Nat /\ MaxRequests \in Nat /\ MaxHolds \in Nat
  BY DEF Detail!EnrichmentAssumption
<1> DEFINE new == Detail!D!createCnipaDetailEnrichmentItem
<1>2. new \in Detail!D!CnipaDetailEnrichmentItem /\ RowSound(new) /\ new.lifecycle = "PENDING"
  BY <1>1 DEF Detail!D!createCnipaDetailEnrichmentItem, Detail!D!CnipaDetailEnrichmentItem,
              Detail!D!Lifecycle, RowSound
<1>3. queue = [i \in Items |-> new]  BY DEF Detail!Init
<1> HIDE DEF new
<1>4. queue \in [Items -> Detail!D!CnipaDetailEnrichmentItem] /\ RowsSound /\ Detail!Due = {}
  BY <1>2, <1>3 DEF RowsSound, Detail!Due
<1>5. lane \in Detail!Lane /\ window \in Detail!Window /\ requests \in [Detail!Window -> Nat]
  BY <1>1 DEF Detail!Init, Detail!Lane, Detail!Window
<1>6. worker \in [Workers -> Detail!WorkerState]
  BY DEF Detail!Init, Detail!WorkerState
<1> QED BY <1>1, <1>4, <1>5, <1>6 DEF Detail!Init, RowsInv, Detail!TypeOK

\* Steps that leave the rows alone.
LEMMA SurroundingRows ==
  ASSUME Detail!EnrichmentAssumption, RowsInv,
         \/ Detail!IntervalPasses \/ Detail!WindowBegins
         \/ \E i \in Items: Detail!admit(i)
         \/ \E w \in Workers: Detail!StartRun(w) \/ Detail!Dies(w) \/ Detail!Answered(w)
              \/ Detail!ingestCnipaDetailAsRawArtifact(w)
  PROVE  RowsInv'
<1>1. Detail!TypeOK  BY DEF RowsInv
<1>2. CASE Detail!IntervalPasses
  <2>1. lane' \in Detail!Lane  BY <1>1, <1>2 DEF Detail!IntervalPasses, Detail!TypeOK, Detail!Lane
  <2> QED BY <1>1, <1>2, <2>1, QueueStays DEF Detail!IntervalPasses, Detail!TypeOK
<1>3. CASE Detail!WindowBegins
  <2>1. window' \in Detail!Window /\ requests' \in [Detail!Window -> Nat]
    BY <1>1, <1>3 DEF Detail!WindowBegins, Detail!TypeOK
  <2> QED BY <1>1, <1>3, <2>1, QueueStays DEF Detail!WindowBegins, Detail!TypeOK
<1>4. CASE \E i \in Items: Detail!admit(i)
  BY <1>1, <1>4, QueueStays DEF Detail!admit, Detail!TypeOK
<1>5. ASSUME NEW w \in Workers,
             Detail!StartRun(w) \/ Detail!Dies(w) \/ Detail!Answered(w)
               \/ Detail!ingestCnipaDetailAsRawArtifact(w)
      PROVE  RowsInv'
  <2>1. worker' \in [Workers -> Detail!WorkerState]
    <3>1. worker \in [Workers -> Detail!WorkerState] /\ Cap \in 1 .. Cap /\ window \in Detail!Window
      BY <1>1 DEF Detail!TypeOK, Detail!EnrichmentAssumption
    <3>2. CASE Detail!StartRun(w)  BY <3>1, <3>2 DEF Detail!StartRun, Detail!WorkerState
    <3>3. CASE Detail!Dies(w)  BY <3>1, <3>3 DEF Detail!Dies, Detail!WorkerState
    <3>4. CASE Detail!Answered(w) \/ Detail!ingestCnipaDetailAsRawArtifact(w)
      <4>1. worker[w] \in [phase: {"REQUEST", "INGEST", "RECORD"}, left: 1 .. Cap, window: Detail!Window, item: Items]
        BY <1>1, <3>4, WorkersTyped DEF Detail!Answered, Detail!ingestCnipaDetailAsRawArtifact, Detail!At
      <4>2. PICK phase \in {"INGEST", "RECORD"}: worker' = [worker EXCEPT ![w].phase = phase]
        BY <3>4 DEF Detail!Answered, Detail!ingestCnipaDetailAsRawArtifact
      <4>3. [worker[w] EXCEPT !.phase = phase] \in Detail!WorkerState
        BY <4>1 DEF Detail!WorkerState
      <4> QED BY <3>1, <4>2, <4>3
    <3> QED BY <1>5, <3>2, <3>3, <3>4
  <2>2. stored' \subseteq Items
    <3>1. CASE Detail!ingestCnipaDetailAsRawArtifact(w)
      <4>1. worker[w].item \in Items
        BY <1>1, <3>1, WorkersTyped DEF Detail!ingestCnipaDetailAsRawArtifact, Detail!At
      <4> QED BY <1>1, <3>1, <4>1 DEF Detail!ingestCnipaDetailAsRawArtifact, Detail!TypeOK
    <3>2. CASE UNCHANGED stored  BY <1>1, <3>2 DEF Detail!TypeOK
    <3> QED BY <1>5, <3>1, <3>2 DEF Detail!StartRun, Detail!Dies, Detail!Answered
  <2>3. UNCHANGED <<queue, earlier, admitted, lane, window, requests, holds>>
    BY <1>5 DEF Detail!StartRun, Detail!Dies, Detail!Answered, Detail!ingestCnipaDetailAsRawArtifact
  <2> QED BY <1>1, <2>1, <2>2, <2>3, QueueStays DEF Detail!TypeOK
<1> QED BY <1>2, <1>3, <1>4, <1>5

\* Steps that move one row, which was not due.
LEMMA OneRow ==
  ASSUME Detail!EnrichmentAssumption, RowsInv, NEW i \in Items,
         Detail!releaseAuthSecurityHold(i) \/ Detail!LeaseExpires(i)
  PROVE  RowsInv'
<1>1. Detail!TypeOK /\ queue[i] \in Detail!D!CnipaDetailEnrichmentItem /\ RowSound(queue[i])
  BY DEF RowsInv, Detail!TypeOK, RowsSound
<1>2. CASE Detail!releaseAuthSecurityHold(i)
  <2> DEFINE x == Detail!D!releaseCnipaDetailAuthSecurityHold(queue[i])
  <2>1. x \in Detail!D!CnipaDetailEnrichmentItem /\ RowSound(x)  BY <1>1, ItemsTyped, FunctionsSound
  <2>2. x.next = "NULL" /\ queue[i].lifecycle = "PENDING"
    BY <1>1, <1>2 DEF Detail!releaseAuthSecurityHold, RowSound, Detail!D!releaseCnipaDetailAuthSecurityHold,
                     Detail!D!CnipaDetailEnrichmentItem
  <2>3. queue' = [queue EXCEPT ![i] = x]
          /\ UNCHANGED <<earlier, admitted, lane, window, requests, stored, worker>>
    BY <1>2 DEF Detail!releaseAuthSecurityHold
  <2>4. holds' \in 0 .. MaxHolds /\ worker' \in [Workers -> Detail!WorkerState]
    BY <1>1, <1>2 DEF Detail!releaseAuthSecurityHold, Detail!TypeOK, Detail!EnrichmentAssumption
  <2> QED BY <2>1, <2>2, <2>3, <2>4, RowMoves
<1>3. CASE Detail!LeaseExpires(i)
  <2> DEFINE x == [queue[i] EXCEPT !.expired = TRUE]
  <2>1. x \in Detail!D!CnipaDetailEnrichmentItem /\ x.lifecycle = "LEASED" /\ RowSound(x)
          /\ queue[i].lifecycle = "LEASED"
    BY <1>1, <1>3 DEF Detail!LeaseExpires, Detail!D!CnipaDetailEnrichmentItem, RowSound
  <2>2. queue' = [queue EXCEPT ![i] = x]
        /\ UNCHANGED <<earlier, admitted, lane, window, requests, stored, worker, holds>>
    BY <1>3 DEF Detail!LeaseExpires
  <2> QED BY <1>1, <2>1, <2>2, RowMoves DEF Detail!TypeOK
<1> QED BY <1>2, <1>3

\* A row falls due after those that are.
LEMMA FallsDueRows ==
  ASSUME Detail!EnrichmentAssumption, RowsInv, NEW i \in Items, Detail!RetryFallsDue(i)
  PROVE  RowsInv'
<1>1. Detail!TypeOK /\ queue[i] \in Detail!D!CnipaDetailEnrichmentItem /\ RowSound(queue[i])
  BY DEF RowsInv, Detail!TypeOK, RowsSound
<1> DEFINE x == [queue[i] EXCEPT !.next = "DUE"]
<1>2. /\ x \in Detail!D!CnipaDetailEnrichmentItem /\ x.lifecycle = "RETRYABLE" /\ x.next = "DUE"
           /\ RowSound(x)
      /\ i \notin Detail!Due
  BY <1>1 DEF Detail!RetryFallsDue, Detail!D!CnipaDetailEnrichmentItem, RowSound, Detail!Due
<1>3. queue' = [queue EXCEPT ![i] = x]  BY DEF Detail!RetryFallsDue
<1>4. /\ queue' \in [Items -> Detail!D!CnipaDetailEnrichmentItem] /\ queue'[i] = x
      /\ \A j \in Items: j # i => queue'[j] = queue[j]
  BY <1>1, <1>2, <1>3 DEF Detail!TypeOK
<1>5. Detail!Due' = Detail!Due \cup {i}  BY <1>2, <1>4 DEF Detail!Due
<1>6. Orders(earlier', Detail!Due')
  BY <1>1, <1>2, <1>5, TypedOrder, OrderGrows DEF Detail!RetryFallsDue
<1>7. Detail!TypeOK'  BY <1>1, <1>4, <1>6 DEF Detail!TypeOK, Detail!RetryFallsDue, Orders
<1>8. RowsSound'  BY <1>2, <1>4 DEF RowsInv, RowsSound
<1> QED BY <1>7, <1>8 DEF RowsInv

\* A refused claim takes expired leases back all the same.
LEMMA RefusedRows ==
  ASSUME Detail!EnrichmentAssumption, RowsInv, NEW w \in Workers, Detail!ClaimRefused(w)
  PROVE  RowsInv'
<1>1. Detail!TypeOK  BY DEF RowsInv
<1>2. queue' = Detail!Reclaimed /\ earlier' = Detail!DueReclaimed  BY DEF Detail!ClaimRefused
<1>3. Detail!Due' = Detail!Due \cup Detail!Expired  BY <1>2, ReclaimedRows DEF Detail!Due
<1>4. Orders(earlier', Detail!Due')  BY <1>2, <1>3, ReclaimedRows
<1>5. queue' \in [Items -> Detail!D!CnipaDetailEnrichmentItem] /\ RowsSound'
  BY <1>2, ReclaimedRows DEF RowsSound
<1>6. worker' \in [Workers -> Detail!WorkerState]
  BY <1>1 DEF Detail!ClaimRefused, Detail!TypeOK, Detail!WorkerState
<1>7. Detail!TypeOK'  BY <1>1, <1>4, <1>5, <1>6 DEF Detail!TypeOK, Detail!ClaimRefused, Orders
<1> QED BY <1>5, <1>7 DEF RowsInv

\* The row a claim takes, and what the claim makes of it.
LEMMA Claimed ==
  ASSUME Detail!EnrichmentAssumption, RowsInv, NEW w \in Workers, Detail!claimNextGoverned(w)
  PROVE  \E i \in Items:
           /\ Detail!D!isCnipaDetailEligible(Detail!Reclaimed[i])
           /\ queue' = [Detail!Reclaimed EXCEPT ![i] = Detail!D!leaseCnipaDetailEnrichmentItem(Detail!Reclaimed[i], w)]
           /\ queue'[i] = Detail!D!leaseCnipaDetailEnrichmentItem(Detail!Reclaimed[i], w)
           /\ \A j \in Items: j # i => queue'[j] = Detail!Reclaimed[j]
           /\ earlier' = {p \in Detail!DueReclaimed: i \notin {p[1], p[2]}}
           /\ worker' = [worker EXCEPT ![w] =
                [phase |-> "REQUEST", left |-> worker[w].left, window |-> worker[w].window, item |-> i]]
<1>1. PICK i \in Detail!NextCandidates:
        /\ queue' = [Detail!Reclaimed EXCEPT ![i] = Detail!D!leaseCnipaDetailEnrichmentItem(@, w)]
        /\ earlier' = {p \in Detail!DueReclaimed: i \notin {p[1], p[2]}}
        /\ worker' = [worker EXCEPT ![w] =
             [phase |-> "REQUEST", left |-> worker[w].left, window |-> worker[w].window, item |-> i]]
  BY DEF Detail!claimNextGoverned
<1>2. i \in Items /\ Detail!D!isCnipaDetailEligible(Detail!Reclaimed[i])
  BY <1>1 DEF Detail!NextCandidates, Detail!Eligible, RowsInv, Detail!TypeOK
<1>3. Detail!Reclaimed \in [Items -> Detail!D!CnipaDetailEnrichmentItem]  BY ReclaimedRows
<1>4. queue' = [Detail!Reclaimed EXCEPT ![i] = Detail!D!leaseCnipaDetailEnrichmentItem(Detail!Reclaimed[i], w)]
  BY <1>1
<1>5. /\ queue'[i] = Detail!D!leaseCnipaDetailEnrichmentItem(Detail!Reclaimed[i], w)
      /\ \A j \in Items: j # i => queue'[j] = Detail!Reclaimed[j]
  BY <1>2, <1>3, <1>4
<1> QED BY <1>1, <1>2, <1>4, <1>5

LEMMA ClaimedRows ==
  ASSUME Detail!EnrichmentAssumption, RowsInv, NEW w \in Workers, Detail!claimNextGoverned(w)
  PROVE  RowsInv'
<1>1. Detail!TypeOK  BY DEF RowsInv
<1>2. PICK i \in Items:
           /\ Detail!D!isCnipaDetailEligible(Detail!Reclaimed[i])
           /\ queue' = [Detail!Reclaimed EXCEPT ![i] = Detail!D!leaseCnipaDetailEnrichmentItem(Detail!Reclaimed[i], w)]
           /\ queue'[i] = Detail!D!leaseCnipaDetailEnrichmentItem(Detail!Reclaimed[i], w)
           /\ \A j \in Items: j # i => queue'[j] = Detail!Reclaimed[j]
           /\ earlier' = {p \in Detail!DueReclaimed: i \notin {p[1], p[2]}}
           /\ worker' = [worker EXCEPT ![w] =
                [phase |-> "REQUEST", left |-> worker[w].left, window |-> worker[w].window, item |-> i]]
  BY Claimed
<1>3. /\ Detail!Reclaimed \in [Items -> Detail!D!CnipaDetailEnrichmentItem]
      /\ \A j \in Items: RowSound(Detail!Reclaimed[j])
      /\ {j \in Items: Detail!Reclaimed[j].lifecycle = "RETRYABLE"
           /\ Detail!Reclaimed[j].next = "DUE"} = Detail!Due \cup Detail!Expired
      /\ Orders(Detail!DueReclaimed, Detail!Due \cup Detail!Expired)
  BY ReclaimedRows
<1> DEFINE x == Detail!D!leaseCnipaDetailEnrichmentItem(Detail!Reclaimed[i], w)
<1>4. x \in Detail!D!CnipaDetailEnrichmentItem /\ RowSound(x) /\ x.lifecycle = "LEASED"
  <2>1. Detail!Reclaimed[i] \in Detail!D!CnipaDetailEnrichmentItem /\ RowSound(Detail!Reclaimed[i])  BY <1>3
  <2>2. x \in Detail!D!CnipaDetailEnrichmentItem /\ RowSound(x)  BY <1>2, <2>1, ItemsTyped, FunctionsSound
  <2>3. x.lifecycle = "LEASED"
    BY <2>1 DEF Detail!D!leaseCnipaDetailEnrichmentItem, Detail!D!CnipaDetailEnrichmentItem
  <2> QED BY <2>2, <2>3
<1>5. queue' \in [Items -> Detail!D!CnipaDetailEnrichmentItem] /\ RowsSound'
  BY <1>2, <1>3, <1>4 DEF RowsSound
<1>6. Detail!Due' = (Detail!Due \cup Detail!Expired) \ {i}
  <2>1. \A j \in Items: j \in Detail!Due' <=> j # i /\ Detail!Reclaimed[j].lifecycle = "RETRYABLE"
          /\ Detail!Reclaimed[j].next = "DUE"
    BY <1>2, <1>4 DEF Detail!Due
  <2>2. \A j \in Items: j \in Detail!Due \cup Detail!Expired <=> Detail!Reclaimed[j].lifecycle = "RETRYABLE" /\ Detail!Reclaimed[j].next = "DUE"
    BY <1>3
  <2>3. Detail!Due' \subseteq Items
          /\ Detail!Due \cup Detail!Expired \subseteq Items  BY DEF Detail!Due, Detail!Expired
  <2> QED BY <2>1, <2>2, <2>3
<1>7. Orders(earlier', Detail!Due')  BY <1>2, <1>3, <1>6, OrderShrinks
<1>8. worker[w].phase = "CLAIM" /\ worker[w].left \in 1 .. Cap /\ worker[w].window \in Detail!Window
  BY <1>1, WorkersTyped DEF Detail!claimNextGoverned
<1>9. worker' \in [Workers -> Detail!WorkerState]
  BY <1>1, <1>2, <1>8 DEF Detail!TypeOK, Detail!WorkerState
<1>10. Detail!CountInWindow(worker[w].window) \in 0 .. MaxRequests /\ MaxRequests \in Nat
  BY <1>1 DEF Detail!CountInWindow, Detail!TypeOK, Detail!Lane, Detail!EnrichmentAssumption
<1>11. lane' \in Detail!Lane
  BY <1>8, <1>10 DEF Detail!claimNextGoverned, Detail!Lane
<1>12. requests' \in [Detail!Window -> Nat]
  BY <1>1, <1>8 DEF Detail!claimNextGoverned, Detail!TypeOK
<1>13. Detail!TypeOK'
  BY <1>1, <1>5, <1>7, <1>9, <1>11, <1>12 DEF Detail!TypeOK, Detail!claimNextGoverned, Orders
<1> QED BY <1>5, <1>13 DEF RowsInv

\* An outcome is written for a row that is still leased to the worker, or not at all.
LEMMA Persisted ==
  ASSUME Detail!EnrichmentAssumption, RowsInv, NEW w \in Workers, NEW outcome \in Detail!D!Outcome,
         worker[w].phase \in {"REQUEST", "RECORD"}, Detail!persistOutcome(w, outcome)
  PROVE  /\ worker' \in [Workers -> Detail!WorkerState]
         /\ \A v \in Workers: v # w => worker'[v] = worker[v]
         /\ worker'[w] = Detail!Idle \/ (worker'[w].phase = "CLAIM" /\ worker'[w].window = worker[w].window)
         /\ \/ UNCHANGED queue
            \/ /\ worker[w].item \in Items /\ queue[worker[w].item].lifecycle = "LEASED"
               /\ queue' = [queue EXCEPT ![worker[w].item] =
                    Detail!D!applyCnipaDetailAttemptOutcome(queue[worker[w].item], outcome)]
<1>1. Detail!TypeOK /\ worker \in [Workers -> Detail!WorkerState]  BY DEF RowsInv, Detail!TypeOK
<1>2. worker[w].item \in Items  BY <1>1, WorkersTyped
<1>3. CASE Detail!Owns(w)
  <2> DEFINE n == Detail!AfterOutcome(w, outcome)
  <2>1. n = Detail!Idle \/ (n \in [phase: {"CLAIM"}, left: 1 .. Cap, window: Detail!Window]
          /\ n.window = worker[w].window)
    BY <1>1, OutcomeTyped
  <2>2. n \in Detail!WorkerState  BY <2>1 DEF Detail!WorkerState
  <2>3. worker' = [worker EXCEPT ![w] = n]  BY <1>3 DEF Detail!persistOutcome
  <2>4. queue' = [queue EXCEPT ![worker[w].item] =
                    Detail!D!applyCnipaDetailAttemptOutcome(queue[worker[w].item], outcome)]
    BY <1>3 DEF Detail!persistOutcome
  <2> HIDE DEF n
  <2>5. /\ worker' \in [Workers -> Detail!WorkerState] /\ worker'[w] = n
        /\ \A v \in Workers: v # w => worker'[v] = worker[v]
    BY <1>1, <2>2, <2>3
  <2>6. n = Detail!Idle \/ (n.phase = "CLAIM" /\ n.window = worker[w].window)  BY <2>1
  <2> QED BY <1>2, <1>3, <2>4, <2>5, <2>6 DEF Detail!Owns
<1>4. CASE ~Detail!Owns(w)
  <2>1. worker' = [worker EXCEPT ![w] = Detail!Idle] /\ UNCHANGED queue
    BY <1>4 DEF Detail!persistOutcome
  <2> QED BY <1>1, <2>1 DEF Detail!WorkerState
<1> QED BY <1>3, <1>4

LEMMA PersistedRows ==
  ASSUME Detail!EnrichmentAssumption, RowsInv, NEW w \in Workers, NEW outcome \in Detail!D!Outcome,
         worker[w].phase \in {"REQUEST", "RECORD"}, Detail!persistOutcome(w, outcome),
         UNCHANGED <<admitted, earlier, lane, window, requests, stored, holds>>
  PROVE  RowsInv'
<1>1. Detail!TypeOK  BY DEF RowsInv
<1>2. worker' \in [Workers -> Detail!WorkerState]  BY Persisted
<1>3. CASE UNCHANGED queue
  BY <1>1, <1>2, <1>3, QueueStays DEF Detail!TypeOK
<1>4. CASE /\ worker[w].item \in Items /\ queue[worker[w].item].lifecycle = "LEASED"
           /\ queue' = [queue EXCEPT ![worker[w].item] =
                Detail!D!applyCnipaDetailAttemptOutcome(queue[worker[w].item], outcome)]
  <2> DEFINE i == worker[w].item
             x == Detail!D!applyCnipaDetailAttemptOutcome(queue[i], outcome)
  <2>1. queue[i] \in Detail!D!CnipaDetailEnrichmentItem /\ RowSound(queue[i])
    BY <1>4 DEF RowsInv, Detail!TypeOK, RowsSound
  <2>2. x \in Detail!D!CnipaDetailEnrichmentItem /\ RowSound(x)
    BY <1>4, <2>1, ItemsTyped, FunctionsSound
  <2>3. x.next # "DUE"
    <3> DEFINE ended == [queue[i] EXCEPT !.lease = NoWorker, !.expired = FALSE, !.next = "NULL"]
    <3>1. ended \in Detail!D!CnipaDetailEnrichmentItem /\ ended.next = "NULL"
      BY <2>1 DEF Detail!D!CnipaDetailEnrichmentItem
    <3>2. CASE outcome = "AUTH_SECURITY_HOLD"
      BY <3>1, <3>2 DEF Detail!D!applyCnipaDetailAttemptOutcome, Detail!D!CnipaDetailEnrichmentItem
    <3>3. CASE outcome = "RETRYABLE"
      BY <3>1, <3>3 DEF Detail!D!applyCnipaDetailAttemptOutcome, Detail!D!CnipaDetailEnrichmentItem
    <3>4. CASE outcome = "FETCHED"
      BY <3>1, <3>4 DEF Detail!D!applyCnipaDetailAttemptOutcome, Detail!D!CnipaDetailEnrichmentItem
    <3>5. CASE outcome = "PERMANENTLY_UNAVAILABLE"
      BY <3>1, <3>5 DEF Detail!D!applyCnipaDetailAttemptOutcome, Detail!D!CnipaDetailEnrichmentItem
    <3> QED BY <3>2, <3>3, <3>4, <3>5 DEF Detail!D!Outcome
  <2>4. queue' = [queue EXCEPT ![i] = x] /\ i \in Items /\ queue[i].lifecycle = "LEASED"  BY <1>4
  <2>5. holds' \in 0 .. MaxHolds /\ UNCHANGED <<earlier, admitted, lane, window, requests, stored>>
    BY <1>1 DEF Detail!TypeOK
  <2> HIDE DEF x, i
  <2> QED BY <1>2, <2>2, <2>3, <2>4, <2>5, RowMoves
<1> QED BY <1>3, <1>4, Persisted

LEMMA RowsNext == ASSUME Detail!EnrichmentAssumption, RowsInv, [Detail!Next]_(Detail!vars) PROVE RowsInv'
<1>1. ASSUME NEW w \in Workers, NEW outcome \in Detail!D!Outcome, Detail!Refused(w, outcome) PROVE RowsInv'
  BY <1>1, PersistedRows DEF Detail!Refused, Detail!At
<1>2. ASSUME NEW w \in Workers, Detail!Fetched(w) PROVE RowsInv'
  <2>1. "FETCHED" \in Detail!D!Outcome  BY DEF Detail!D!Outcome
  <2> QED BY <1>2, <2>1, PersistedRows DEF Detail!Fetched, Detail!At
<1>3. ASSUME NEW w \in Workers, Detail!ClaimRefused(w) \/ Detail!claimNextGoverned(w) PROVE RowsInv'
  BY <1>3, RefusedRows, ClaimedRows
<1>4. ASSUME NEW w \in Workers,
             Detail!StartRun(w) \/ Detail!Dies(w) \/ Detail!Answered(w)
               \/ Detail!ingestCnipaDetailAsRawArtifact(w)
      PROVE  RowsInv'
  BY <1>4, SurroundingRows
<1>5. ASSUME NEW i \in Items,
             Detail!admit(i) \/ Detail!releaseAuthSecurityHold(i) \/ Detail!RetryFallsDue(i)
               \/ Detail!LeaseExpires(i)
      PROVE  RowsInv'
  BY <1>5, SurroundingRows, OneRow, FallsDueRows
<1>6. CASE Detail!IntervalPasses \/ Detail!WindowBegins
  BY <1>6, SurroundingRows
<1>7. CASE UNCHANGED Detail!vars
  BY <1>7 DEF Detail!vars, RowsInv, Detail!TypeOK, RowsSound, Detail!Due
<1> QED BY <1>1, <1>2, <1>3, <1>4, <1>5, <1>6, <1>7 DEF Detail!Next, Detail!WorkerStep

-----------------------------------------------------------------------------
(* A fetched row has its artifact. *)

\* Only the outcome FETCHED fetches, and it names the artifact.
LEMMA OutcomeFetches ==
  ASSUME NEW x \in Detail!D!CnipaDetailEnrichmentItem, NEW outcome \in Detail!D!Outcome,
         Detail!D!applyCnipaDetailAttemptOutcome(x, outcome).lifecycle = "FETCHED"
  PROVE  outcome = "FETCHED" /\ Detail!D!applyCnipaDetailAttemptOutcome(x, outcome).artifact
<1> DEFINE ended == [x EXCEPT !.lease = NoWorker, !.expired = FALSE, !.next = "NULL"]
<1>1. /\ ended \in [lifecycle: Detail!D!Lifecycle, hold: BOOLEAN, lease: Workers \cup {NoWorker}, expired: BOOLEAN,
                    attempts: 0 .. DetailAttempts, next: {"NULL", "LATER", "DUE"}, artifact: BOOLEAN]
  BY DEF Detail!D!CnipaDetailEnrichmentItem
<1>2. CASE outcome = "AUTH_SECURITY_HOLD"
  BY <1>1, <1>2 DEF Detail!D!applyCnipaDetailAttemptOutcome
<1>3. CASE outcome = "RETRYABLE"
  BY <1>1, <1>3 DEF Detail!D!applyCnipaDetailAttemptOutcome
<1>4. CASE outcome = "FETCHED"
  BY <1>1, <1>4 DEF Detail!D!applyCnipaDetailAttemptOutcome
<1>5. CASE outcome = "PERMANENTLY_UNAVAILABLE"
  BY <1>1, <1>5 DEF Detail!D!applyCnipaDetailAttemptOutcome
<1> QED BY <1>2, <1>3, <1>4, <1>5 DEF Detail!D!Outcome

\* A worker records what it has stored before.
FetchedInv ==
  /\ Detail!FetchedIsStored
  /\ \A w \in Workers: worker[w].phase = "RECORD" => worker[w].item \in stored

\* A step that records no new artifact in a row.
LEMMA NothingFetched ==
  ASSUME RowsInv, FetchedInv, stored \subseteq stored',
         \A i \in Items: queue'[i].lifecycle = "FETCHED" =>
           queue[i].lifecycle = "FETCHED" /\ queue'[i].artifact = queue[i].artifact,
         \A w \in Workers: worker'[w].phase = "RECORD" =>
           worker'[w] = worker[w] \/ worker'[w].item \in stored'
  PROVE  FetchedInv'
BY DEF FetchedInv, Detail!FetchedIsStored

LEMMA FetchedNext ==
  ASSUME Detail!EnrichmentAssumption, RowsInv, FetchedInv, [Detail!Next]_(Detail!vars)
  PROVE  FetchedInv'
<1>1. Detail!TypeOK /\ worker \in [Workers -> Detail!WorkerState]
        /\ queue \in [Items -> Detail!D!CnipaDetailEnrichmentItem]
  BY DEF RowsInv, Detail!TypeOK
<1>2. ASSUME NEW w \in Workers, NEW outcome \in Detail!D!Outcome, worker[w].phase \in {"REQUEST", "RECORD"},
             Detail!persistOutcome(w, outcome), outcome = "FETCHED"
               => worker[w].phase = "RECORD", UNCHANGED stored
      PROVE  FetchedInv'
  <2>1. \A v \in Workers: worker'[v].phase = "RECORD" => worker'[v] = worker[v]
    BY <1>2, Persisted DEF Detail!Idle
  <2>2. CASE UNCHANGED queue
    BY <1>2, <2>1, <2>2, NothingFetched
  <2>3. CASE /\ worker[w].item \in Items /\ queue[worker[w].item].lifecycle = "LEASED"
             /\ queue' = [queue EXCEPT ![worker[w].item] =
                  Detail!D!applyCnipaDetailAttemptOutcome(queue[worker[w].item], outcome)]
    <3> DEFINE i == worker[w].item
               x == Detail!D!applyCnipaDetailAttemptOutcome(queue[i], outcome)
    <3>1. queue'[i] = x /\ \A j \in Items: j # i => queue'[j] = queue[j]
      BY <1>1, <2>3
    <3>2. x.lifecycle = "FETCHED" => x.artifact /\ i \in stored
      BY <1>1, <1>2, <2>3, OutcomeFetches DEF FetchedInv
    <3> HIDE DEF x
    <3>3. Detail!FetchedIsStored'
      BY <1>2, <3>1, <3>2 DEF FetchedInv, Detail!FetchedIsStored
    <3> QED BY <1>2, <2>1, <3>3 DEF FetchedInv
  <2> QED BY <1>2, <2>2, <2>3, Persisted
<1>3. ASSUME NEW w \in Workers, Detail!ClaimRefused(w) PROVE FetchedInv'
  <2>1. \A i \in Items: queue'[i].lifecycle = "FETCHED" => queue'[i] = queue[i]
    BY <1>3, ReclaimedRows DEF Detail!ClaimRefused
  <2>2. \A v \in Workers: worker'[v].phase = "RECORD" => worker'[v] = worker[v]
    BY <1>1, <1>3 DEF Detail!ClaimRefused, Detail!Idle
  <2> QED BY <1>3, <2>1, <2>2, NothingFetched DEF Detail!ClaimRefused
<1>4. ASSUME NEW w \in Workers, Detail!claimNextGoverned(w) PROVE FetchedInv'
  <2>1. PICK i \in Items:
           /\ queue'[i] = Detail!D!leaseCnipaDetailEnrichmentItem(Detail!Reclaimed[i], w)
           /\ \A j \in Items: j # i => queue'[j] = Detail!Reclaimed[j]
           /\ worker' = [worker EXCEPT ![w] =
                [phase |-> "REQUEST", left |-> worker[w].left, window |-> worker[w].window, item |-> i]]
    BY <1>4, Claimed
  <2>2. queue'[i].lifecycle = "LEASED"
    BY <2>1, ReclaimedRows DEF Detail!D!leaseCnipaDetailEnrichmentItem, Detail!D!CnipaDetailEnrichmentItem
  <2>3. \A j \in Items: queue'[j].lifecycle = "FETCHED" => queue'[j] = queue[j]
    BY <2>1, <2>2, ReclaimedRows
  <2>4. \A v \in Workers: worker'[v].phase = "RECORD" => worker'[v] = worker[v]
    BY <1>1, <2>1
  <2>5. UNCHANGED stored  BY <1>4 DEF Detail!claimNextGoverned
  <2> QED BY <2>3, <2>4, <2>5, NothingFetched
<1>5. ASSUME NEW w \in Workers, Detail!StartRun(w) \/ Detail!Dies(w) \/ Detail!Answered(w) PROVE FetchedInv'
  <2>1. \A v \in Workers: worker'[v].phase = "RECORD" => worker'[v] = worker[v]
    <3>1. CASE Detail!StartRun(w) \/ Detail!Dies(w)  BY <1>1, <3>1
      DEF Detail!StartRun, Detail!Dies, Detail!Idle
    <3>2. CASE Detail!Answered(w)
      <4>1. worker[w] \in [phase: {"REQUEST", "INGEST", "RECORD"}, left: 1 .. Cap, window: Detail!Window, item: Items]
        BY <1>1, <3>2, WorkersTyped DEF Detail!Answered, Detail!At
      <4> QED BY <1>1, <3>2, <4>1 DEF Detail!Answered
    <3> QED BY <1>5, <3>1, <3>2
  <2>2. UNCHANGED <<queue, stored>>  BY <1>5 DEF Detail!StartRun, Detail!Dies, Detail!Answered
  <2> QED BY <2>1, <2>2, NothingFetched
<1>6. ASSUME NEW w \in Workers, Detail!ingestCnipaDetailAsRawArtifact(w) PROVE FetchedInv'
  <2>1. worker[w] \in [phase: {"REQUEST", "INGEST", "RECORD"}, left: 1 .. Cap, window: Detail!Window, item: Items]
    BY <1>1, <1>6, WorkersTyped DEF Detail!ingestCnipaDetailAsRawArtifact, Detail!At
  <2>2. worker'[w].item = worker[w].item /\ \A v \in Workers: v # w => worker'[v] = worker[v]
    BY <1>1, <1>6, <2>1 DEF Detail!ingestCnipaDetailAsRawArtifact
  <2>3. UNCHANGED queue /\ stored' = stored \cup {worker[w].item}
    BY <1>6 DEF Detail!ingestCnipaDetailAsRawArtifact
  <2> QED BY <2>2, <2>3, NothingFetched
<1>7. ASSUME NEW i \in Items,
             Detail!releaseAuthSecurityHold(i) \/ Detail!RetryFallsDue(i) \/ Detail!LeaseExpires(i)
      PROVE  FetchedInv'
  <2>1. \A j \in Items: queue'[j].lifecycle = queue[j].lifecycle /\ queue'[j].artifact = queue[j].artifact
    <3>1. queue[i] \in Detail!D!CnipaDetailEnrichmentItem  BY <1>1
    <3>2. CASE Detail!releaseAuthSecurityHold(i)
      BY <1>1, <3>1, <3>2 DEF Detail!releaseAuthSecurityHold, Detail!D!releaseCnipaDetailAuthSecurityHold,
                             Detail!D!CnipaDetailEnrichmentItem
    <3>3. CASE Detail!RetryFallsDue(i) \/ Detail!LeaseExpires(i)
      BY <1>1, <3>1, <3>3 DEF Detail!RetryFallsDue, Detail!LeaseExpires, Detail!D!CnipaDetailEnrichmentItem
    <3> QED BY <1>7, <3>2, <3>3
  <2>2. UNCHANGED <<worker, stored>>  BY <1>7 DEF Detail!releaseAuthSecurityHold, Detail!RetryFallsDue,
                                                  Detail!LeaseExpires
  <2> QED BY <2>1, <2>2, NothingFetched
<1>8. CASE UNCHANGED <<queue, worker, stored>>
  BY <1>8, NothingFetched
<1>9. ASSUME NEW w \in Workers, NEW outcome \in Detail!D!Outcome, Detail!Refused(w,
             outcome) PROVE FetchedInv'
  BY <1>2, <1>9 DEF Detail!Refused, Detail!At
<1>10. ASSUME NEW w \in Workers, Detail!Fetched(w) PROVE FetchedInv'
  <2>1. "FETCHED" \in Detail!D!Outcome  BY DEF Detail!D!Outcome
  <2> QED BY <1>2, <1>10, <2>1 DEF Detail!Fetched, Detail!At
<1> QED BY <1>3, <1>4, <1>5, <1>6, <1>7, <1>8, <1>9, <1>10
        DEF Detail!Next, Detail!WorkerStep, Detail!vars, Detail!admit, Detail!IntervalPasses,
            Detail!WindowBegins

-----------------------------------------------------------------------------
(* The budget of a window. *)

\* Runs use the current window, and the lane has counted its requests, or none of
\* it if it was used for another window last.
BudgetInv ==
  /\ Detail!BudgetKept
  /\ \A w \in Workers: worker[w].phase # "IDLE" => worker[w].window = window
  /\ requests[window] = Detail!CountInWindow(window)

LEMMA BudgetNext ==
  ASSUME Detail!EnrichmentAssumption, ~Overlap, RowsInv, BudgetInv, [Detail!Next]_(Detail!vars)
  PROVE  BudgetInv'
<1>1. Detail!TypeOK /\ worker \in [Workers -> Detail!WorkerState]
        /\ requests \in [Detail!Window -> Nat] /\ window \in Detail!Window
      /\ MaxRequests \in Nat
  BY DEF RowsInv, Detail!TypeOK, Detail!EnrichmentAssumption
<1>2. ASSUME UNCHANGED <<lane, window, requests>>,
             \A w \in Workers: worker'[w].phase # "IDLE" =>
               worker'[w].window = window \/ (worker[w].phase # "IDLE"
                 /\ worker'[w].window = worker[w].window)
      PROVE  BudgetInv'
  BY <1>2 DEF BudgetInv, Detail!BudgetKept, Detail!CountInWindow
<1>3. ASSUME NEW w \in Workers, NEW outcome \in Detail!D!Outcome, worker[w].phase \in {"REQUEST", "RECORD"},
             Detail!persistOutcome(w, outcome), UNCHANGED <<lane, window, requests>>
      PROVE  BudgetInv'
  <2>1. worker[w].phase # "IDLE"  BY <1>3
  <2> QED BY <1>2, <1>3, <2>1, Persisted DEF Detail!Idle
<1>4. ASSUME NEW w \in Workers, Detail!claimNextGoverned(w) PROVE BudgetInv'
  <2>1. PICK i \in Items: worker' = [worker EXCEPT ![w] =
                [phase |-> "REQUEST", left |-> worker[w].left, window |-> worker[w].window, item |-> i]]
    BY <1>4, Claimed
  <2>2. worker[w].window = window /\ UNCHANGED window
    BY <1>4 DEF Detail!claimNextGoverned, BudgetInv
  <2>3. \A v \in Workers: worker'[v].phase # "IDLE" => worker'[v].window = window
    BY <1>1, <2>1, <2>2 DEF BudgetInv
  <2>4. Detail!CountInWindow(window) < MaxRequests /\ Detail!CountInWindow(window) \in Nat
    BY <1>1, <1>4, <2>2 DEF Detail!claimNextGoverned, Detail!CountInWindow, Detail!TypeOK, Detail!Lane
  <2>5. requests'[window] = Detail!CountInWindow(window) + 1 /\ \A k \in Detail!Window: k # window
          => requests'[k] = requests[k]
    BY <1>1, <1>4, <2>2 DEF Detail!claimNextGoverned, BudgetInv
  <2>6. lane'.key = window /\ lane'.count = Detail!CountInWindow(window) + 1
    BY <1>4, <2>2 DEF Detail!claimNextGoverned
  <2>7. Detail!CountInWindow(window)' = Detail!CountInWindow(window) + 1
    BY <2>2, <2>6 DEF Detail!CountInWindow
  <2>8. Detail!BudgetKept'
    BY <1>1, <2>4, <2>5 DEF BudgetInv, Detail!BudgetKept
  <2> QED BY <2>2, <2>3, <2>5, <2>7, <2>8 DEF BudgetInv
<1>5. CASE Detail!WindowBegins
  <2>1. PICK k \in Detail!Window \ {window, lane.key}: window' = k /\ requests' = [requests EXCEPT ![k] = 0]
    BY <1>5 DEF Detail!WindowBegins
  <2>2. UNCHANGED <<lane, worker>> /\ \A w \in Workers: worker[w].phase = "IDLE"
    BY <1>5 DEF Detail!WindowBegins, Detail!Idle
  <2>3. Detail!BudgetKept'
    BY <1>1, <2>1 DEF BudgetInv, Detail!BudgetKept
  <2>4. requests'[k] = 0 /\ Detail!CountInWindow(k)' = 0
    BY <1>1, <2>1, <2>2 DEF Detail!CountInWindow
  <2>5. Detail!CountInWindow(window)' = 0
    BY <2>1, <2>2 DEF Detail!CountInWindow
  <2> QED BY <2>1, <2>2, <2>3, <2>4, <2>5 DEF BudgetInv
<1>6. ASSUME NEW w \in Workers,
             Detail!StartRun(w) \/ Detail!Dies(w) \/ Detail!ClaimRefused(w) PROVE BudgetInv'
  <2>1. \A v \in Workers: v # w => worker'[v] = worker[v]
    BY <1>1, <1>6 DEF Detail!StartRun, Detail!Dies, Detail!ClaimRefused
  <2>2. worker'[w].phase = "IDLE" \/ worker'[w].window = window
    BY <1>1, <1>6 DEF Detail!StartRun, Detail!Dies, Detail!ClaimRefused, Detail!Idle
  <2>3. UNCHANGED <<lane, window, requests>>  BY <1>6 DEF Detail!StartRun, Detail!Dies, Detail!ClaimRefused
  <2> QED BY <1>2, <2>1, <2>2, <2>3
<1>7. ASSUME NEW w \in Workers,
             Detail!Answered(w) \/ Detail!ingestCnipaDetailAsRawArtifact(w) PROVE BudgetInv'
  <2>1. worker[w] \in [phase: {"REQUEST", "INGEST", "RECORD"}, left: 1 .. Cap, window: Detail!Window, item: Items]
    BY <1>1, <1>7, WorkersTyped DEF Detail!Answered, Detail!ingestCnipaDetailAsRawArtifact, Detail!At
  <2>2. \A v \in Workers: worker'[v].phase # "IDLE" => worker[v].phase # "IDLE"
          /\ worker'[v].window = worker[v].window
    BY <1>1, <1>7, <2>1 DEF Detail!Answered, Detail!ingestCnipaDetailAsRawArtifact
  <2>3. UNCHANGED <<lane, window, requests>>  BY <1>7 DEF Detail!Answered,
                                                          Detail!ingestCnipaDetailAsRawArtifact
  <2> QED BY <1>2, <2>2, <2>3
<1>8. CASE Detail!IntervalPasses
  <2>1. lane'.key = lane.key /\ lane'.count = lane.count
    BY <1>1, <1>8 DEF Detail!IntervalPasses, Detail!TypeOK, Detail!Lane
  <2> QED BY <1>8, <2>1 DEF Detail!IntervalPasses, BudgetInv, Detail!BudgetKept, Detail!CountInWindow
<1>9. CASE UNCHANGED <<lane, window, requests, worker>>
  BY <1>2, <1>9 DEF BudgetInv
<1>10. ASSUME NEW w \in Workers, NEW outcome \in Detail!D!Outcome, Detail!Refused(w,
              outcome) PROVE BudgetInv'
  BY <1>3, <1>10 DEF Detail!Refused, Detail!At
<1>11. ASSUME NEW w \in Workers, Detail!Fetched(w) PROVE BudgetInv'
  <2>1. "FETCHED" \in Detail!D!Outcome  BY DEF Detail!D!Outcome
  <2> QED BY <1>3, <1>11, <2>1 DEF Detail!Fetched, Detail!At
<1> QED BY <1>4, <1>5, <1>6, <1>7, <1>8, <1>9, <1>10, <1>11
        DEF Detail!Next, Detail!WorkerStep, Detail!vars, Detail!admit, Detail!releaseAuthSecurityHold,
            Detail!RetryFallsDue, Detail!LeaseExpires

-----------------------------------------------------------------------------
(* The rows live the life of the state machine. *)

LEMMA RowsRefine ==
  ASSUME Detail!EnrichmentAssumption, RowsInv, [Detail!Next]_(Detail!vars)
  PROVE  [Detail!D!Next]_queue
<1>1. Detail!TypeOK /\ worker \in [Workers -> Detail!WorkerState]
        /\ queue \in [Items -> Detail!D!CnipaDetailEnrichmentItem]
  BY DEF RowsInv, Detail!TypeOK
<1>2. ASSUME NEW w \in Workers, NEW outcome \in Detail!D!Outcome, worker[w].phase \in {"REQUEST", "RECORD"},
             Detail!persistOutcome(w, outcome)
      PROVE  [Detail!D!Next]_queue
  <2>1. CASE /\ worker[w].item \in Items /\ queue[worker[w].item].lifecycle = "LEASED"
             /\ queue' = [queue EXCEPT ![worker[w].item] =
                  Detail!D!applyCnipaDetailAttemptOutcome(queue[worker[w].item], outcome)]
    <3> DEFINE i == worker[w].item
    <3>1. /\ queue'[i] = Detail!D!applyCnipaDetailAttemptOutcome(queue[i], outcome)
          /\ \A j \in Items: j # i => queue'[j] = queue[j]
      BY <1>1, <2>1
    <3>2. Detail!D!Attempted(queue[i], queue'[i])
      BY <2>1, <3>1 DEF Detail!D!Attempted
    <3> QED BY <3>1, <3>2 DEF Detail!D!Next, Detail!D!Moves
  <2> QED BY <1>2, <2>1, Persisted
<1>3. ASSUME NEW j \in Items, queue'[j] = Detail!Reclaimed[j]
      PROVE  queue'[j] = queue[j] \/ Detail!D!Moves(queue[j], queue'[j])
  <2>1. CASE j \in Detail!Expired
    BY <1>3, <2>1, ReclaimedRows DEF Detail!Expired, Detail!D!Reclaimed, Detail!D!Moves
  <2>2. CASE j \notin Detail!Expired
    BY <1>3, <2>2, ReclaimedRows
  <2> QED BY <2>1, <2>2
<1>4. ASSUME NEW w \in Workers, Detail!ClaimRefused(w) PROVE [Detail!D!Next]_queue
  BY <1>3, <1>4 DEF Detail!ClaimRefused, Detail!D!Next
<1>5. ASSUME NEW w \in Workers, Detail!claimNextGoverned(w) PROVE [Detail!D!Next]_queue
  <2>1. PICK i \in Items:
           /\ Detail!D!isCnipaDetailEligible(Detail!Reclaimed[i])
           /\ queue'[i] = Detail!D!leaseCnipaDetailEnrichmentItem(Detail!Reclaimed[i], w)
           /\ \A j \in Items: j # i => queue'[j] = Detail!Reclaimed[j]
    BY <1>5, Claimed
  <2>2. Detail!Reclaimed[i] = Detail!D!reclaimExpiredCnipaDetailLease(queue[i])  BY ReclaimedRows
  <2>3. Detail!D!Leased(queue[i], queue'[i])
    BY <2>1, <2>2 DEF Detail!D!Leased
  <2> QED BY <1>3, <2>1, <2>3 DEF Detail!D!Next, Detail!D!Moves
<1>6. ASSUME NEW i \in Items, Detail!releaseAuthSecurityHold(i) PROVE [Detail!D!Next]_queue
  <2>1. /\ queue'[i] = Detail!D!releaseCnipaDetailAuthSecurityHold(queue[i]) /\ queue[i].hold
        /\ \A j \in Items: j # i => queue'[j] = queue[j]
    BY <1>1, <1>6 DEF Detail!releaseAuthSecurityHold
  <2> QED BY <2>1 DEF Detail!D!Next, Detail!D!Moves, Detail!D!Released
<1>7. ASSUME NEW i \in Items, Detail!RetryFallsDue(i) PROVE [Detail!D!Next]_queue
  <2>1. /\ queue'[i] = [queue[i] EXCEPT !.next = "DUE"] /\ queue[i].next = "LATER"
        /\ \A j \in Items: j # i => queue'[j] = queue[j]
    BY <1>1, <1>7 DEF Detail!RetryFallsDue, Detail!D!CnipaDetailEnrichmentItem
  <2> QED BY <2>1 DEF Detail!D!Next, Detail!D!Moves, Detail!D!TimePassed
<1>8. ASSUME NEW i \in Items, Detail!LeaseExpires(i) PROVE [Detail!D!Next]_queue
  <2>1. /\ queue'[i] = [queue[i] EXCEPT !.expired = TRUE] /\ queue[i].lifecycle = "LEASED"
        /\ \A j \in Items: j # i => queue'[j] = queue[j]
    BY <1>1, <1>8 DEF Detail!LeaseExpires, Detail!D!CnipaDetailEnrichmentItem
  <2> QED BY <2>1 DEF Detail!D!Next, Detail!D!Moves, Detail!D!TimePassed
<1>9. ASSUME NEW w \in Workers, NEW outcome \in Detail!D!Outcome, Detail!Refused(w,
             outcome) PROVE [Detail!D!Next]_queue
  BY <1>2, <1>9 DEF Detail!Refused, Detail!At
<1>10. ASSUME NEW w \in Workers, Detail!Fetched(w) PROVE [Detail!D!Next]_queue
  <2>1. "FETCHED" \in Detail!D!Outcome  BY DEF Detail!D!Outcome
  <2> QED BY <1>2, <1>10, <2>1 DEF Detail!Fetched, Detail!At
<1> QED BY <1>4, <1>5, <1>6, <1>7, <1>8, <1>9, <1>10
        DEF Detail!Next, Detail!WorkerStep, Detail!vars, Detail!admit, Detail!StartRun, Detail!Dies,
            Detail!Answered, Detail!ingestCnipaDetailAsRawArtifact,
            Detail!IntervalPasses, Detail!WindowBegins

\* DetailEnrichment, under the hypothesis that no window begins before the runs of the
\* last one have ended (~Overlap): claimNextGoverned admits at most MaxRequests requests
\* in any one budget window, and a row that says FETCHED has its artifact; for any
\* number of rows, workers, attempts and holds.  Runs of two windows that alternate
\* reset the count (cnipa-detail-enrichment-queue.ts:636) and are not covered.
THEOREM BudgetsAreKept ==
  ASSUME Detail!EnrichmentAssumption, ~Overlap
  PROVE  Detail!Spec => []BudgetKept
<1>1. Detail!Init => RowsInv /\ FetchedInv /\ BudgetInv
  <2> SUFFICES ASSUME Detail!Init PROVE RowsInv /\ FetchedInv /\ BudgetInv
    OBVIOUS
  <2>1. RowsInv  BY RowsInit
  <2>2. FetchedInv
    BY DEF Detail!Init, FetchedInv, Detail!FetchedIsStored, Detail!Idle,
           Detail!D!createCnipaDetailEnrichmentItem
  <2>3. MaxRequests \in Nat  BY DEF Detail!EnrichmentAssumption
  <2>4. BudgetInv
    BY <2>3 DEF Detail!Init, BudgetInv, Detail!BudgetKept, Detail!Idle, Detail!CountInWindow, Detail!Window
  <2> QED BY <2>1, <2>2, <2>4
<1>2. RowsInv /\ FetchedInv /\ BudgetInv /\ [Detail!Next]_(Detail!vars) => (RowsInv /\ FetchedInv
        /\ BudgetInv)'
  BY RowsNext, FetchedNext, BudgetNext
<1>3. RowsInv /\ FetchedInv /\ BudgetInv => BudgetKept
  BY DEF RowsInv, FetchedInv, BudgetInv, BudgetKept
<1> QED BY <1>1, <1>2, <1>3, PTL DEF Detail!Spec

\* DetailEnrichment: every statement of the queue moves each row as a function of
\* the worker runtime's state machine does, or not at all; whether or not windows
\* overlap.
THEOREM RowsLiveTheirLife == ASSUME Detail!EnrichmentAssumption PROVE Detail!Spec
  => RowsFollowTheStateMachine
<1>1. Detail!Init => RowsInv /\ Detail!D!Init
  BY RowsInit DEF Detail!Init, Detail!D!Init
<1>2. RowsInv /\ [Detail!Next]_(Detail!vars) => RowsInv' /\ [Detail!D!Next]_queue
  BY RowsNext, RowsRefine
<1> QED BY <1>1, <1>2, PTL DEF Detail!Spec, RowsFollowTheStateMachine, Detail!RowsFollowTheStateMachine,
                               Detail!D!Spec
================================================================================

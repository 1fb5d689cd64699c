------------------------- MODULE CollectionScheduler -------------------------
(***************************************************************************)
(* The collection scheduler of                                             *)
(* packages/persistence/src/collection-scheduler.ts on top of the ledger.  *)
(*                                                                         *)
(* A tick (POST /api/worker/v1/claim runs one) is not a transaction: for   *)
(* each plan it selected it reads and perhaps initializes the plan's state *)
(* row, dispatches the due slot in one transaction and advances the row in *)
(* another.  Each of these is an action here, and the process may die      *)
(* between any two.  A process runs one handler at a time to its end, so   *)
(* with one process nothing but time and crashes falls between the steps   *)
(* of a tick; with several processes on one database everything may.       *)
(***************************************************************************)
EXTENDS ExecutionLedger, Integers, Sequences

CONSTANTS
  ManualRuns,   \* the identities of Runs that manual dispatches take
  Processes,    \* server processes that share the database
  Schedules,    \* schedules plans may be given
  TickLimit,    \* limit of plans per tick
  MaxTime,      \* bound on the clock
  MaxCrashes,   \* bound on the number of crashes
  None          \* SQL NULL

Times == 0 .. MaxTime

\* Plan ids are numbers, for the order of the query.  every is the interval (or
\* the distance of the cron expression's occurrences); 0 stands for a schedule
\* that is rejected when it is evaluated.
ASSUME SchedulerAssumption ==
  /\ Plans \subseteq Nat /\ IsFiniteSet(Plans)
  /\ \A s \in Schedules : s.mode \in {"MANUAL", "INTERVAL", "CRON"} /\ s.every \in Nat
  /\ \A p \in Plans, t \in Times : <<p, t>> \in Keys
  /\ ManualRuns \subseteq Runs /\ ManualRuns # Runs
  /\ TickLimit \in Nat \ {0} /\ MaxTime \in Nat /\ MaxCrashes \in Nat
  /\ None \notin Int /\ None \notin Runs

VARIABLES
  plan,         \* collection_plans, with whether source and connector allow dispatch
  state,        \* table collection_schedule_states
  requestedAt,  \* column requested_at of collection_runs
  process,      \* what each process is doing
  clock,
  crashes

planVars == <<plan, state, requestedAt>>
vars == <<run, job, plan, state, requestedAt, process, clock, crashes>>

\* Idle processes have nothing to do; the others work on the first of todo.
Idle == [at |-> "idle"]
Work(at, kind, now, todo, due, r) ==
  [at |-> at, kind |-> kind, now |-> now, todo |-> todo, due |-> due, run |-> r]

NoRow == [schedule |-> None]

Init ==
  /\ LedgerInit
  /\ plan \in [Plans -> [active : {TRUE}, schedule : Schedules, ready : BOOLEAN]]
  /\ state = [p \in Plans |-> NoRow]
  /\ requestedAt = [r \in Runs |-> None]
  /\ process = [t \in Processes |-> Idle]
  /\ clock = 0
  /\ crashes = 0

-----------------------------------------------------------------------------
(* Schedules. *)

Valid(s) == s.every > 0

\* The first multiple of the distance after t, as nextCronOccurrence finds it.
NextOccurrence(s, t) == (t \div s.every + 1) * s.every

\* nextScheduledAt
NextScheduledAt(s, t) == IF s.mode = "CRON" THEN NextOccurrence(s, t) ELSE t + s.every

\* A faulty nextFutureScheduledAt that works off every missed slot.
NextSlot(s, slot, now) ==
  IF s.mode = "CRON" THEN NextOccurrence(s, slot) ELSE slot + s.every

\* nextFutureScheduledAt: the slots missed by now are skipped.
NextFutureScheduledAt(s, slot, now) ==
  LET next == slot + s.every
  IN  CASE s.mode = "CRON" -> NextOccurrence(s, now)
        [] s.mode # "CRON" /\ next > now -> next
        [] s.mode # "CRON" /\ next <= now ->
             next + ((now - next) \div s.every + 1) * s.every

-----------------------------------------------------------------------------
(* The plans a tick examines. *)

\* A faulty sort key without the clause for errors.
DueFirst(p, now) == IF state[p].due = None THEN -1 ELSE state[p].due

\* The ORDER BY expression: a plan that failed and is due queues from the time of
\* its error, the others from the time they are due.
SortKey(p, now) ==
  IF state[p].errorAt # None /\ (state[p].due = None \/ state[p].due <= now)
  THEN state[p].errorAt
  ELSE IF state[p].due = None THEN -1 ELSE state[p].due

Precedes(p, q, now) ==
  IF state[p] = NoRow \/ state[q] = NoRow
  THEN state[p] = NoRow /\ (state[q] = NoRow => p < q)
  ELSE \/ SortKey(p, now) < SortKey(q, now)
       \/ SortKey(p, now) = SortKey(q, now) /\ p < q

\* A faulty query that takes paused plans along.
AnyAutomatic(p) == plan[p].schedule.mode # "MANUAL"

Automatic(p) == plan[p].active /\ plan[p].schedule.mode # "MANUAL"

\* The order of the query, which is total.
Ordered(now) ==
  LET S == {p \in Plans : Automatic(p)}
  IN  {q \in [1 .. Cardinality(S) -> S] :
         \A i, j \in 1 .. Cardinality(S) : i < j => Precedes(q[i], q[j], now)}

\* The documents of the first TickLimit plans, as they are read at the beginning.
Selected(now) ==
  {[i \in 1 .. (IF Len(q) <= TickLimit THEN Len(q) ELSE TickLimit) |->
      [id |-> q[i], schedule |-> plan[q[i]].schedule]] : q \in Ordered(now)}

-----------------------------------------------------------------------------
(* A tick, or an inspection. *)

BeginTick(t) ==
  /\ process[t] = Idle
  /\ \E todo \in Selected(clock) \ {<<>>} :
       process' = [process EXCEPT ![t] = Work("read", "tick", clock, todo, None, None)]
  /\ UNCHANGED <<run, job, planVars, clock, crashes>>

\* getState, or listStates for one of its plans.
Inspect(t, p) ==
  /\ process[t] = Idle
  /\ Automatic(p)
  /\ process' = [process EXCEPT ![t] =
       Work("read", "inspection", clock, <<[id |-> p, schedule |-> plan[p].schedule]>>, None, None)]
  /\ UNCHANGED <<run, job, planVars, clock, crashes>>

Current(t) == Head(process[t].todo).id
Schedule(t) == Head(process[t].todo).schedule

\* Process t is done with its first plan.
Finished(t) ==
  IF Len(process[t].todo) = 1 THEN Idle
  ELSE Work("read", process[t].kind, process[t].now, Tail(process[t].todo), None, None)

At(t, place) == process[t].at = place

\* Going on with slot due or run r.
GoesOn(t, place, due, r) ==
  process' = [process EXCEPT ![t] =
                Work(place, process[t].kind, process[t].now, process[t].todo, due, r)]

\* What the tick does with the row it has: dispatch if its slot is due.
Examine(t, row) ==
  IF process[t].kind = "tick" /\ row.due # None /\ row.due <= process[t].now
  THEN GoesOn(t, "dispatch", row.due, None)
  ELSE process' = [process EXCEPT ![t] = Finished(t)]

\* reconcileActivePlan, reading: a row of this schedule with a due time is kept.
ReadState(t) ==
  LET row == state[Current(t)]
  IN  /\ At(t, "read")
      /\ IF row # NoRow /\ row.schedule = Schedule(t) /\ row.due # None
         THEN Examine(t, row)
         ELSE GoesOn(t, "initialize", None, None)
      /\ UNCHANGED <<run, job, planVars, clock, crashes>>

\* writeScheduleError: the due time survives only under the same schedule.
ErrorRow(t) ==
  LET old == state[Current(t)]
      none == old = NoRow
  IN  [schedule |-> Schedule(t),
       due      |-> IF none \/ old.schedule # Schedule(t) THEN None ELSE old.due,
       lastSlot |-> IF none THEN None ELSE old.lastSlot,
       lastRun  |-> IF none THEN None ELSE old.lastRun,
       errorAt  |-> process[t].now]

\* reconcileActivePlan, writing: the first slot after the tick's now, or an error.
Initialize(t) ==
  LET p   == Current(t)
      old == state[p]
  IN  /\ At(t, "initialize")
      /\ state' = [state EXCEPT ![p] =
           IF ~Valid(Schedule(t)) THEN ErrorRow(t)
           ELSE [schedule |-> Schedule(t),
                 due      |-> NextScheduledAt(Schedule(t), process[t].now),
                 lastSlot |-> IF old = NoRow THEN None ELSE old.lastSlot,
                 lastRun  |-> IF old = NoRow THEN None ELSE old.lastRun,
                 errorAt  |-> None]]
      /\ GoesOn(t, "reread", None, None)
      /\ UNCHANGED <<run, job, plan, requestedAt, clock, crashes>>

ReadBack(t) ==
  /\ At(t, "reread")
  /\ Examine(t, state[Current(t)])
  /\ UNCHANGED <<run, job, planVars, clock, crashes>>

\* A faulty query that takes a run in flight for one that is running.
RunningRuns(p) == {r \in Runs : run[r].status = "RUNNING" /\ run[r].plan = p}

\* inFlightRunForPlan
InFlight(p) == {r \in Runs : /\ run[r].status \in {"PENDING", "RUNNING"}
                             /\ run[r].plan = p}

\* A faulty query that forgets runs that have ended.
LiveSlotRuns(p, slot) ==
  {r \in Runs : run[r].status \in {"PENDING", "RUNNING"} /\ run[r].key = <<p, slot>>}

\* existingScheduledRun under scheduledSlotIdempotencyKey
SlotRuns(p, slot) == {r \in Runs : run[r] # NoRun /\ run[r].key = <<p, slot>>}

\* runIdFactory
NewRun == CHOOSE r \in Runs \ ManualRuns :
            run[r] = NoRun \/ \A q \in Runs \ ManualRuns : run[q] # NoRun

\* dispatchScheduled.  The checks made before the transaction are made again in
\* it, so what counts is the state at one moment: a source or connector that does
\* not allow the dispatch is an error, the run of this slot is replayed, a run of
\* this plan in flight absorbs the slot, and otherwise the run is inserted.
DispatchScheduled(t) ==
  LET p    == Current(t)
      slot == process[t].due
  IN  /\ At(t, "dispatch")
      /\ \/ /\ ~plan[p].ready
            /\ GoesOn(t, "error", slot, None)
            /\ UNCHANGED <<run, job, requestedAt>>
         \/ /\ plan[p].ready
            /\ \E r \in SlotRuns(p, slot) : GoesOn(t, "advance", slot, r)
            /\ UNCHANGED <<run, job, requestedAt>>
         \/ /\ plan[p].ready /\ SlotRuns(p, slot) = {} /\ InFlight(p) # {}
            /\ GoesOn(t, "advance", slot, None)
            /\ UNCHANGED <<run, job, requestedAt>>
         \/ /\ plan[p].ready /\ SlotRuns(p, slot) = {} /\ InFlight(p) = {}
            /\ LET r == NewRun IN
                 /\ run[r] = NoRun
                 /\ InsertRun(r, p, <<p, slot>>)
                 /\ requestedAt' = [requestedAt EXCEPT ![r] = process[t].now]
                 /\ GoesOn(t, "advance", slot, r)
      /\ UNCHANGED <<plan, state, clock, crashes>>

\* A faulty row that leaves the slot due.
AdvancedNowhere(t, old) ==
  [schedule |-> old.schedule, due |-> old.due, lastSlot |-> process[t].due,
   lastRun |-> IF process[t].run = None THEN old.lastRun ELSE process[t].run,
   errorAt |-> None]

\* The row after slot has been consumed, by run r or by coalescing.
Advanced(t, old) ==
  [schedule |-> old.schedule,
   due      |-> NextFutureScheduledAt(Schedule(t), process[t].due, process[t].now),
   lastSlot |-> process[t].due,
   lastRun  |-> IF process[t].run = None THEN old.lastRun ELSE process[t].run,
   errorAt  |-> None]

\* A faulty update without the comparison.
AdvanceUnconditionally(t) ==
  /\ At(t, "advance")
  /\ state' = [state EXCEPT ![Current(t)] = Advanced(t, @)]
  /\ process' = [process EXCEPT ![t] = Finished(t)]
  /\ UNCHANGED <<run, job, plan, requestedAt, clock, crashes>>

\* advanceState and advanceCoalescedState: only a row that still has this schedule
\* and this slot is written.
Advance(t) ==
  LET p == Current(t)
  IN  /\ At(t, "advance")
      /\ state' = IF state[p].schedule = Schedule(t) /\ state[p].due = process[t].due
                  THEN [state EXCEPT ![p] = Advanced(t, @)]
                  ELSE state
      /\ process' = [process EXCEPT ![t] = Finished(t)]
      /\ UNCHANGED <<run, job, plan, requestedAt, clock, crashes>>

WriteScheduleError(t) ==
  /\ At(t, "error")
  /\ state' = [state EXCEPT ![Current(t)] = ErrorRow(t)]
  /\ process' = [process EXCEPT ![t] = Finished(t)]
  /\ UNCHANGED <<run, job, plan, requestedAt, clock, crashes>>

TickStep(t) ==
  ReadState(t) \/ Initialize(t) \/ ReadBack(t) \/ DispatchScheduled(t) \/ Advance(t)
    \/ WriteScheduleError(t)

Crash(t) ==
  /\ process[t] # Idle /\ crashes < MaxCrashes
  /\ process' = [process EXCEPT ![t] = Idle]
  /\ crashes' = crashes + 1
  /\ UNCHANGED <<run, job, planVars, clock>>

-----------------------------------------------------------------------------
(* What other handlers do meanwhile, in a process that is free. *)

\* A plan is edited, paused or resumed; its source or connector changes.
EditPlan(p, s, active, ready) ==
  /\ plan' = [plan EXCEPT ![p] = [active |-> active, schedule |-> s, ready |-> ready]]
  /\ UNCHANGED <<run, job, state, requestedAt>>

ManualRun(r, p) ==
  /\ plan[p].active /\ plan[p].ready
  /\ DispatchManual(r, p, NoKey)
  /\ requestedAt' = [requestedAt EXCEPT ![r] = clock]
  /\ UNCHANGED <<plan, state>>

CancelRun(r) == Cancel(r) /\ UNCHANGED planVars

\* A run in flight ends.  What happens to it before that, WorkerExecution tells;
\* nothing of it matters here.
EndRun(r) ==
  /\ run[r].status \in {"PENDING", "RUNNING"}
  /\ run' = [run EXCEPT ![r].status = "COMPLETED"]
  /\ job' = [job EXCEPT ![<<r, 1>>].status = "COMPLETED"]
  /\ UNCHANGED planVars

Request ==
  \/ \E p \in Plans, s \in Schedules, a \in BOOLEAN, b \in BOOLEAN : EditPlan(p, s, a, b)
  \/ \E r \in ManualRuns, p \in Plans : ManualRun(r, p)
  \/ \E r \in Runs : CancelRun(r) \/ EndRun(r)

Elsewhere ==
  /\ \E t \in Processes : process[t] = Idle
  /\ Request
  /\ UNCHANGED <<process, clock, crashes>>

TimePasses ==
  /\ clock < MaxTime
  /\ clock' = clock + 1
  /\ UNCHANGED <<run, job, planVars, process, crashes>>

Next ==
  \/ \E t \in Processes : BeginTick(t) \/ TickStep(t) \/ Crash(t)
  \/ \E t \in Processes, p \in Plans : Inspect(t, p)
  \/ Elsewhere
  \/ TimePasses

\* Time passes, workers keep polling and a process that runs goes on.
Fairness ==
  /\ WF_vars(TimePasses)
  /\ \A t \in Processes : SF_vars(BeginTick(t)) /\ WF_vars(TickStep(t))

Spec == Init /\ [][Next]_vars /\ Fairness
-----------------------------------------------------------------------------
Scheduled(r) == run[r] # NoRun /\ run[r].key # NoKey
SlotOf(r) == run[r].key[2]

\* Two runs never have the same slot of a plan, whichever processes find it due,
\* die after the dispatch or come back to it.
OneRunPerSlot ==
  \A q, r \in Runs : Scheduled(q) /\ Scheduled(r) /\ run[q].key = run[r].key => q = r

\* At most one scheduled run of a plan is in flight.
ScheduledRunsNeverOverlap ==
  \A q, r \in Runs :
    /\ Scheduled(q) /\ Scheduled(r) /\ run[q].plan = run[r].plan
    /\ {run[q].status, run[r].status} \subseteq {"PENDING", "RUNNING"}
    => q = r

\* "Missed recurring intervals produce at most one catch-up Run": of the slots that
\* had passed when a run was requested, none later than its own is ever
\* dispatched.  (One process: a second one may write a row from an older now.)
CatchUpOnce ==
  \A q, r \in Runs :
    Scheduled(q) /\ Scheduled(r) /\ run[q].plan = run[r].plan /\ SlotOf(q) < SlotOf(r)
      => requestedAt[q] < SlotOf(r)

\* The row of a plan tells what happened: the last run is the run of a slot
\* consumed by then, and what is due next lies after it.  (One process.)
RowTellsHistory ==
  \A p \in Plans : state[p] # NoRow =>
    /\ state[p].lastRun # None =>
         /\ run[state[p].lastRun].plan = p
         /\ SlotOf(state[p].lastRun) <= state[p].lastSlot
    /\ state[p].due # None /\ state[p].lastSlot # None => state[p].lastSlot < state[p].due

\* "Paused plans do not materialize work": a scheduled run is created only for a
\* plan that is active at that moment, for a slot of the schedule it has at that
\* moment.  (One process: a second one may pause the plan after the tick read it.)
PausedPlansRest ==
  [][\A r \in Runs : run[r] = NoRun /\ Scheduled(r)' =>
       LET p == run'[r].plan
       IN  plan[p].active /\ state[p].schedule = plan[p].schedule]_vars

\* Consuming a slot moves the row forward, also when the tick that does it was
\* overtaken by another one.
SlotsConsumedForward ==
  [][\A p \in Plans : state[p] # NoRow /\ state'[p].lastSlot # state[p].lastSlot
       => state[p].due = state'[p].lastSlot /\ state[p].due < state'[p].due]_vars

\* COLLECTION_SCHEDULER_V1.md, Inspection API: "GET /api/scheduler is read-only".
\* (getState and listStates reconcile, and so write the rows they show.)
InspectionReadOnly ==
  [][\A t \in Processes : 
       process[t] # Idle /\ process'[t] # process[t] /\ process[t].kind = "inspection"
         => state' = state]_vars

\* Plan p can be dispatched and its slot has come, or nobody has looked at it yet.
\* Its place in the queue must lie before MaxTime, where the clock stops: the real
\* one goes on and leaves every place behind.
Waiting(p) ==
  /\ Automatic(p) /\ plan[p].ready /\ Valid(plan[p].schedule)
  /\ \/ state[p] = NoRow
     \/ /\ state[p].schedule = plan[p].schedule /\ state[p].due # None
        /\ state[p].due <= clock /\ SortKey(p, clock) < MaxTime

\* No plan waits forever, though a tick examines only TickLimit of them and others
\* fail every time, and though processes die in the middle.
NoPlanStarves == \A p \in Plans : Waiting(p) ~> ~Waiting(p)
=============================================================================

--------------------------- MODULE ExecutionLedger ---------------------------
(***************************************************************************)
(* The execution ledger: CollectionRuns and their Jobs, as written by      *)
(* packages/persistence/src/execution-ledger.ts.                           *)
(*                                                                         *)
(* A run is one dispatch of a collection plan.  Its jobs are the attempts  *)
(* at it; the table's UNIQUE (run_id, attempt) makes <<run, attempt>> the  *)
(* identity of a job.  Every repository method is synchronous and writes   *)
(* inside one BEGIN IMMEDIATE transaction, so it is one action here; a     *)
(* call that throws changes nothing and is a stuttering step.              *)
(*                                                                         *)
(* An instant is kept as the time left until it: job.wait is the number of *)
(* ticks until available_at, 0 once the job is available.                  *)
(***************************************************************************)
EXTENDS Naturals, FiniteSets

CONSTANTS
  Runs,            \* identities the run id factory can hand out
  Plans,           \* collection plans
  Keys,            \* idempotency keys callers may send
  NoKey,           \* a dispatch without an idempotency key
  AttemptLimit,    \* bound on maxAttempts over all plans
  MaxAttempts      \* MaxAttempts[p] is plan p's policy.retry.maxAttempts

ASSUME LedgerAssumption ==
  /\ NoKey \notin Keys
  /\ AttemptLimit \in Nat
  /\ MaxAttempts \in [Plans -> 1 .. AttemptLimit]

VARIABLES
  run,             \* table collection_runs
  job              \* table jobs

RunStatus == {"PENDING", "RUNNING", "COMPLETED", "FAILED", "CANCELLED"}

JobStatus == {"PENDING", "LEASED", "RUNNING", "UPLOADING", "VERIFYING",
              "COMPLETED", "FAILED", "RETRY", "DEAD_LETTER", "CANCELLED"}

Jobs == Runs \X (1 .. AttemptLimit)

RunRecord == [status : RunStatus, plan : Plans, key : Keys \cup {NoKey}]
JobRecord == [status : JobStatus, wait : Nat]

NoRun == [status |-> "NONE"]   \* no row with this id
NoJob == [status |-> "NONE"]

LedgerTypeOK ==
  /\ run \in [Runs -> RunRecord \cup {NoRun}]
  /\ job \in [Jobs -> JobRecord \cup {NoJob}]

LedgerInit ==
  /\ run = [r \in Runs |-> NoRun]
  /\ job = [j \in Jobs |-> NoJob]

PlanOf(j) == run[j[1]].plan

\* The jobs stored for run r.
JobsOf(r) == {j \in Jobs : j[1] = r /\ job[j] # NoJob}

-----------------------------------------------------------------------------
\* The insertion both dispatchers perform in one transaction: the run, and its
\* first job, available at once.
InsertRun(r, p, k) ==
  /\ run' = [run EXCEPT ![r] = [status |-> "PENDING", plan |-> p, key |-> k]]
  /\ job' = [job EXCEPT ![<<r, 1>>] = [status |-> "PENDING", wait |-> 0]]

\* dispatchManual.  The plan, its source and its connector must pass
\* validateDispatch, which no later step depends on (runs and jobs carry
\* snapshots): a refused dispatch is a step not taken.  A key some run already
\* carries is answered from that run (a replay, or a conflict when it belonged
\* to another dispatch) without a change.
DispatchManual(r, p, k) ==
  /\ k # NoKey => \A q \in Runs : run[q] # NoRun => run[q].key # k
  /\ run[r] = NoRun
  /\ InsertRun(r, p, k)

\* A faulty cancel that looks at the run alone.
CancelWithoutJobs(r) ==
  /\ run[r].status = "PENDING"
  /\ run' = [run EXCEPT ![r].status = "CANCELLED"]
  /\ job' = [j \in Jobs |-> IF j \in JobsOf(r)
                            THEN [job[j] EXCEPT !.status = "CANCELLED"]
                            ELSE job[j]]

\* cancel.  The caller sends the updatedAt it read; one that is out of date is
\* refused, so what remains are the calls made with the current version.
Cancel(r) ==
  /\ run[r].status = "PENDING"
  /\ \A j \in JobsOf(r) : job[j].status = "PENDING"
  /\ run' = [run EXCEPT ![r].status = "CANCELLED"]
  /\ job' = [j \in Jobs |-> IF j \in JobsOf(r)
                            THEN [job[j] EXCEPT !.status = "CANCELLED"]
                            ELSE job[j]]
=============================================================================

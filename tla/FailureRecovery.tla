---------------------------- MODULE FailureRecovery ----------------------------
(***************************************************************************)
(* Recovery of failed conversion runs: conversion-failure-recovery.ts.  A  *)
(* failed run gets a case; a case has its run replaced, after a delay and  *)
(* within a budget, by the reconciler every worker claim starts, or at     *)
(* once by an operator.                                                    *)
(*                                                                         *)
(* A reconciliation is a series of statements, each committed on its own:  *)
(* the process may die between any two of them, in particular after a      *)
(* replacement was dispatched and before its case knows.  The control      *)
(* plane is one event loop, so nothing else of it comes in between.  A run *)
(* is known here by the case's first run and the idempotency key it was    *)
(* dispatched with.                                                        *)
(***************************************************************************)
EXTENDS Integers, FiniteSets

CONSTANTS
  Roots,         \* runs that may fail without being replacements
  MaxRetries,    \* budget of a case (3 in the code)
  MaxOperator,   \* bound on the operators' retries of a case
  Limit,         \* cases a reconciliation takes at each stage (25 in the code)
  MaxEdits,      \* bound on the changes to the profile
  MaxStops       \* bound on the crashes

RecoveryAssumption ==
  /\ IsFiniteSet(Roots)
  /\ MaxRetries \in Nat /\ MaxOperator \in Nat /\ Limit \in Nat \ {0} /\ MaxEdits \in Nat /\ MaxStops \in Nat

VARIABLES
  run,       \* Root -> Key -> how that run stands
  case,      \* Root -> its recovery case
  before,    \* <<q, r>>: both have a case and q's was updated before r's
  active,    \* whether the profile and the artifact still admit a dispatch
  handler,   \* the reconciliation or operator's request in progress
  edits, stops

vars == <<run, case, before, active, handler, edits, stops>>

RootKey == <<"root", 0>>
RetryKey == {"failure-retry"} \X (1 .. MaxRetries)
OperatorKey == {"operator-retry"} \X (1 .. MaxOperator)
Key == {RootKey} \cup RetryKey \cup OperatorKey

RunStatus == {"NONE", "LIVE", "COMPLETED", "FAILED", "CANCELLED"}
Failure == {"NONE", "TRANSIENT", "LEASE_EXPIRED", "DETERMINISTIC"}

\* `after` is the run a replacement was dispatched to replace.
Run == [status: RunStatus, failure: Failure, after: Key]

CaseState == {"NONE", "WAITING", "RUNNING", "RESOLVED", "DEAD_LETTERED"}
Reason ==
  {"NONE", "NON_RETRYABLE_FAILURE", "RETRY_BUDGET_EXHAUSTED", "RETRY_RUN_CANCELLED", "DISPATCH_FAILED"}
Case ==
  [state: CaseState, latest: Key, retryCount: 0 .. MaxRetries, operatorOverrideCount: 0 .. MaxOperator,
   due: BOOLEAN, reason: Reason]

NoCase ==
  [state |-> "NONE", latest |-> RootKey, retryCount |-> 0, operatorOverrideCount |-> 0,
   due |-> FALSE, reason |-> "NONE"]

NoRequest == [stage |-> "NONE"]
Reconciling == [stage: {"REFRESH", "DISCOVER", "RETRY"}, todo: SUBSET Roots]
Dispatched == [stage: {"RECORD"}, todo: SUBSET Roots, root: Roots, key: RetryKey \cup OperatorKey]

Init ==
  /\ run = [r \in Roots |-> [k \in Key |-> [status |-> "NONE", failure |-> "NONE", after |-> RootKey]]]
  /\ case = [r \in Roots |-> NoCase]
  /\ before = {}
  /\ active = TRUE
  /\ handler = NoRequest
  /\ edits = 0
  /\ stops = 0

Free == handler = NoRequest
LatestRun(r) == run[r][case[r].latest]

-----------------------------------------------------------------------------
(* Runs, operators and the clock. *)

\* A run ends; a replacement that is still pending may be cancelled too.
RunEnds(r, k) ==
  /\ Free
  /\ \/ k = RootKey /\ run[r][k].status = "NONE" /\ \E f \in Failure \ {"NONE"}:
          run' = [run EXCEPT ![r][k].status = "FAILED", ![r][k].failure = f]
     \/ run[r][k].status = "LIVE" /\ \E f \in Failure \ {"NONE"}:
          run' = [run EXCEPT ![r][k].status = "FAILED", ![r][k].failure = f]
     \/ run[r][k].status = "LIVE" /\ \E s \in {"COMPLETED", "CANCELLED"}:
          run' = [run EXCEPT ![r][k].status = s]
  /\ UNCHANGED <<case, before, active, handler, edits, stops>>

ProfileChanges ==
  /\ Free
  /\ edits < MaxEdits
  /\ edits' = edits + 1
  /\ active' = ~active
  /\ UNCHANGED <<run, case, before, handler, stops>>

RetryFallsDue(r) ==
  /\ case[r].state = "WAITING"
  /\ ~case[r].due
  /\ case' = [case EXCEPT ![r].due = TRUE]
  /\ UNCHANGED <<run, before, active, handler, edits, stops>>

Stop ==
  /\ ~Free
  /\ stops < MaxStops
  /\ stops' = stops + 1
  /\ handler' = NoRequest
  /\ UNCHANGED <<run, case, before, active, edits>>

-----------------------------------------------------------------------------
(* Cases. *)

RetriesLostLeases(f) == f \in {"TRANSIENT", "LEASE_EXPIRED"}

conversionFailureIsAutoRetryable(f) == f = "TRANSIENT"

RetriesPastBudget(c, f, due) ==
  IF conversionFailureIsAutoRetryable(f) /\ c.retryCount <= MaxRetries
  THEN [c EXCEPT !.state = "WAITING", !.due = due, !.reason = "NONE"]
  ELSE [c EXCEPT !.state = "DEAD_LETTERED", !.due = FALSE, !.reason = "NON_RETRYABLE_FAILURE"]

\* What a case becomes when its latest run has failed.
AfterFailure(c, f, due) ==
  IF conversionFailureIsAutoRetryable(f) /\ c.retryCount < MaxRetries
  THEN [c EXCEPT !.state = "WAITING", !.due = due, !.reason = "NONE"]
  ELSE [c EXCEPT !.state = "DEAD_LETTERED", !.due = FALSE,
                 !.reason = IF conversionFailureIsAutoRetryable(f)
                            THEN "RETRY_BUDGET_EXHAUSTED" ELSE "NON_RETRYABLE_FAILURE"]

\* The time of the next retry counts from the failure, so a case that waits
\* keeps it.
refreshedCase(c, latest) ==
  CASE latest.status = "COMPLETED" -> [c EXCEPT !.state = "RESOLVED", !.due = FALSE, !.reason = "NONE"]
    [] latest.status = "CANCELLED" ->
         [c EXCEPT !.state = "DEAD_LETTERED", !.due = FALSE, !.reason = "RETRY_RUN_CANCELLED"]
    [] latest.status = "FAILED" -> AfterFailure(c, latest.failure, c.state = "WAITING" /\ c.due)
    [] latest.status = "LIVE" -> [c EXCEPT !.state = "RUNNING", !.due = FALSE]

WithCase == {r \in Roots: case[r].state # "NONE"}

\* Every write of a case dates it anew.
Touch(r) == before' = {p \in before: r \notin {p[1], p[2]}} \cup (WithCase \ {r}) \X {r}

-----------------------------------------------------------------------------
(* The reconciliation. *)

Open(r) == case[r].state \in {"WAITING", "RUNNING"}

LatestFirst ==
  {r \in Roots: Open(r) /\ Cardinality({q \in Roots: Open(q) /\ <<r, q>> \in before}) < Limit}

\* The open cases that were not touched for longest.
openCases ==
  {r \in Roots: Open(r) /\ Cardinality({q \in Roots: Open(q) /\ <<q, r>> \in before}) < Limit}

\* Any part of S a stage may take; a case that was taken leaves S, so which
\* of them comes first does not matter.
Batches(S) == {B \in SUBSET S: Cardinality(B) = (IF Cardinality(S) < Limit THEN Cardinality(S) ELSE Limit)}

failedConversionRecoveryCandidateIds ==
  {r \in Roots: run[r][RootKey].status = "FAILED" /\ case[r].state = "NONE"}

dueCases == {r \in Roots: case[r].state = "WAITING" /\ case[r].due}

reconcileConversionFailures ==
  /\ Free
  /\ handler' = [stage |-> "REFRESH", todo |-> openCases]
  /\ UNCHANGED <<run, case, before, active, edits, stops>>

refreshCase(r) ==
  /\ handler.stage = "REFRESH"
  /\ r \in handler.todo
  /\ case' = [case EXCEPT ![r] = refreshedCase(case[r], LatestRun(r))]
  /\ Touch(r)
  /\ handler' = [handler EXCEPT !.todo = @ \ {r}]
  /\ UNCHANGED <<run, active, edits, stops>>

Discover ==
  /\ handler.stage = "REFRESH"
  /\ handler.todo = {}
  /\ \E B \in Batches(failedConversionRecoveryCandidateIds):
       handler' = [stage |-> "DISCOVER", todo |-> B]
  /\ UNCHANGED <<run, case, before, active, edits, stops>>

createCase(r) ==
  /\ handler.stage = "DISCOVER"
  /\ r \in handler.todo
  /\ case' = [case EXCEPT ![r] = AfterFailure(NoCase, run[r][RootKey].failure, FALSE)]
  /\ Touch(r)
  /\ handler' = [handler EXCEPT !.todo = @ \ {r}]
  /\ UNCHANGED <<run, active, edits, stops>>

RetryDue ==
  /\ handler.stage = "DISCOVER"
  /\ handler.todo = {}
  /\ \E B \in Batches(dueCases): handler' = [stage |-> "RETRY", todo |-> B]
  /\ UNCHANGED <<run, case, before, active, edits, stops>>

-----------------------------------------------------------------------------
(* Retries. *)

\* A key that was used before returns its run, whatever became of it.
DispatchRun(r, key) ==
  run' = IF run[r][key].status = "NONE"
         THEN [run EXCEPT ![r][key] = [status |-> "LIVE", failure |-> "NONE", after |-> case[r].latest]]
         ELSE run

NextKey(r, operator) ==
  IF operator THEN <<"operator-retry", case[r].operatorOverrideCount + 1>>
  ELSE <<"failure-retry", case[r].retryCount + 1>>

Ended(r) == LatestRun(r).status \in {"FAILED", "CANCELLED"}

dispatchRetry(r) ==
  /\ handler.stage = "RETRY"
  /\ r \in handler.todo
  /\ active
  /\ Ended(r)
  /\ DispatchRun(r, NextKey(r, FALSE))
  /\ handler' = [stage |-> "RECORD", todo |-> handler.todo \ {r}, root |-> r, key |-> NextKey(r, FALSE)]
  /\ UNCHANGED <<case, before, active, edits, stops>>

deadLetterDispatchFailure(r) ==
  /\ handler.stage = "RETRY"
  /\ r \in handler.todo
  /\ ~(active /\ Ended(r))
  /\ case' = [case EXCEPT ![r].state = "DEAD_LETTERED", ![r].due = FALSE, ![r].reason = "DISPATCH_FAILED"]
  /\ Touch(r)
  /\ handler' = [handler EXCEPT !.todo = @ \ {r}]
  /\ UNCHANGED <<run, active, edits, stops>>

retryConversionRecoveryCaseNow(r) ==
  /\ Free
  /\ case[r].state \in {"WAITING", "DEAD_LETTERED"}
  /\ case[r].operatorOverrideCount < MaxOperator
  /\ active
  /\ Ended(r)
  /\ DispatchRun(r, NextKey(r, TRUE))
  /\ handler' = [stage |-> "RECORD", todo |-> {}, root |-> r, key |-> NextKey(r, TRUE)]
  /\ UNCHANGED <<case, before, active, edits, stops>>

\* The case as dispatchRetry writes it.
Retried(r, key) ==
  [case[r] EXCEPT !.state = "RUNNING", !.due = FALSE, !.reason = "NONE", !.latest = key,
     !.retryCount = IF key \in RetryKey THEN key[2] ELSE @,
     !.operatorOverrideCount = IF key \in OperatorKey THEN key[2] ELSE @]

persistCase ==
  /\ handler.stage = "RECORD"
  /\ case' = [case EXCEPT ![handler.root] = Retried(handler.root, handler.key)]
  /\ Touch(handler.root)
  /\ handler' = IF handler.key \in RetryKey THEN [stage |-> "RETRY", todo |-> handler.todo] ELSE NoRequest
  /\ UNCHANGED <<run, active, edits, stops>>

Answer ==
  /\ handler.stage = "RETRY"
  /\ handler.todo = {}
  /\ handler' = NoRequest
  /\ UNCHANGED <<run, case, before, active, edits, stops>>

-----------------------------------------------------------------------------

HandlerStep ==
  \/ Discover \/ RetryDue \/ persistCase \/ Answer
  \/ \E r \in Roots: refreshCase(r) \/ createCase(r) \/ dispatchRetry(r) \/ deadLetterDispatchFailure(r)

Next ==
  \/ \E r \in Roots: \/ \E k \in Key: RunEnds(r, k)
                     \/ RetryFallsDue(r)
                     \/ retryConversionRecoveryCaseNow(r)
  \/ reconcileConversionFailures
  \/ HandlerStep
  \/ ProfileChanges
  \/ Stop

Spec == Init /\ [][Next]_vars

(* Workers go on claiming, a request that is served ends, delays pass.     *)
(* Nothing is assumed of the runs.                                         *)
Fairness ==
  /\ SF_vars(reconcileConversionFailures)
  /\ WF_vars(HandlerStep)
  /\ \A r \in Roots: WF_vars(RetryFallsDue(r))

FairSpec == Spec /\ Fairness

-----------------------------------------------------------------------------
(* Properties. *)

TypeOK ==
  /\ run \in [Roots -> [Key -> Run]]
  /\ case \in [Roots -> Case]
  /\ before \subseteq WithCase \X WithCase
  /\ \A q, r \in WithCase: <<q, r>> \in before <=> q # r /\ <<r, q>> \notin before
  /\ \A p, q, r \in WithCase: <<p, q>> \in before /\ <<q, r>> \in before => <<p, r>> \in before
  /\ active \in BOOLEAN
  /\ handler \in {NoRequest} \cup Reconciling \cup Dispatched
  /\ edits \in 0 .. MaxEdits
  /\ stops \in 0 .. MaxStops

\* A case tells the truth about its latest run, whatever the process died after:
\* it waits only for a run that failed and may be retried within the budget, is
\* resolved only by a completed run, and is given up only when its latest run has
\* ended without a result (conversion-failure-recovery.ts refreshedCase).
CasesTellTheirRun ==
  \A r \in Roots:
    LET c == case[r]
        l == LatestRun(r)
    IN  /\ c.state = "WAITING" => /\ l.status = "FAILED"
                                  /\ conversionFailureIsAutoRetryable(l.failure)
                                  /\ c.retryCount < MaxRetries
        /\ c.state = "RUNNING" => c.latest # RootKey /\ l.status # "NONE"
        /\ c.state = "RESOLVED" => l.status = "COMPLETED"
        /\ c.state = "DEAD_LETTERED" => l.status \in {"FAILED", "CANCELLED"}

\* docs/decisions/ADR-0011-conversion-runtime-authorization-and-leases.md:22
\* "lease-loss after STARTED fails the Run with LEASE_EXPIRED_DURING_CONVERSION
\* and no automatic retry": what an automatic retry replaces failed for a
\* passing reason.
LostRunsAreNotRetried ==
  \A r \in Roots: \A k \in RetryKey:
    run[r][k].status # "NONE" =>
      LET replaced == run[r][run[r][k].after]
      IN  replaced.status = "FAILED" /\ replaced.failure = "TRANSIENT"

NoOperator(r) == \A k \in OperatorKey: run[r][k].status = "NONE"

\* docs/architecture/M11_CONVERSION_FAILURE_RECOVERY.md:75 "The ConversionRun
\* ledger replays the existing run instead of creating a duplicate": a failed
\* conversion that no operator retries is never worked on by two replacements at a
\* time, whatever the process died after.
OneLiveReplacement ==
  \A r \in Roots:
    NoOperator(r) => \A k, l \in Key: run[r][k].status = "LIVE" /\ run[r][l].status = "LIVE" => k = l

\* Something the reconciler has to do.
Unattended(r) ==
  \/ run[r][RootKey].status = "FAILED" /\ case[r].state = "NONE"
  \/ case[r].state = "WAITING"
  \/ case[r].state = "RUNNING" /\ LatestRun(r).status # "LIVE"

\* No failed run is forgotten: it gets a case, a case that waits has its run
\* replaced or is given up, and the end of a replacement is noticed, although a
\* reconciliation takes a limited number of cases and may die at any point.
FailuresAreAttended == \A r \in Roots: Unattended(r) ~> ~Unattended(r)
=============================================================================

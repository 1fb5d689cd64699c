---------------------------- MODULE RunLifecycle -----------------------------
(***************************************************************************)
(* What the control plane promises the caller who dispatches a run,        *)
(* without leases, workers or clocks: a run is executed under attempt      *)
(* numbers 1, 2, ... in turn, each at most once and never beyond its       *)
(* limit; it can be cancelled only before its first execution; and it ends *)
(* once, for good.  WorkerExecution implements this specification.         *)
(***************************************************************************)
EXTENDS Naturals

CONSTANTS Runs, AttemptLimit

VARIABLES
  phase,     \* the status a caller sees, "NONE" before the dispatch
  limit,     \* the attempts the run may use
  started    \* the attempt numbers under which it has been executed

vars == <<phase, limit, started>>

Init ==
  /\ phase = [r \in Runs |-> "NONE"]
  /\ limit = [r \in Runs |-> 0]
  /\ started = [r \in Runs |-> {}]

Dispatch(r) ==
  /\ phase[r] = "NONE"
  /\ phase' = [phase EXCEPT ![r] = "PENDING"]
  /\ \E n \in 1 .. AttemptLimit : limit' = [limit EXCEPT ![r] = n]
  /\ UNCHANGED started

Cancel(r) ==
  /\ phase[r] = "PENDING" /\ started[r] = {}
  /\ phase' = [phase EXCEPT ![r] = "CANCELLED"]
  /\ UNCHANGED <<limit, started>>

\* The next attempt number, if the limit allows one.
Execute(r) ==
  /\ phase[r] = "PENDING"
  /\ \E n \in 1 .. limit[r] : /\ started[r] = 1 .. (n - 1)
                              /\ started' = [started EXCEPT ![r] = 1 .. n]
  /\ phase' = [phase EXCEPT ![r] = "RUNNING"]
  /\ UNCHANGED limit

Complete(r) ==
  /\ phase[r] = "RUNNING"
  /\ phase' = [phase EXCEPT ![r] = "COMPLETED"]
  /\ UNCHANGED <<limit, started>>

\* A failure with attempts left may put the run back in the queue.
Retry(r) ==
  /\ phase[r] = "RUNNING" /\ limit[r] \notin started[r]
  /\ phase' = [phase EXCEPT ![r] = "PENDING"]
  /\ UNCHANGED <<limit, started>>

\* Executions that fail for good, or are given up together.
Fail(S) ==
  /\ \A r \in S : phase[r] = "RUNNING"
  /\ phase' = [r \in Runs |-> IF r \in S THEN "FAILED" ELSE phase[r]]
  /\ UNCHANGED <<limit, started>>

Next ==
  \/ \E r \in Runs : Dispatch(r) \/ Cancel(r) \/ Execute(r) \/ Complete(r) \/ Retry(r)
  \/ \E S \in SUBSET Runs : Fail(S)

Spec == Init /\ [][Next]_vars
=============================================================================

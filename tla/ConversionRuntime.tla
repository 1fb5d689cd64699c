--------------------------- MODULE ConversionRuntime ---------------------------
(***************************************************************************)
(* Conversion runs and who may work on them: the run ledger                *)
(* (conversion-run-ledger.ts), the claims, leases and grants               *)
(* (conversion-runtime-persistence.ts) and the transitions workers and     *)
(* verifiers report (conversion-runtime-transitions.ts).                   *)
(*                                                                         *)
(* Every operation is one BEGIN IMMEDIATE transaction and one action here. *)
(* An attempt, its lease and its two grants are written together and never *)
(* apart, so they share a record.  Of a clock only what the code compares  *)
(* is kept: whether an expiry has passed.                                  *)
(***************************************************************************)
EXTENDS Integers, Sequences, FiniteSets

CONSTANTS
  Runs,           \* conversion runs that may be dispatched
  Workers,
  MaxAttempts,    \* Run -> bound on its attempts
  MaxGeneration   \* bound on a lease's generation; 1 means no renewal

RuntimeAssumption ==
  IsFiniteSet(Runs) /\ MaxAttempts \in [Runs -> Nat] /\ MaxGeneration \in Nat \ {0}

VARIABLES
  run,        \* Run -> its row and its events
  attempts,   \* Run -> its attempts in ordinal order, each with lease and grants
  created,    \* the runs in the order of created_at
  issued,     \* the runs of all leases in the order of issued_at
  reports     \* the accepted worker reports

runtimeVars == <<run, attempts, created, issued, reports>>

RunStatus == {"NONE", "PENDING", "RUNNING", "VERIFYING", "COMPLETED", "FAILED", "CANCELLED"}
AttemptStatus == {"CLAIMED", "STARTED", "OUTPUT_REPORTED", "FAILED", "ABANDONED", "LEASE_LOST"}
LeaseStatus == {"ACTIVE", "RELEASED", "EXPIRED"}
ReportKind == {"STARTED", "READ_PROGRESS", "OUTPUT_PROGRESS", "OUTPUT_READY", "FAILED"}

ALLOWED_TRANSITIONS ==
  {<<"NONE", "PENDING">>, <<"PENDING", "RUNNING">>, <<"PENDING", "CANCELLED">>,
   <<"RUNNING", "RUNNING">>, <<"RUNNING", "VERIFYING">>, <<"RUNNING", "FAILED">>,
   <<"VERIFYING", "COMPLETED">>, <<"VERIFYING", "FAILED">>}

Attempt ==
  [worker: Workers, status: AttemptStatus, lease: LeaseStatus, generation: 1 .. MaxGeneration,
   lapsed: BOOLEAN, grantsLapsed: BOOLEAN, read: BOOLEAN]
Report ==
  [run: Runs, ordinal: Nat \ {0}, worker: Workers, kind: ReportKind,
   generation: 1 .. MaxGeneration, inGrant: BOOLEAN]

RuntimeInit ==
  /\ run = [r \in Runs |-> [status |-> "NONE", events |-> <<>>]]
  /\ attempts = [r \in Runs |-> <<>>]
  /\ created = <<>>
  /\ issued = <<>>
  /\ reports = {}

Latest(r) == attempts[r][Len(attempts[r])]
Leased(r) == \E i \in DOMAIN attempts[r]: attempts[r][i].lease = "ACTIVE"

\* The row and its event are written together.
Transition(r, to) ==
  run' = [run EXCEPT ![r] = [status |-> to, events |-> Append(@.events, <<@.status, to>>)]]

\* End the latest attempt and close its lease.
Close(r, status, lease) ==
  attempts' = [attempts EXCEPT ![r][Len(attempts[r])].status = status,
                               ![r][Len(attempts[r])].lease = lease]

-----------------------------------------------------------------------------
(* The run ledger. *)

dispatch(r) ==
  /\ run[r].status = "NONE"
  /\ Transition(r, "PENDING")
  /\ created' = Append(created, r)
  /\ UNCHANGED <<attempts, issued, reports>>

cancel(r) ==
  /\ run[r].status = "PENDING"
  /\ Transition(r, "CANCELLED")
  /\ UNCHANGED <<attempts, created, issued, reports>>

-----------------------------------------------------------------------------
(* Claims and leases. *)

Claimable(r) == run[r].status = "PENDING" /\ ~Leased(r)

\* The run a claim gets is the first claimable one.
OldestClaimable(r) ==
  \E i \in DOMAIN created:
     /\ created[i] = r
     /\ Claimable(r)
     /\ \A j \in 1 .. i - 1: ~Claimable(created[j])

ClaimsLeasedRuns(w, r) ==
  /\ run[r].status = "PENDING"
  /\ Len(attempts[r]) < MaxAttempts[r]
  /\ attempts' = [attempts EXCEPT ![r] = Append(@,
       [worker |-> w, status |-> "CLAIMED", lease |-> "ACTIVE", generation |-> 1,
        lapsed |-> FALSE, grantsLapsed |-> FALSE, read |-> FALSE])]
  /\ issued' = Append(issued, r)
  /\ UNCHANGED <<run, created, reports>>

claim(w, r) ==
  /\ OldestClaimable(r)
  /\ Len(attempts[r]) < MaxAttempts[r]
  /\ attempts' = [attempts EXCEPT ![r] = Append(@,
       [worker |-> w, status |-> "CLAIMED", lease |-> "ACTIVE", generation |-> 1,
        lapsed |-> FALSE, grantsLapsed |-> FALSE, read |-> FALSE])]
  /\ issued' = Append(issued, r)
  /\ UNCHANGED <<run, created, reports>>

renewLease(r) ==
  /\ Leased(r)
  /\ ~Latest(r).lapsed
  /\ Latest(r).generation < MaxGeneration
  /\ attempts' = [attempts EXCEPT ![r][Len(attempts[r])].generation = @ + 1]
  /\ UNCHANGED <<run, created, issued, reports>>

ClosesAgain(r, status, lease) ==
  /\ attempts[r] # <<>>
  /\ run[r].status = "PENDING"
  /\ Close(r, status, lease)
  /\ UNCHANGED <<run, created, issued, reports>>

\* The body of releaseBeforeStart and expireBeforeStart; neither looks at the clock.
closeBeforeStart(r, status, lease) ==
  /\ Leased(r)
  /\ Latest(r).status = "CLAIMED"
  /\ Close(r, status, lease)
  /\ UNCHANGED <<run, created, issued, reports>>

releaseBeforeStart(r) == closeBeforeStart(r, "ABANDONED", "RELEASED")
expireBeforeStart(r) == closeBeforeStart(r, "LEASE_LOST", "EXPIRED")

\* A read grant is good for one read.
readInput(r, ordinal) ==
  /\ ~attempts[r][ordinal].grantsLapsed
  /\ ~attempts[r][ordinal].read
  /\ attempts' = [attempts EXCEPT ![r][ordinal].read = TRUE]
  /\ UNCHANGED <<run, created, issued, reports>>

(* The expiry of a lease that was never renewed is that of its grants. *)
LeaseLapses(r) ==
  /\ Leased(r)
  /\ ~Latest(r).lapsed
  /\ attempts' = [attempts EXCEPT
       ![r][Len(attempts[r])].lapsed = TRUE,
       ![r][Len(attempts[r])].grantsLapsed = @ \/ Latest(r).generation = 1]
  /\ UNCHANGED <<run, created, issued, reports>>

GrantsLapse(r) ==
  /\ Leased(r)
  /\ Latest(r).generation > 1
  /\ ~Latest(r).grantsLapsed
  /\ attempts' = [attempts EXCEPT ![r][Len(attempts[r])].grantsLapsed = TRUE]
  /\ UNCHANGED <<run, created, issued, reports>>

-----------------------------------------------------------------------------
(* Worker reports. *)

expectedCurrentStatus(kind) == IF kind = "STARTED" THEN "PENDING" ELSE "RUNNING"
ExpectedAttempt(kind) == IF kind = "STARTED" THEN "CLAIMED" ELSE "STARTED"

authorizeReport(m) ==
  LET a == attempts[m.run][m.ordinal]
  IN  /\ run[m.run].status = expectedCurrentStatus(m.kind)
      /\ a.worker = m.worker
      /\ a.generation = m.generation
      /\ a.lease = "ACTIVE"
      /\ ~a.lapsed
      /\ a.status = ExpectedAttempt(m.kind)

\* The same key with the same digest is answered from the stored report.
Replayed(m) == m \in reports

submitStarted(m) ==
  /\ m.kind = "STARTED"
  /\ Transition(m.run, "RUNNING")
  /\ attempts' = [attempts EXCEPT ![m.run][m.ordinal].status = "STARTED"]

submitProgress(m) ==
  /\ m.kind \in {"READ_PROGRESS", "OUTPUT_PROGRESS"}
  /\ Transition(m.run, "RUNNING")
  /\ UNCHANGED attempts

\* Output evidence has to be dated before the upload grant ends.
submitOutputReady(m) ==
  /\ m.kind = "OUTPUT_READY"
  /\ m.inGrant
  /\ Transition(m.run, "VERIFYING")
  /\ Close(m.run, "OUTPUT_REPORTED", "RELEASED")

submitFailed(m) ==
  /\ m.kind = "FAILED"
  /\ Transition(m.run, "FAILED")
  /\ Close(m.run, "FAILED", "RELEASED")

submitReport(m) ==
  /\ ~Replayed(m)
  /\ authorizeReport(m)
  /\ submitStarted(m) \/ submitProgress(m) \/ submitOutputReady(m) \/ submitFailed(m)
  /\ reports' = reports \cup {m}
  /\ UNCHANGED <<created, issued>>

-----------------------------------------------------------------------------
(* Verifiers and the reconciler. *)

completeVerification(r) ==
  /\ run[r].status = "VERIFYING"
  /\ Latest(r).status = "OUTPUT_REPORTED"
  /\ Transition(r, "COMPLETED")
  /\ UNCHANGED <<attempts, created, issued, reports>>

failVerification(r) ==
  /\ run[r].status = "VERIFYING"
  /\ Transition(r, "FAILED")
  /\ UNCHANGED <<attempts, created, issued, reports>>

ReturnsStartedRuns(r) ==
  /\ Latest(r).lease = "ACTIVE"
  /\ Latest(r).status = "STARTED"
  /\ run[r].status = "RUNNING"
  /\ Latest(r).lapsed
  /\ Transition(r, "PENDING")
  /\ Close(r, "LEASE_LOST", "EXPIRED")
  /\ UNCHANGED <<created, issued, reports>>

reconcileExpiredStartedLease(r) ==
  /\ Latest(r).lease = "ACTIVE"
  /\ Latest(r).status = "STARTED"
  /\ run[r].status = "RUNNING"
  /\ Latest(r).lapsed
  /\ Transition(r, "FAILED")
  /\ Close(r, "LEASE_LOST", "EXPIRED")
  /\ UNCHANGED <<created, issued, reports>>

-----------------------------------------------------------------------------
(* Properties. *)

RuntimeTypeOK ==
  /\ run \in [Runs -> [status: RunStatus, events: Seq(RunStatus \X RunStatus)]]
  /\ attempts \in [Runs -> Seq(Attempt)]
  /\ \A r \in Runs: Len(attempts[r]) <= MaxAttempts[r]
  /\ created \in Seq(Runs)
  /\ issued \in Seq(Runs)
  /\ reports \subseteq Report

\* Run, attempt and lease never disagree: only the newest attempt of a run can
\* hold an active lease, an active lease belongs to an attempt that has not
\* started a pending (or meanwhile cancelled) run or to the one that runs it,
\* and a run being verified or completed has let go of its worker.
\* conversion-runtime-transitions.ts persistTransition.
LeasesFollowRuns ==
  \A r \in Runs:
    /\ \A i \in DOMAIN attempts[r]:
         attempts[r][i].lease = "ACTIVE" => /\ i = Len(attempts[r])
                                            /\ attempts[r][i].status \in {"CLAIMED", "STARTED"}
    /\ run[r].status \in {"PENDING", "CANCELLED"} =>
         \A i \in DOMAIN attempts[r]: attempts[r][i].status \in {"CLAIMED", "ABANDONED", "LEASE_LOST"}
    /\ run[r].status = "RUNNING" => /\ attempts[r] # <<>>
                                    /\ Latest(r).status = "STARTED"
                                    /\ Latest(r).lease = "ACTIVE"
    /\ run[r].status \in {"VERIFYING", "COMPLETED", "FAILED"} => ~Leased(r)
    /\ run[r].status \in {"VERIFYING", "COMPLETED"} => /\ attempts[r] # <<>>
                                                       /\ Latest(r).status = "OUTPUT_REPORTED"

\* The events of a run tell the path its row took and no run starts twice: a
\* lease lost after the start fails the run instead of returning it
\* (conversion-runtime-transitions.ts RECONCILE_EXPIRED).
EventsTellTheRun ==
  \A r \in Runs:
    LET e == run[r].events
    IN  /\ run[r].status = (IF e = <<>> THEN "NONE" ELSE e[Len(e)][2])
        /\ \A i \in DOMAIN e: /\ e[i][1] = (IF i = 1 THEN "NONE" ELSE e[i - 1][2])
                              /\ e[i] \in ALLOWED_TRANSITIONS
        /\ Cardinality({i \in DOMAIN e: e[i] = <<"PENDING", "RUNNING">>}) <= 1

\* A step leaves closed what is closed: a late report, a release or the reconciler never
\* reopens or rewrites an attempt whose lease has ended (closeBeforeStart and
\* persistTransition update WHERE status = ... only).
ClosedStaysClosed ==
  \A r \in Runs: \A i \in DOMAIN attempts[r]:
    attempts[r][i].lease # "ACTIVE" =>
      /\ attempts'[r][i].lease = attempts[r][i].lease
      /\ attempts'[r][i].status = attempts[r][i].status
=============================================================================

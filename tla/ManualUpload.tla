----------------------------- MODULE ManualUpload -----------------------------
(***************************************************************************)
(* Files an operator uploads (apps/admin/src/server/manual-upload-*.ts).   *)
(* Two routes lead to the same ledger, worker registry and artifact        *)
(* store: /api/artifacts/manual-uploads keeps a row per request            *)
(* (manual-upload-registry.ts) and claims whatever job is first in its     *)
(* source; /api/manual-uploads keeps no row of its own and claims exactly  *)
(* the job it dispatched.                                                  *)
(*                                                                         *)
(* The server has one event loop: between two awaits of a request nothing  *)
(* else runs (`busy`), but the process may die after any of its writes.    *)
(* A plan for uploads has one attempt, so a failed job ends its run.       *)
(***************************************************************************)
EXTENDS Integers, Sequences

CONSTANTS
  Requests,      \* idempotency keys used with the first route
  Intents,       \* idempotency keys used with the second
  Calls,         \* requests that can be in flight together
  Nobody,
  Persistent,    \* keys whose client repeats the request until it is answered
  CrashLimit     \* bound on the number of crashes

Keys == Requests \cup Intents

UploadAssumption ==
  /\ Requests \cap Intents = {} /\ Persistent \subseteq Keys
  /\ Nobody \notin Keys \cup Calls
  /\ CrashLimit \in Nat

VARIABLES
  request,     \* Request -> status of its row in manual_upload_requests
  job,         \* Key -> status of the one job of its run
  holder,      \* Key -> the upload whose worker holds or held the job's lease
  expired,     \* Key -> the lease has run out and nobody has reaped it
  queue,       \* the jobs of the first route's source, oldest first
  artifacts,   \* Key -> number of raw artifacts of its run
  call,        \* Call -> the request in flight
  busy,        \* the call that is between two awaits
  crashes

vars == <<request, job, holder, expired, queue, artifacts, call, busy, crashes>>

JobStatus == {"NONE", "PENDING", "LEASED", "RUNNING", "COMPLETED", "FAILED"}
RequestStatus == {"NONE", "PREPARED", "RUN_BOUND", "COMPLETED"}

Idle == [step |-> "IDLE"]
CallRecord ==
  [step: {"DISPATCH", "BIND", "FIND", "CLAIM", "START", "UPLOAD", "FINALIZE", "COMPLETE", "RECORD"},
   key: Keys]

Init ==
  /\ request = [r \in Requests |-> "NONE"]
  /\ job = [k \in Keys |-> "NONE"]
  /\ holder = [k \in Keys |-> Nobody]
  /\ expired = [k \in Keys |-> FALSE]
  /\ queue = <<>>
  /\ artifacts = [k \in Keys |-> 0]
  /\ call = [c \in Calls |-> Idle]
  /\ busy = Nobody
  /\ crashes = 0

----------------------------------------------------------------------------
(* Helpers. *)

\* Call c is the one that runs, or may begin to.
Runs(c) == busy \in {c, Nobody}
At(c, step) == call[c].step = step /\ Runs(c)
Enter(c, k, step) ==
  /\ call[c] = Idle /\ busy = Nobody
  /\ call' = [call EXCEPT ![c] = [step |-> step, key |-> k]]
  /\ busy' = c
GoTo(c, step) == call' = [call EXCEPT ![c].step = step] /\ busy' = c
Await(c, step) == call' = [call EXCEPT ![c].step = step] /\ busy' = Nobody
Return(c) == call' = [call EXCEPT ![c] = Idle] /\ busy' = Nobody

\* The lease of k's job still authenticates the upload k that holds it.
Live(k) == job[k] = "RUNNING" /\ holder[k] = k /\ ~expired[k]

ReapedExecutions ==
  [k \in Keys |-> IF expired[k] /\ job[k] = "RUNNING" THEN "FAILED" ELSE job[k]]

\* reapExpired and reconcileExpired: a reservation returns, an execution fails.
Reaped ==
  [k \in Keys |-> IF ~expired[k] THEN job[k]
                    ELSE IF job[k] = "LEASED" THEN "PENDING" ELSE "FAILED"]

NotExpired == [k \in Keys |-> FALSE]

\* reapExpired alone, the first thing every claim does.
Returned == [k \in Keys |-> IF expired[k] /\ job[k] = "LEASED" THEN "PENDING" ELSE job[k]]

Pending(j) == {i \in DOMAIN queue : j[queue[i]] = "PENDING"}

----------------------------------------------------------------------------
(* The first route: ingestManualUpload of manual-upload-service.ts.        *)

Prepare(c, r) ==
  /\ request[r] # "COMPLETED"
  /\ Enter(c, r, IF request[r] = "RUN_BOUND" THEN "FIND" ELSE "DISPATCH")
  /\ request' = [request EXCEPT ![r] = IF @ = "NONE" THEN "PREPARED" ELSE @]
  /\ UNCHANGED <<job, holder, expired, queue, artifacts, crashes>>

\* dispatchManual returns the run it made before for the same key.
DispatchRequest(c) ==
  /\ At(c, "DISPATCH")
  /\ LET r == call[c].key IN
     IF job[r] = "NONE"
     THEN job' = [job EXCEPT ![r] = "PENDING"] /\ queue' = Append(queue, r)
     ELSE UNCHANGED <<job, queue>>
  /\ GoTo(c, "BIND")
  /\ UNCHANGED <<request, holder, expired, artifacts, crashes>>

BindRun(c) ==
  /\ At(c, "BIND")
  /\ request' = [request EXCEPT ![call[c].key] = "RUN_BOUND"]
  /\ GoTo(c, "FIND")
  /\ UNCHANGED <<job, holder, expired, queue, artifacts, crashes>>

FindAnyway(c) ==
  /\ At(c, "FIND")
  /\ request' = [request EXCEPT ![call[c].key] = "COMPLETED"]
  /\ Return(c)
  /\ UNCHANGED <<job, holder, expired, queue, artifacts, crashes>>

\* An artifact the run already has completes the request.
FindArtifact(c) ==
  /\ At(c, "FIND")
  /\ IF artifacts[call[c].key] > 0
     THEN request' = [request EXCEPT ![call[c].key] = "COMPLETED"] /\ Return(c)
     ELSE GoTo(c, "CLAIM") /\ UNCHANGED request
  /\ UNCHANGED <<job, holder, expired, queue, artifacts, crashes>>

\* claim takes the oldest pending job of the source, whosever it is; a job of
\* another upload stays leased to this upload's worker, which nobody runs.
ClaimAny(c) ==
  /\ At(c, "CLAIM") /\ call[c].key \in Requests
  /\ LET r == call[c].key
         open == Pending(Reaped) IN
     \/ open = {} /\ job' = Reaped /\ Return(c) /\ UNCHANGED holder
     \/ \E i \in open : LET k == queue[i] IN
          /\ \A i2 \in open : i <= i2
          /\ job' = [Reaped EXCEPT ![k] = "LEASED"]
          /\ holder' = [holder EXCEPT ![k] = r]
          /\ IF k = r THEN GoTo(c, "START") ELSE Return(c)
  /\ expired' = NotExpired
  /\ UNCHANGED <<request, queue, artifacts, crashes>>

----------------------------------------------------------------------------
(* The second route: ingestManualUpload of manual-upload-ingestion.ts.     *)

\* A replay goes on only while the job is still pending.
DispatchIntent(c, k) ==
  /\ artifacts[k] = 0
  /\ job[k] \in {"NONE", "PENDING"}
  /\ Enter(c, k, "CLAIM")
  /\ job' = [job EXCEPT ![k] = "PENDING"]
  /\ UNCHANGED <<request, holder, expired, queue, artifacts, crashes>>

ClaimFirst(c) ==
  /\ At(c, "CLAIM") /\ call[c].key \in Intents
  /\ \E k \in Intents :
       /\ job[k] = "PENDING"
       /\ job' = [job EXCEPT ![k] = "LEASED"]
       /\ holder' = [holder EXCEPT ![k] = call[c].key]
       /\ IF k = call[c].key THEN GoTo(c, "START") ELSE Return(c)
  /\ UNCHANGED <<request, expired, queue, artifacts, crashes>>

ClaimSpecific(c) ==
  /\ At(c, "CLAIM") /\ call[c].key \in Intents
  /\ LET k == call[c].key IN
     /\ job[k] = "PENDING"
     /\ job' = [Returned EXCEPT ![k] = "LEASED"]
     /\ holder' = [holder EXCEPT ![k] = k]
  /\ expired' = [k \in Keys |-> expired[k] /\ job[k] # "LEASED"]
  /\ GoTo(c, "START")
  /\ UNCHANGED <<request, queue, artifacts, crashes>>

----------------------------------------------------------------------------
(* What both do with the lease. *)

\* start and createSession; then the body is streamed.
Start(c) ==
  /\ At(c, "START")
  /\ job' = [job EXCEPT ![call[c].key] = "RUNNING"]
  /\ Await(c, "UPLOAD")
  /\ UNCHANGED <<request, holder, expired, queue, artifacts, crashes>>

\* A step threw.  The second route fails the execution if it still can, the
\* first leaves it to the lease's end.
Throw(c) ==
  /\ LET k == call[c].key IN
     job' = IF k \in Intents /\ Live(k) THEN [job EXCEPT ![k] = "FAILED"] ELSE job
  /\ Return(c)
  /\ UNCHANGED <<request, holder, expired, queue, artifacts, crashes>>

\* The upload is verified and markVerifying accepts the lease.
UploadContent(c) ==
  /\ At(c, "UPLOAD") /\ Live(call[c].key)
  /\ Await(c, "FINALIZE")
  /\ UNCHANGED <<request, job, holder, expired, queue, artifacts, crashes>>

UploadFails(c) == (At(c, "UPLOAD") \/ At(c, "FINALIZE")) /\ Throw(c)

\* The registering transaction looks at the lease no more.
FinalizeArtifact(c) ==
  /\ At(c, "FINALIZE")
  /\ artifacts' = [artifacts EXCEPT ![call[c].key] = @ + 1]
  /\ Await(c, "COMPLETE")
  /\ UNCHANGED <<request, job, holder, expired, queue, crashes>>

CompleteJob(c) ==
  /\ At(c, "COMPLETE")
  /\ LET k == call[c].key IN
     IF Live(k)
     THEN /\ job' = [job EXCEPT ![k] = "COMPLETED"]
          /\ IF k \in Requests THEN GoTo(c, "RECORD") ELSE Return(c)
          /\ UNCHANGED <<request, holder, expired, queue, artifacts, crashes>>
     ELSE Throw(c)

CompleteRequest(c) ==
  /\ At(c, "RECORD")
  /\ request' = [request EXCEPT ![call[c].key] = "COMPLETED"]
  /\ Return(c)
  /\ UNCHANGED <<job, holder, expired, queue, artifacts, crashes>>

----------------------------------------------------------------------------
(* Around them: leases run out, somebody reaps them, the process dies. *)

ExpireLease(k) ==
  /\ job[k] \in {"LEASED", "RUNNING"} /\ ~expired[k] /\ busy = Nobody
  /\ expired' = [expired EXCEPT ![k] = TRUE]
  /\ UNCHANGED <<request, job, holder, queue, artifacts, call, busy, crashes>>

Reap ==
  /\ busy = Nobody /\ \E k \in Keys : expired[k]
  /\ job' = Reaped
  /\ expired' = NotExpired
  /\ UNCHANGED <<request, holder, queue, artifacts, call, busy, crashes>>

Crash ==
  /\ crashes < CrashLimit
  /\ crashes' = crashes + 1
  /\ call' = [c \in Calls |-> Idle]
  /\ busy' = Nobody
  /\ UNCHANGED <<request, job, holder, expired, queue, artifacts>>

Begin(c, k) ==
  \/ k \in Requests /\ Prepare(c, k)
  \/ k \in Intents /\ DispatchIntent(c, k)

Step(c) ==
  \/ DispatchRequest(c) \/ BindRun(c) \/ FindArtifact(c) \/ ClaimAny(c)
  \/ ClaimSpecific(c) \/ Start(c)
  \/ UploadContent(c) \/ UploadFails(c) \/ FinalizeArtifact(c)
  \/ CompleteJob(c) \/ CompleteRequest(c)

Next ==
  \/ \E c \in Calls : Step(c) \/ \E k \in Keys : Begin(c, k)
  \/ \E k \in Keys : ExpireLease(k)
  \/ Reap
  \/ Crash

\* Requests in flight go on, leases run out and are reaped, and the persistent
\* clients find the server free again and again.
Fairness ==
  /\ \A c \in Calls : WF_vars(Step(c))
  /\ \A k \in Keys : SF_vars(ExpireLease(k))
  /\ SF_vars(Reap)
  /\ \A k \in Persistent : SF_vars(\E c \in Calls : Begin(c, k))

Spec == Init /\ [][Next]_vars /\ Fairness

----------------------------------------------------------------------------
(* Properties. *)

TypeOK ==
  /\ request \in [Requests -> RequestStatus]
  /\ job \in [Keys -> JobStatus]
  /\ holder \in [Keys -> Keys \cup {Nobody}]
  /\ expired \in [Keys -> BOOLEAN]
  /\ queue \in Seq(Requests)
  /\ artifacts \in [Keys -> Nat]
  /\ call \in [Calls -> CallRecord \cup {Idle}]
  /\ busy \in Calls \cup {Nobody}
  /\ crashes \in 0..CrashLimit

\* "Replay discovers that immutable artifact and returns it instead of creating
\* another one": however often an upload is repeated, through crashes and lost
\* leases, its run has at most one artifact, and what is reported as completed has one.
UploadedOnce ==
  /\ \A k \in Keys : artifacts[k] <= 1
  /\ \A k \in Keys : job[k] = "COMPLETED" => artifacts[k] = 1
  /\ \A r \in Requests : request[r] = "COMPLETED" => artifacts[r] = 1

\* "Two simultaneous uploads must not exchange their newly created Jobs": a job
\* is only ever leased to the upload that dispatched it.
IntentsKeepTheirJobs == \A k \in Intents : holder[k] \in {k, Nobody}

\* An upload whose client keeps repeating it gets its job started: "a replay can
\* continue when dispatch exists but execution has not yet started".
RepeatedUploadsStart ==
  \A k \in Persistent : job[k] = "PENDING" ~> job[k] \in {"RUNNING", "COMPLETED", "FAILED"}
=============================================================================

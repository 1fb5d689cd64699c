--------------------------- MODULE WorkerExecution ---------------------------
(***************************************************************************)
(* Controlled execution of leased jobs, as recorded by                     *)
(* packages/persistence/src/controlled-worker-execution.ts, together with  *)
(* the ledger and the registry it shares its tables with.                  *)
(*                                                                         *)
(* execution_attempts has one row per lease (lease_id UNIQUE), so an       *)
(* attempt is identified by its lease.  Each accepted transition appends   *)
(* one event; the events other than ABANDONED are also what the replay     *)
(* table execution_transition_requests answers repeated requests from.  A  *)
(* repeated request (same key) is answered from there, or is a conflict,   *)
(* and changes nothing; the actions below are requests under a new key.    *)
(***************************************************************************)
EXTENDS WorkerRegistry, Sequences

CONSTANTS
  Backoff,       \* Backoff[p], policy.retry.backoffSeconds in ticks
  BackoffCap     \* MAX_RETRY_BACKOFF_MS

ASSUME ExecutionAssumption ==
  /\ Backoff \in [Plans -> Nat]
  /\ BackoffCap \in Nat

VARIABLE attempt   \* tables execution_attempts and execution_events

vars == <<run, job, worker, heartbeat, lease, attempt>>

ActiveExecutionStates == {"RUNNING", "UPLOADING", "VERIFYING"}
AttemptStatus == ActiveExecutionStates \cup {"COMPLETED", "FAILED"}
EventType == {"STARTED", "UPLOADING", "VERIFYING", "COMPLETED", "FAILED", "ABANDONED"}

AttemptRecord == [status : AttemptStatus, events : Seq(EventType)]
NoAttempt == [status |-> "NONE"]

TypeOK ==
  /\ RegistryTypeOK
  /\ attempt \in [Leases -> AttemptRecord \cup {NoAttempt}]

Init ==
  /\ RegistryInit
  /\ attempt = [l \in Leases |-> NoAttempt]

Executing(l) == attempt[l].status \in ActiveExecutionStates

-----------------------------------------------------------------------------
(* Requests of the worker that holds lease l. *)

\* A faulty check that trusts the status of a lease nobody has reaped yet.
ContextWithoutExpiry(l) == OwnedActiveLease(l)

\* authenticate and requireActiveContext: an enabled worker, its own lease,
\* ACTIVE and not past its expiry (reaped yet or not).
ActiveContext(l) ==
  /\ OwnedActiveLease(l)
  /\ lease[l].ttl > 0

JobOf(l) == lease[l].job
RunOf(l) == lease[l].job[1]

Moved(l, status, event) ==
  [attempt EXCEPT ![l] = [status |-> status, events |-> Append(@.events, event)]]

\* start
Start(l) ==
  /\ ActiveContext(l)
  /\ job[JobOf(l)].status = "LEASED" /\ run[RunOf(l)].status = "PENDING"
  /\ attempt[l] = NoAttempt
  /\ attempt' = [attempt EXCEPT ![l] = [status |-> "RUNNING", events |-> <<"STARTED">>]]
  /\ job' = [job EXCEPT ![JobOf(l)].status = "RUNNING"]
  /\ run' = [run EXCEPT ![RunOf(l)].status = "RUNNING"]
  /\ UNCHANGED <<worker, heartbeat, lease>>

\* transition: attempt and job advance together from one stage to the next.
Transition(l, expected, target) ==
  /\ ActiveContext(l)
  /\ attempt[l].status = expected /\ job[JobOf(l)].status = expected
  /\ attempt' = Moved(l, target, target)
  /\ job' = [job EXCEPT ![JobOf(l)].status = target]
  /\ UNCHANGED <<run, worker, heartbeat, lease>>

MarkUploading(l) == Transition(l, "RUNNING", "UPLOADING")
MarkVerifying(l) == Transition(l, "UPLOADING", "VERIFYING")

\* A faulty completion that leaves the lease open.
CompleteWithoutRelease(l) ==
  /\ ActiveContext(l)
  /\ attempt[l].status = "VERIFYING" /\ job[JobOf(l)].status = "VERIFYING"
  /\ attempt' = Moved(l, "COMPLETED", "COMPLETED")
  /\ job' = [job EXCEPT ![JobOf(l)].status = "COMPLETED"]
  /\ run' = [run EXCEPT ![RunOf(l)].status = "COMPLETED"]
  /\ UNCHANGED <<worker, heartbeat, lease>>

\* terminalAuthenticated with a receipt.  A receipt of another executor, of
\* kinds nobody asked for or without finalized artifacts is refused.
Complete(l) ==
  /\ ActiveContext(l)
  /\ attempt[l].status = "VERIFYING" /\ job[JobOf(l)].status = "VERIFYING"
  /\ attempt' = Moved(l, "COMPLETED", "COMPLETED")
  /\ job' = [job EXCEPT ![JobOf(l)].status = "COMPLETED"]
  /\ run' = [run EXCEPT ![RunOf(l)].status = "COMPLETED"]
  /\ lease' = Closed({l}, "RELEASED")
  /\ UNCHANGED <<worker, heartbeat>>

\* computeExecutionRetryDelayMs: exponential up to the cap, plus a jitter taken
\* from a digest of the job.  The seed is scaled to 0 .. 1 with both ends
\* included, so its largest value lands one past the jitter window.
RetryDelays(p, n) ==
  LET cap    == IF Backoff[p] >= BackoffCap THEN Backoff[p] ELSE BackoffCap
      delay  == Lesser(Backoff[p] * 2 ^ Lesser(n - 1, 20), cap)
      jitter == Lesser(delay \div 4, cap - delay)
      latest == IF jitter = 0 THEN delay ELSE delay + jitter + 1
  IN  {d \in 0 .. (cap + 1) : delay <= d /\ d <= latest}

\* terminalAuthenticated with a failure: a retryable one with attempts left
\* ends the job in RETRY and adds the next job of the run; otherwise the run
\* ends with the job.
Fail(l, retryable) ==
  LET j == JobOf(l)
      p == PlanOf(j)
      retry == retryable /\ j[2] < MaxAttempts[p]
      ended == IF retry THEN "RETRY" ELSE IF retryable THEN "DEAD_LETTER" ELSE "FAILED"
  IN  /\ ActiveContext(l)
      /\ Executing(l)
      /\ attempt' = Moved(l, "FAILED", "FAILED")
      /\ \/ /\ retry
            /\ \E d \in RetryDelays(p, j[2]) :
                 job' = [job EXCEPT ![j].status = ended,
                                    ![<<j[1], j[2] + 1>>] = [status |-> "PENDING", wait |-> d]]
            /\ run' = [run EXCEPT ![j[1]].status = "PENDING"]
         \/ /\ ~retry
            /\ job' = [job EXCEPT ![j].status = ended]
            /\ run' = [run EXCEPT ![j[1]].status = "FAILED"]
      /\ lease' = Closed({l}, "RELEASED")
      /\ UNCHANGED <<worker, heartbeat>>

-----------------------------------------------------------------------------
\* Faulty selections: attempts that already ended, or only leases still ACTIVE.
OrphanedAttempts ==
  {l \in Leases : attempt[l] # NoAttempt /\ (~Active(l) \/ lease[l].ttl = 0)}
OrphanedByExpiryOnly == {l \in Leases : Executing(l) /\ Expired(l)}

\* Executions whose lease has ended, or is past its expiry.
Orphaned == {l \in Leases : Executing(l) /\ (~Active(l) \/ lease[l].ttl = 0)}

\* A faulty reconciliation that fails attempt and job and forgets the run.
ReconcileWithoutRun ==
  /\ Orphaned # {}
  /\ attempt' = [l \in Leases |->
                   IF l \in Orphaned
                   THEN [status |-> "FAILED", events |-> Append(attempt[l].events, "ABANDONED")]
                   ELSE attempt[l]]
  /\ job' = [j \in Jobs |-> IF \E l \in Orphaned : JobOf(l) = j
                            THEN [job[j] EXCEPT !.status = "FAILED"] ELSE job[j]]
  /\ lease' = Closed({l \in Orphaned : Active(l)}, "EXPIRED")
  /\ UNCHANGED <<run, worker, heartbeat>>

\* reconcileExpired: each of them fails, with its job and its run, and a lease
\* that is still ACTIVE expires.
ReconcileExpired ==
  /\ Orphaned # {}
  /\ attempt' = [l \in Leases |->
                   IF l \in Orphaned
                   THEN [status |-> "FAILED", events |-> Append(attempt[l].events, "ABANDONED")]
                   ELSE attempt[l]]
  /\ job' = [j \in Jobs |-> IF \E l \in Orphaned : JobOf(l) = j
                            THEN [job[j] EXCEPT !.status = "FAILED"] ELSE job[j]]
  /\ run' = [r \in Runs |-> IF \E l \in Orphaned : RunOf(l) = r
                            THEN [run[r] EXCEPT !.status = "FAILED"] ELSE run[r]]
  /\ lease' = Closed({l \in Orphaned : Active(l)}, "EXPIRED")
  /\ UNCHANGED <<worker, heartbeat>>

-----------------------------------------------------------------------------
LedgerStep ==
  /\ \/ \E r \in Runs, p \in Plans, k \in Keys \cup {NoKey} : DispatchManual(r, p, k)
     \/ \E r \in Runs : Cancel(r)
  /\ UNCHANGED <<worker, heartbeat, lease, attempt>>

RegistryStep ==
  /\ \/ \E w \in Workers, d \in WorkerDefinitions : UpdateWorker(w, d)
     \/ \E w \in Workers, h \in Health, S \in SUBSET Leases : Heartbeat(w, h, S)
     \/ \E w \in Workers : Claim(w)
     \/ \E w \in Workers, j \in Jobs : ClaimSpecific(w, j)
     \/ \E l \in Leases : RenewLease(l) \/ ReleaseLease(l)
     \/ ReapExpired
     \/ ClockTick
  /\ UNCHANGED attempt

ExecutionStep ==
  \/ \E l \in Leases : Start(l) \/ MarkUploading(l) \/ MarkVerifying(l) \/ Complete(l)
  \/ \E l \in Leases, retryable \in BOOLEAN : Fail(l, retryable)
  \/ ReconcileExpired

Next == LedgerStep \/ RegistryStep \/ ExecutionStep

\* Time passes, and POST /api/leases/reap, which reaps and then reconciles, is
\* called again and again.  Nothing is assumed of workers or administrators.
Fairness ==
  /\ WF_vars(ClockTick /\ UNCHANGED attempt)
  /\ WF_vars(ReapExpired /\ UNCHANGED attempt)
  /\ WF_vars(ReconcileExpired)

Spec == Init /\ [][Next]_vars /\ Fairness
-----------------------------------------------------------------------------
(* Safety. *)

RunEnded(r) == run[r].status \in {"COMPLETED", "FAILED", "CANCELLED"}

\* Where the last job of a run may be, given the status of the run.
LastJobAgrees(status, last) ==
  /\ status = "PENDING"   => last \in {"PENDING", "LEASED"}
  /\ status = "RUNNING"   => last \in ActiveExecutionStates
  /\ status = "COMPLETED" => last = "COMPLETED"
  /\ status = "CANCELLED" => last = "CANCELLED"
  /\ status = "FAILED"    => last \in {"FAILED", "DEAD_LETTER"}

\* The jobs of a run are its attempts 1 .. n, at most maxAttempts of them; every
\* attempt but the last ended in RETRY, the last one is where the run is, and it
\* is a DEAD_LETTER only when the attempts are used up.  (cancel, claim, start,
\* the terminal requests and reconcileExpired each write one part of this;
\* UNIQUE (run_id, attempt) never has to fire.)
JobsFollowRun ==
  \A r \in Runs :
    IF run[r] = NoRun THEN \A i \in 1 .. AttemptLimit : job[<<r, i>>] = NoJob
    ELSE \E n \in 1 .. MaxAttempts[run[r].plan] :
      /\ \A i \in 1 .. AttemptLimit : job[<<r, i>>] = NoJob <=> i > n
      /\ \A i \in 1 .. (n - 1) : job[<<r, i>>].status = "RETRY"
      /\ LastJobAgrees(run[r].status, job[<<r, n>>].status)
      /\ job[<<r, n>>].status = "DEAD_LETTER" => n = MaxAttempts[run[r].plan]

\* A job has at most one ACTIVE lease (idx_one_active_lease_per_job never has to
\* fire), it is LEASED exactly while that lease has no attempt, and no lease
\* stays ACTIVE on a job that ended.
LeasesFollowJobs ==
  /\ \A l, m \in Leases : Active(l) /\ Active(m) /\ JobOf(l) = JobOf(m) => l = m
  /\ \A l \in Leases : Active(l) =>
       IF attempt[l] = NoAttempt THEN job[JobOf(l)].status = "LEASED"
                                 ELSE Executing(l)
  /\ \A j \in Jobs : job[j].status = "LEASED" =>
       \E l \in Leases : Active(l) /\ JobOf(l) = j

\* Two leases never execute the same job, even one after the other, and a job is
\* in an execution stage exactly while the attempt of one of its leases is, in the
\* same stage.  (start, transition, terminal and reconcileExpired; UNIQUE
\* (job_id, job_attempt) never has to fire.)
AttemptsFollowJobs ==
  /\ \A l, m \in Leases :
       attempt[l] # NoAttempt /\ attempt[m] # NoAttempt /\ JobOf(l) = JobOf(m) => l = m
  /\ \A l \in Leases : Executing(l) => job[JobOf(l)].status = attempt[l].status
  /\ \A j \in Jobs : job[j].status \in ActiveExecutionStates =>
       \E l \in Leases : Executing(l) /\ JobOf(l) = j

\* A disabled worker holds no ACTIVE lease: update revokes them, and neither
\* claim nor a renewal that was on its way gets one back.
DisabledHoldNothing ==
  \A w \in Workers : worker[w].desired = "DISABLED" => ActiveLeases(w) = {}

\* At any time a web domain has at most maxConcurrentWebLeasesPerDomain ACTIVE
\* leases, and no more leases within the rate window than the lowest rate limit
\* of the plans among them, whichever workers claimed them and by which call.
WebDomainQuotaKept ==
  \A l \in Leases :
    lease[l] # NoLease /\ Domain[PlanOf(JobOf(l))] # NoDomain =>
      LET held   == DomainLeases(lease, Domain[PlanOf(JobOf(l))])
          recent == {m \in held : lease[m].age <= RateWindow}
      IN  /\ Cardinality({m \in held : Active(m)}) <= MaxPerDomain
          /\ l \in recent => Cardinality(recent) <= RateLimit[PlanOf(JobOf(l))]

\* The events of an attempt are one path through the protocol, ending where the
\* attempt is: the stages in order, none skipped, and one terminal event, which
\* is the worker's own or the reconciler's but never both.
Stages == <<"STARTED", "UPLOADING", "VERIFYING">>

EventsTellThePath ==
  \A l \in Leases : attempt[l] # NoAttempt =>
    LET e == attempt[l].events
        n == Len(e)
    IN  CASE attempt[l].status = "RUNNING"   -> e = SubSeq(Stages, 1, 1)
          [] attempt[l].status = "UPLOADING" -> e = SubSeq(Stages, 1, 2)
          [] attempt[l].status = "VERIFYING" -> e = Stages
          [] attempt[l].status = "COMPLETED" -> e = Append(Stages, "COMPLETED")
          [] attempt[l].status = "FAILED"    ->
               /\ n \in 2 .. 4
               /\ SubSeq(e, 1, n - 1) = SubSeq(Stages, 1, n - 1)
               /\ e[n] \in {"FAILED", "ABANDONED"}

-----------------------------------------------------------------------------
(* What a step may never do. *)

\* A run that ended is never written again, nor is any of its jobs: no late
\* request, reap, revocation or reconciliation reaches it.
EndedRunsFrozen ==
  [][\A r \in Runs : RunEnded(r) =>
       /\ run'[r] = run[r]
       /\ \A j \in JobsOf(r) : job'[j].status = job[j].status]_vars

\* "Once execution has started, the external outcome may be unknown.  It must
\* never be treated as a safe automatic retry": an execution whose lease ended
\* only ever fails, and fails its run with it; no further job is added.
OrphansOnlyFail ==
  [][\A l \in Orphaned :
       /\ attempt'[l].status \in {attempt[l].status, "FAILED"}
       /\ attempt'[l].status = "FAILED" => run'[RunOf(l)].status = "FAILED"
       /\ run'[RunOf(l)].status \in {"RUNNING", "FAILED"}]_vars

\* A reservation that ends before execution started costs the run nothing: the
\* job is available again under the same attempt number, or leased anew by the
\* claim that reaped it.
LostReservationsReturn ==
  [][\A l \in Leases :
       Active(l) /\ attempt[l] = NoAttempt /\ ~Active(l)' =>
         /\ \/ job'[JobOf(l)].status = "PENDING"
            \/ \E m \in Leases \ {l} : Active(m)' /\ lease'[m].job = JobOf(l)
         /\ run'[RunOf(l)] = run[RunOf(l)]]_vars

\* No step takes a worker above its maxConcurrency (lowering the limit may leave
\* it above, which no step then makes worse).
CapacityRespected ==
  [][\A w \in Workers :
       Cardinality(ActiveLeases(w))' <= Cardinality(ActiveLeases(w))
         \/ Cardinality(ActiveLeases(w))' <= worker[w].maxConcurrency]_vars

-----------------------------------------------------------------------------
(* What the documents say and the code does not do. *)

\* WORKER_REGISTRY_AND_LEASES.md, Administrative disablement: changing desired
\* state to DISABLED "revokes all active leases; returns their Jobs to PENDING".
\* (returnJobToPending leaves a job whose execution has started where it is.)
DisablementReturnsJobs ==
  [][\A l \in Leases : Active(l) /\ worker'[lease[l].worker].desired = "DISABLED"
                         => job'[JobOf(l)].status = "PENDING"]_vars

\* EXECUTION_LIFECYCLE_PROTOCOL_V1.md, FAILED: "The retryable flag is descriptive
\* only.  It does not create another attempt."  (a retryable failure with attempts
\* left inserts the next job and puts the run back to PENDING.)
FailureAddsNoAttempt ==
  [][\A r \in Runs : run[r] # NoRun => JobsOf(r)' = JobsOf(r)]_vars

\* controlled-worker-execution.test.ts, "computes deterministic exponential retry
\* delays with bounded jitter": the delay before attempt n is at most a quarter
\* longer than the exponential one.  (the largest seed gives one unit more.)
JitterBounded ==
  \A r \in Runs, n \in 2 .. AttemptLimit : job[<<r, n>>] # NoJob =>
    LET delay == Backoff[run[r].plan] * 2 ^ (n - 2)
    IN  job[<<r, n>>].wait <= delay + delay \div 4

-----------------------------------------------------------------------------
(* Liveness, under Fairness. *)

\* Every lease ends: renewals cannot keep one forever.
LeasesEnd == \A l \in Leases : Active(l) ~> ~Active(l)

\* Every execution ends, also when its worker stops in the middle or loses its
\* lease without noticing.
ExecutionsEnd == \A l \in Leases : Executing(l) ~> ~Executing(l)

-----------------------------------------------------------------------------
(* What callers see of all this is RunLifecycle. *)

RunLimit(r) == IF run[r] = NoRun THEN 0 ELSE MaxAttempts[run[r].plan]
StartedAttempts(r) ==
  {n \in 1 .. AttemptLimit : \E l \in Leases : attempt[l] # NoAttempt /\ JobOf(l) = <<r, n>>}

Lifecycle == INSTANCE RunLifecycle
               WITH phase   <- [r \in Runs |-> run[r].status],
                    limit   <- [r \in Runs |-> RunLimit(r)],
                    started <- [r \in Runs |-> StartedAttempts(r)]

\* Whatever workers, administrators, the clock and the reconciler do, a run goes
\* through the lifecycle RunLifecycle promises.
ImplementsLifecycle == Lifecycle!Spec
=============================================================================

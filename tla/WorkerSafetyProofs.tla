-------------------------- MODULE WorkerSafetyProofs -------------------------
(***************************************************************************)
(* The safety of WorkerExecution for every number of runs, workers and     *)
(* leases and every setting of the durations and limits: its types and     *)
(* references hold, runs, jobs, leases and attempts agree in every         *)
(* reachable state, a run that ended stays as it is, leases cost and leave *)
(* behind what they should, and a run goes through RunLifecycle.           *)
(***************************************************************************)
EXTENDS WorkerExecution, FiniteSetTheorems, SequenceTheorems, TLAPS

\* Rows refer to rows that exist: the foreign keys of the schema.  Writing a
\* job or a run through a lease keeps its type only because of this.
ReferencesHold ==
  /\ \A j \in Jobs : job[j] # NoJob => run[j[1]] # NoRun
  /\ \A l \in Leases : lease[l] # NoLease => job[lease[l].job] # NoJob
  /\ \A l \in Leases : attempt[l] # NoAttempt => lease[l] # NoLease

TypeInv == TypeOK /\ ReferencesHold

USE DEF TypeOK, RegistryTypeOK, LedgerTypeOK

-----------------------------------------------------------------------------
(* Facts about the records and the helpers. *)

\* The placeholders for absent rows are not rows.
LEMMA Absent ==
  /\ NoRun \notin RunRecord /\ NoJob \notin JobRecord
  /\ NoLease \notin LeaseRecord /\ NoAttempt \notin AttemptRecord
BY DEF NoRun, NoJob, NoLease, NoAttempt, RunRecord, JobRecord, LeaseRecord, AttemptRecord,
       RunStatus, JobStatus, LeaseStatus, AttemptStatus, ActiveExecutionStates

\* A status other than the placeholder's belongs to a row.
LEMMA Present ==
  ASSUME TypeOK
  PROVE  /\ \A r \in Runs : run[r].status # "NONE" => run[r] \in RunRecord
         /\ \A r \in Runs : run[r] # NoRun => run[r] \in RunRecord
         /\ \A j \in Jobs : job[j].status # "NONE" => job[j] \in JobRecord
         /\ \A j \in Jobs : job[j] # NoJob => job[j] \in JobRecord
         /\ \A l \in Leases : lease[l].status # "NONE" => lease[l] \in LeaseRecord
         /\ \A l \in Leases : lease[l] # NoLease => lease[l] \in LeaseRecord
         /\ \A l \in Leases : attempt[l].status # "NONE" => attempt[l] \in AttemptRecord
         /\ \A l \in Leases : attempt[l] # NoAttempt => attempt[l] \in AttemptRecord
BY DEF NoRun, NoJob, NoLease, NoAttempt

\* A run, job or attempt with a new status is still a row.
LEMMA NewStatus ==
  /\ \A x \in RunRecord, s \in RunStatus : [x EXCEPT !.status = s] \in RunRecord
  /\ \A x \in JobRecord, s \in JobStatus : [x EXCEPT !.status = s] \in JobRecord
  /\ \A x \in AttemptRecord, s \in AttemptStatus, e \in EventType :
       [status |-> s, events |-> Append(x.events, e)] \in AttemptRecord
BY DEF RunRecord, JobRecord, AttemptRecord

\* closeLease keeps the rows of the leases table, their type and their jobs.
LEMMA ClosedType ==
  ASSUME TypeOK, NEW S, S \subseteq {l \in Leases : lease[l] # NoLease},
         NEW s \in LeaseStatus
  PROVE  /\ Closed(S, s) \in [Leases -> LeaseRecord \cup {NoLease}]
         /\ \A l \in Leases : Closed(S, s)[l] = NoLease <=> lease[l] = NoLease
         /\ \A l \in Leases : lease[l] # NoLease => Closed(S, s)[l].job = lease[l].job
<1>1. ASSUME NEW l \in S
      PROVE  [status |-> s, worker |-> lease[l].worker, job |-> lease[l].job,
              ttl |-> 0, life |-> 0, age |-> lease[l].age] \in LeaseRecord
  BY Present, RegistryAssumption DEF LeaseRecord
<1> QED
  BY <1>1, Absent DEF Closed

\* returnJobToPending keeps the rows of the jobs table and their type.
LEMMA ReturnedType ==
  ASSUME TypeOK, NEW S
  PROVE  /\ ReturnedToPending(S) \in [Jobs -> JobRecord \cup {NoJob}]
         /\ \A j \in Jobs : ReturnedToPending(S)[j] = NoJob <=> job[j] = NoJob
BY Present, Absent, NewStatus DEF ReturnedToPending, JobStatus

\* A tick keeps the type of a lease.
LEMMA AgedType ==
  ASSUME NEW x \in LeaseRecord
  PROVE  Aged(x) \in LeaseRecord
<1>1. /\ Before(x.ttl) \in 0 .. LeaseDuration
      /\ Before(x.life) \in 0 .. MaxLeaseLifetime
      /\ Lesser(x.age + 1, RateWindow + 1) \in 0 .. (RateWindow + 1)
  BY RegistryAssumption DEF Before, Lesser, LeaseRecord
<1> QED
  BY <1>1 DEF LeaseRecord, Aged

-----------------------------------------------------------------------------
(* Type correctness, action by action. *)

LEMMA TypeInit == Init => TypeInv
<1> SUFFICES ASSUME Init PROVE TypeInv
  OBVIOUS
<1> USE DEF Init, RegistryInit, LedgerInit
<1>1. TypeOK
  BY RegistryAssumption DEF HeartbeatRecord
<1>2. ReferencesHold
  BY DEF ReferencesHold
<1> QED
  BY <1>1, <1>2 DEF TypeInv

\* Closing leases and returning their jobs, as disablement, late renewal, release
\* and reaping do.
LEMMA TypeClosing ==
  ASSUME TypeInv, NEW S, S \subseteq {l \in Leases : Active(l)},
         NEW s \in LeaseStatus,
         lease' = Closed(S, s), job' = ReturnedToPending(S),
         UNCHANGED <<run, attempt>>,
         worker' \in [Workers -> WorkerDefinitions], heartbeat' = heartbeat
  PROVE  TypeInv'
<1>1. S \subseteq {l \in Leases : lease[l] # NoLease}
  BY DEF Active, NoLease
<1>2. /\ lease' \in [Leases -> LeaseRecord \cup {NoLease}]
      /\ \A l \in Leases : lease'[l] = NoLease <=> lease[l] = NoLease
      /\ \A l \in Leases : lease[l] # NoLease => lease'[l].job = lease[l].job
  <2>1. /\ Closed(S, s) \in [Leases -> LeaseRecord \cup {NoLease}]
        /\ \A l \in Leases : Closed(S, s)[l] = NoLease <=> lease[l] = NoLease
        /\ \A l \in Leases : lease[l] # NoLease => Closed(S, s)[l].job = lease[l].job
    BY <1>1, ClosedType DEF TypeInv
  <2> QED
    BY <2>1
<1>3. /\ job' \in [Jobs -> JobRecord \cup {NoJob}]
      /\ \A j \in Jobs : job'[j] = NoJob <=> job[j] = NoJob
  BY ReturnedType DEF TypeInv
<1>4. \A l \in Leases : lease[l] # NoLease => lease[l].job \in Jobs
  BY Present DEF TypeInv, LeaseRecord
<1>5. TypeOK'
  BY <1>2, <1>3 DEF TypeInv
<1>6. ReferencesHold'
  BY <1>2, <1>3, <1>4 DEF TypeInv, ReferencesHold
<1> QED
  BY <1>5, <1>6 DEF TypeInv

LEMMA TypeDispatchManual ==
  ASSUME TypeInv, NEW r \in Runs, NEW p \in Plans, NEW k \in Keys \cup {NoKey},
         DispatchManual(r, p, k), UNCHANGED <<worker, heartbeat, lease, attempt>>
  PROVE  TypeInv'
<1>1. <<r, 1>> \in Jobs
  BY LedgerAssumption DEF Jobs
<1>2. /\ run' = [run EXCEPT ![r] = [status |-> "PENDING", plan |-> p, key |-> k]]
      /\ job' = [job EXCEPT ![<<r, 1>>] = [status |-> "PENDING", wait |-> 0]]
  BY DEF DispatchManual, InsertRun
<1>3. /\ [status |-> "PENDING", plan |-> p, key |-> k] \in RunRecord
      /\ [status |-> "PENDING", wait |-> 0] \in JobRecord
  BY DEF RunRecord, JobRecord, RunStatus, JobStatus
<1>4. TypeOK'
  BY <1>2, <1>3 DEF TypeInv
<1>5. \A l \in Leases : lease[l] # NoLease => lease[l].job \in Jobs
  BY Present DEF TypeInv, LeaseRecord
<1>6. ReferencesHold'
  BY <1>1, <1>2, <1>3, <1>5, Absent DEF TypeInv, ReferencesHold, Jobs
<1> QED
  BY <1>4, <1>6 DEF TypeInv

LEMMA TypeCancel ==
  ASSUME TypeInv, NEW r \in Runs, Cancel(r), UNCHANGED <<worker, heartbeat, lease, attempt>>
  PROVE  TypeInv'
<1>1. run[r] \in RunRecord
  BY Present DEF Cancel, TypeInv
<1>2. /\ run' \in [Runs -> RunRecord \cup {NoRun}]
      /\ \A q \in Runs : run'[q] = NoRun => run[q] = NoRun
  BY <1>1, NewStatus, Absent DEF Cancel, TypeInv, RunStatus
<1>3. \A j \in Jobs : j \in JobsOf(r) => job[j] \in JobRecord
  BY Present DEF JobsOf, TypeInv
<1>4. /\ job' \in [Jobs -> JobRecord \cup {NoJob}]
      /\ \A j \in Jobs : job'[j] = NoJob <=> job[j] = NoJob
  BY <1>3, NewStatus, Absent DEF Cancel, TypeInv, JobStatus
<1>5. \A l \in Leases : lease[l] # NoLease => lease[l].job \in Jobs
  BY Present DEF TypeInv, LeaseRecord
<1>6. \A j \in Jobs : j[1] \in Runs
  BY DEF Jobs
<1>7. ReferencesHold'
  BY <1>2, <1>4, <1>5, <1>6 DEF TypeInv, ReferencesHold
<1> QED
  BY <1>2, <1>4, <1>7 DEF TypeInv

LEMMA TypeHeartbeat ==
  ASSUME TypeInv, NEW w \in Workers, NEW h \in Health, NEW S, Heartbeat(w, h, S),
         UNCHANGED attempt
  PROVE  TypeInv'
<1>1. [age |-> 0, health |-> h] \in HeartbeatRecord
  BY RegistryAssumption DEF HeartbeatRecord
<1> QED
  BY <1>1 DEF Heartbeat, TypeInv, ReferencesHold

\* Reaping and then leasing job j under a new lease, as claim and claimSpecific do.
LEMMA TypeClaimJob ==
  ASSUME TypeInv, NEW w \in Workers, NEW l \in Leases, NEW j \in Jobs,
         ReturnedToPending(ExpiredLeases)[j].status = "PENDING",
         ClaimJob(w, j, l, Closed(ExpiredLeases, "EXPIRED"), ReturnedToPending(ExpiredLeases)),
         UNCHANGED <<run, worker, heartbeat, attempt>>
  PROVE  TypeInv'
<1> DEFINE L == Closed(ExpiredLeases, "EXPIRED")
           J == ReturnedToPending(ExpiredLeases)
           new == [status |-> "ACTIVE", worker |-> w, job |-> j, ttl |-> LeaseDuration,
                   life |-> MaxLeaseLifetime, age |-> 0]
<1>1. /\ L \in [Leases -> LeaseRecord \cup {NoLease}]
      /\ \A m \in Leases : L[m] = NoLease <=> lease[m] = NoLease
      /\ \A m \in Leases : lease[m] # NoLease => L[m].job = lease[m].job
  <2>1. ExpiredLeases \subseteq {m \in Leases : lease[m] # NoLease}
    BY DEF ExpiredLeases, Expired, Active, NoLease
  <2> QED
    BY <2>1, ClosedType DEF TypeInv, LeaseStatus
<1>2. /\ J \in [Jobs -> JobRecord \cup {NoJob}]
      /\ \A i \in Jobs : J[i] = NoJob <=> job[i] = NoJob
  BY ReturnedType DEF TypeInv
<1>3. /\ lease' = [L EXCEPT ![l] = new]
      /\ job' = [J EXCEPT ![j].status = "LEASED"]
  BY DEF ClaimJob
<1>4. J[j] \in JobRecord
  BY <1>2 DEF NoJob
<1>5. new \in LeaseRecord
  BY RegistryAssumption DEF LeaseRecord, LeaseStatus
<1> HIDE DEF L, J, new
<1>6. [J[j] EXCEPT !.status = "LEASED"] \in JobRecord
  BY <1>4, NewStatus DEF JobStatus
<1>7. /\ lease' \in [Leases -> LeaseRecord \cup {NoLease}]
      /\ \A m \in Leases : m # l => lease'[m] = L[m]
      /\ lease'[l] = new
  BY <1>1, <1>3, <1>5
<1>8. /\ job' \in [Jobs -> JobRecord \cup {NoJob}]
      /\ \A i \in Jobs : job'[i] = NoJob <=> job[i] = NoJob
  BY <1>2, <1>3, <1>4, <1>6, Absent
<1>9. TypeOK'
  BY <1>7, <1>8 DEF TypeInv
<1>10. \A m \in Leases : lease[m] # NoLease => lease[m].job \in Jobs
  BY Present DEF TypeInv, LeaseRecord
<1>11. job'[j] # NoJob
  BY <1>2, <1>4, <1>8, Absent
<1>12. new.job = j
  BY DEF new
<1>13. new # NoLease
  BY <1>5, Absent
<1>14. ReferencesHold'
  BY <1>1, <1>7, <1>8, <1>10, <1>11, <1>12, <1>13 DEF TypeInv, ReferencesHold
<1> QED
  BY <1>9, <1>14 DEF TypeInv

\* reapExpired, or the reap a claim or a late renewal performs.
LEMMA TypeReap ==
  ASSUME TypeInv, Reap, UNCHANGED <<run, worker, heartbeat, attempt>>
  PROVE  TypeInv'
<1>1. ExpiredLeases \subseteq {l \in Leases : Active(l)}
  BY DEF ExpiredLeases, Expired
<1>2. worker' \in [Workers -> WorkerDefinitions]
  BY DEF TypeInv
<1> QED
  BY <1>1, <1>2, TypeClosing DEF Reap, LeaseStatus

LEMMA TypeUpdateWorker ==
  ASSUME TypeInv, NEW w \in Workers, NEW d \in WorkerDefinitions, UpdateWorker(w, d),
         UNCHANGED attempt
  PROVE  TypeInv'
<1> DEFINE revoked == IF d.desired = "DISABLED" THEN ActiveLeases(w) ELSE {}
<1>1. revoked \subseteq {l \in Leases : Active(l)}
  BY DEF ActiveLeases
<1>2. /\ lease' = Closed(revoked, "REVOKED") /\ job' = ReturnedToPending(revoked)
      /\ UNCHANGED <<run, heartbeat>>
  BY DEF UpdateWorker
<1>3. worker' \in [Workers -> WorkerDefinitions]
  BY DEF UpdateWorker, TypeInv
<1> QED
  BY <1>1, <1>2, <1>3, TypeClosing DEF LeaseStatus

LEMMA TypeRelease ==
  ASSUME TypeInv, NEW l \in Leases, ReleaseLease(l), UNCHANGED attempt
  PROVE  TypeInv'
<1>1. {l} \subseteq {m \in Leases : Active(m)}
  BY DEF ReleaseLease, OwnedActiveLease
<1>2. worker' \in [Workers -> WorkerDefinitions]
  BY DEF ReleaseLease, TypeInv
<1>3. /\ lease' = Closed({l}, "RELEASED") /\ job' = ReturnedToPending({l})
      /\ UNCHANGED <<run, heartbeat>>
  BY DEF ReleaseLease
<1> QED
  BY <1>1, <1>2, <1>3, TypeClosing DEF LeaseStatus

LEMMA TypeRenew ==
  ASSUME TypeInv, NEW l \in Leases, RenewLease(l), UNCHANGED attempt
  PROVE  TypeInv'
<1>1. CASE Reap
  BY <1>1, TypeReap DEF RenewLease
<1>2. CASE /\ lease' = [lease EXCEPT ![l].ttl = Lesser(LeaseDuration, lease[l].life)]
           /\ UNCHANGED job
  <2>1. lease[l] \in LeaseRecord
    BY Present DEF RenewLease, OwnedActiveLease, Active, TypeInv
  <2>2. Lesser(LeaseDuration, lease[l].life) \in 0 .. LeaseDuration
    BY <2>1, RegistryAssumption DEF LeaseRecord, Lesser
  <2> DEFINE x == [lease[l] EXCEPT !.ttl = Lesser(LeaseDuration, lease[l].life)]
  <2>3. x \in LeaseRecord /\ x.job = lease[l].job
    BY <2>1, <2>2 DEF LeaseRecord
  <2>4. lease' = [lease EXCEPT ![l] = x]
    BY <1>2
  <2> HIDE DEF x
  <2>5. TypeOK'
    BY <1>2, <2>3, <2>4 DEF RenewLease, TypeInv
  <2>6. \A m \in Leases : /\ lease'[m] = NoLease <=> lease[m] = NoLease
                          /\ lease[m] # NoLease => lease'[m].job = lease[m].job
    BY <2>1, <2>3, <2>4, Absent DEF TypeInv
  <2>7. ReferencesHold'
    BY <1>2, <2>6 DEF RenewLease, TypeInv, ReferencesHold
  <2> QED
    BY <2>5, <2>7 DEF TypeInv
<1> QED
  BY <1>1, <1>2 DEF RenewLease

LEMMA TypeClaim ==
  ASSUME TypeInv, NEW w \in Workers, Claim(w), UNCHANGED attempt
  PROVE  TypeInv'
<1> DEFINE L == Closed(ExpiredLeases, "EXPIRED")
           J == ReturnedToPending(ExpiredLeases)
<1>1. UNCHANGED <<run, worker, heartbeat>>
  BY DEF Claim
<1>2. PICK S \in CandidateSets(J) :
        \/ Reap
        \/ \E j \in Runnable(w, L, S), l \in Leases : ClaimJob(w, j, l, L, J)
  BY DEF Claim
<1>3. CASE Reap
  BY <1>1, <1>3, TypeReap
<1>4. CASE \E j \in Runnable(w, L, S), l \in Leases : ClaimJob(w, j, l, L, J)
  <2>1. PICK j \in Runnable(w, L, S), l \in Leases : ClaimJob(w, j, l, L, J)
    BY <1>4
  <2>2. j \in Jobs /\ J[j].status = "PENDING"
    BY <1>2 DEF Runnable, CandidateSets, Available
  <2> QED
    BY <1>1, <2>1, <2>2, TypeClaimJob
<1> QED
  BY <1>2, <1>3, <1>4

LEMMA TypeClaimSpecific ==
  ASSUME TypeInv, NEW w \in Workers, NEW j \in Jobs, ClaimSpecific(w, j), UNCHANGED attempt
  PROVE  TypeInv'
BY TypeClaimJob DEF ClaimSpecific, Available

LEMMA TypeClockTick ==
  ASSUME TypeInv, ClockTick, UNCHANGED attempt
  PROVE  TypeInv'
<1>1. /\ \A l \in Leases : lease'[l] \in LeaseRecord \cup {NoLease}
      /\ \A l \in Leases : lease'[l] = NoLease <=> lease[l] = NoLease
      /\ \A l \in Leases : lease[l] # NoLease => lease'[l].job = lease[l].job
  <2>1. \A l \in Leases : lease[l] # NoLease => Aged(lease[l]) \in LeaseRecord
    BY Present, AgedType DEF TypeInv
  <2>2. \A l \in Leases : Aged(lease[l]).job = lease[l].job
    BY DEF Aged
  <2> QED
    BY <2>1, <2>2, Absent DEF ClockTick
<1>2. /\ \A j \in Jobs : job'[j] \in JobRecord \cup {NoJob}
      /\ \A j \in Jobs : job'[j] = NoJob <=> job[j] = NoJob
  <2>1. \A j \in Jobs : job[j] # NoJob => [job[j] EXCEPT !.wait = Before(@)] \in JobRecord
    BY Present DEF TypeInv, JobRecord, Before
  <2> QED
    BY <2>1, Absent DEF ClockTick
<1>3. heartbeat' \in [Workers -> HeartbeatRecord]
  <2>1. ASSUME NEW w \in Workers
        PROVE [heartbeat[w] EXCEPT !.age = Lesser(@ + 1, HeartbeatFreshness + 1)]
                \in HeartbeatRecord
    <3>1. Lesser(heartbeat[w].age + 1, HeartbeatFreshness + 1) \in 0 .. (HeartbeatFreshness + 1)
      BY RegistryAssumption DEF TypeInv, HeartbeatRecord, Lesser
    <3> QED
      BY <3>1 DEF TypeInv, HeartbeatRecord
  <2> QED
    BY <2>1 DEF ClockTick
<1>4. \A l \in Leases : lease[l] # NoLease => lease[l].job \in Jobs
  BY Present DEF TypeInv, LeaseRecord
<1>5. TypeOK'
  BY <1>1, <1>2, <1>3 DEF ClockTick, TypeInv
<1>6. ReferencesHold'
  BY <1>1, <1>2, <1>4 DEF ClockTick, TypeInv, ReferencesHold
<1> QED
  BY <1>5, <1>6 DEF TypeInv

\* The rows behind a lease with an active context: the lease, its job, its run.
LEMMA ContextRows ==
  ASSUME TypeInv, NEW l \in Leases, lease[l] # NoLease
  PROVE  /\ lease[l] \in LeaseRecord
         /\ JobOf(l) \in Jobs /\ job[JobOf(l)] \in JobRecord
         /\ RunOf(l) \in Runs /\ run[RunOf(l)] \in RunRecord
         /\ JobOf(l) = <<RunOf(l), JobOf(l)[2]>> /\ JobOf(l)[2] \in 1 .. AttemptLimit
<1>1. lease[l] \in LeaseRecord /\ JobOf(l) \in Jobs
  BY Present DEF TypeInv, JobOf, LeaseRecord
<1>2. job[JobOf(l)] \in JobRecord
  BY <1>1, Present DEF TypeInv, ReferencesHold, JobOf
<1>3. /\ RunOf(l) \in Runs /\ JobOf(l) = <<RunOf(l), JobOf(l)[2]>>
      /\ JobOf(l)[2] \in 1 .. AttemptLimit
  BY <1>1 DEF Jobs, RunOf, JobOf
<1>4. run[RunOf(l)] \in RunRecord
  BY <1>1, <1>2, <1>3, Present, Absent DEF TypeInv, ReferencesHold, RunOf, JobOf
<1> QED
  BY <1>1, <1>2, <1>3, <1>4

\* What every request of the holder of lease l writes: its attempt, the status of
\* its job and of its run, and possibly its lease.
LEMMA TypeRequest ==
  ASSUME TypeInv, NEW l \in Leases, lease[l] # NoLease,
         NEW a \in AttemptRecord, NEW js \in JobStatus, NEW rs \in RunStatus,
         attempt' = [attempt EXCEPT ![l] = a],
         job' = [job EXCEPT ![JobOf(l)].status = js],
         run' = [run EXCEPT ![RunOf(l)].status = rs],
         lease' = lease \/ lease' = Closed({l}, "RELEASED"),
         UNCHANGED <<worker, heartbeat>>
  PROVE  TypeInv'
<1>1. /\ JobOf(l) \in Jobs /\ job[JobOf(l)] \in JobRecord
      /\ RunOf(l) \in Runs /\ run[RunOf(l)] \in RunRecord
  BY ContextRows
<1>2. /\ job' \in [Jobs -> JobRecord \cup {NoJob}]
      /\ \A j \in Jobs : job'[j] = NoJob <=> job[j] = NoJob
  BY <1>1, NewStatus, Absent DEF TypeInv
<1>3. /\ run' \in [Runs -> RunRecord \cup {NoRun}]
      /\ \A r \in Runs : run'[r] = NoRun <=> run[r] = NoRun
  BY <1>1, NewStatus, Absent DEF TypeInv
<1>4. /\ lease' \in [Leases -> LeaseRecord \cup {NoLease}]
      /\ \A m \in Leases : lease'[m] = NoLease <=> lease[m] = NoLease
      /\ \A m \in Leases : lease[m] # NoLease => lease'[m].job = lease[m].job
  <2>1. {l} \subseteq {m \in Leases : lease[m] # NoLease}
    OBVIOUS
  <2>2. /\ Closed({l}, "RELEASED") \in [Leases -> LeaseRecord \cup {NoLease}]
        /\ \A m \in Leases : Closed({l}, "RELEASED")[m] = NoLease <=> lease[m] = NoLease
        /\ \A m \in Leases : lease[m] # NoLease => Closed({l}, "RELEASED")[m].job = lease[m].job
    BY <2>1, ClosedType DEF TypeInv, LeaseStatus
  <2> QED
    BY <2>2 DEF TypeInv
<1>5. \A m \in Leases : attempt'[m] # NoAttempt => attempt[m] # NoAttempt \/ m = l
  BY DEF TypeInv
<1>6. \A m \in Leases : lease[m] # NoLease => lease[m].job \in Jobs
  BY Present DEF TypeInv, LeaseRecord
<1>7. \A j \in Jobs : j[1] \in Runs
  BY DEF Jobs
<1>8. TypeOK'
  BY <1>2, <1>3, <1>4 DEF TypeInv
<1>9. ReferencesHold'
  BY <1>2, <1>3, <1>4, <1>5, <1>6, <1>7 DEF TypeInv, ReferencesHold
<1> QED
  BY <1>8, <1>9 DEF TypeInv

LEMMA TypeStart ==
  ASSUME TypeInv, NEW l \in Leases, Start(l)
  PROVE  TypeInv'
<1>1. lease[l] # NoLease
  BY DEF Start, ActiveContext, OwnedActiveLease, Active, NoLease
<1>2. [status |-> "RUNNING", events |-> <<"STARTED">>] \in AttemptRecord
  BY DEF AttemptRecord, AttemptStatus, ActiveExecutionStates, EventType
<1> QED
  BY <1>1, <1>2, TypeRequest DEF Start, JobStatus, RunStatus

LEMMA TypeTransition ==
  ASSUME TypeInv, NEW l \in Leases, NEW expected \in {"RUNNING", "UPLOADING"},
         NEW target \in {"UPLOADING", "VERIFYING"}, Transition(l, expected, target)
  PROVE  TypeInv'
<1>1. lease[l] # NoLease
  BY DEF Transition, ActiveContext, OwnedActiveLease, Active, NoLease
<1>2. attempt[l] \in AttemptRecord
  BY Present DEF Transition, TypeInv
<1> DEFINE a == [status |-> target, events |-> Append(attempt[l].events, target)]
<1>3. a \in AttemptRecord
  BY <1>2, NewStatus DEF AttemptStatus, ActiveExecutionStates, EventType
<1>4. /\ attempt' = [attempt EXCEPT ![l] = a]
      /\ job' = [job EXCEPT ![JobOf(l)].status = target]
      /\ UNCHANGED <<run, worker, heartbeat, lease>>
  BY DEF Transition, Moved
<1>5. run[RunOf(l)] \in RunRecord
  BY <1>1, ContextRows
<1>6. run' = [run EXCEPT ![RunOf(l)].status = run[RunOf(l)].status]
      /\ run[RunOf(l)].status \in RunStatus
  BY <1>4, <1>5 DEF TypeInv, RunRecord
<1> HIDE DEF a
<1> QED
  BY <1>1, <1>3, <1>4, <1>6, TypeRequest DEF JobStatus

LEMMA TypeComplete ==
  ASSUME TypeInv, NEW l \in Leases, Complete(l)
  PROVE  TypeInv'
<1>1. lease[l] # NoLease
  BY DEF Complete, ActiveContext, OwnedActiveLease, Active, NoLease
<1>2. attempt[l] \in AttemptRecord
  BY Present DEF Complete, TypeInv
<1> DEFINE a == [status |-> "COMPLETED", events |-> Append(attempt[l].events, "COMPLETED")]
<1>3. a \in AttemptRecord
  BY <1>2, NewStatus DEF AttemptStatus, EventType
<1>4. attempt' = [attempt EXCEPT ![l] = a]
  BY DEF Complete, Moved
<1> HIDE DEF a
<1> QED
  BY <1>1, <1>3, <1>4, TypeRequest DEF Complete, JobStatus, RunStatus

\* A delay is a natural number, whatever the backoff policy.
LEMMA RetryDelaysNat == \A p \in Plans, n \in Nat : RetryDelays(p, n) \subseteq Nat
BY ExecutionAssumption DEF RetryDelays

LEMMA TypeFail ==
  ASSUME TypeInv, NEW l \in Leases, NEW retryable \in BOOLEAN, Fail(l, retryable)
  PROVE  TypeInv'
<1> DEFINE j == JobOf(l)
           p == PlanOf(j)
           next == <<j[1], j[2] + 1>>
           a == [status |-> "FAILED", events |-> Append(attempt[l].events, "FAILED")]
<1>1. lease[l] # NoLease
  BY DEF Fail, ActiveContext, OwnedActiveLease, Active, NoLease
<1>2. attempt[l] \in AttemptRecord
  BY Present DEF Fail, Executing, ActiveExecutionStates, TypeInv
<1>3. a \in AttemptRecord
  BY <1>2, NewStatus DEF AttemptStatus, EventType
<1>4. /\ attempt' = [attempt EXCEPT ![l] = a] /\ lease' = Closed({l}, "RELEASED")
      /\ UNCHANGED <<worker, heartbeat>>
  BY DEF Fail, Moved
<1>5. /\ j \in Jobs /\ job[j] \in JobRecord /\ j[2] \in 1 .. AttemptLimit
      /\ RunOf(l) \in Runs /\ RunOf(l) = j[1] /\ run[RunOf(l)] \in RunRecord
  BY <1>1, ContextRows DEF RunOf, JobOf
<1>6. CASE /\ retryable /\ j[2] < MaxAttempts[p]
           /\ \E d \in RetryDelays(p, j[2]) :
                job' = [job EXCEPT ![j].status = "RETRY",
                                   ![next] = [status |-> "PENDING", wait |-> d]]
           /\ run' = [run EXCEPT ![j[1]].status = "PENDING"]
  <2>1. PICK d \in RetryDelays(p, j[2]) :
          job' = [job EXCEPT ![j].status = "RETRY",
                             ![next] = [status |-> "PENDING", wait |-> d]]
    BY <1>6
  <2>2. p \in Plans
    BY <1>5 DEF PlanOf, RunRecord
  <2>3. d \in Nat
    BY <1>5, <2>2, RetryDelaysNat
  <2>4. next \in Jobs /\ next # j /\ next[1] = j[1]
    BY <1>5, <1>6, <2>2, LedgerAssumption DEF Jobs
  <2> DEFINE middle == [job EXCEPT ![j].status = "RETRY"]
             row == [status |-> "PENDING", wait |-> d]
  <2>5. row \in JobRecord
    BY <2>3 DEF JobRecord, JobStatus
  <2>6. /\ middle \in [Jobs -> JobRecord \cup {NoJob}]
        /\ \A i \in Jobs : middle[i] = NoJob <=> job[i] = NoJob
    BY <1>5, NewStatus, Absent DEF TypeInv, JobStatus
  <2>7. job' = [middle EXCEPT ![next] = row]
    BY <2>1
  <2> HIDE DEF middle, row
  <2>8. /\ job' \in [Jobs -> JobRecord \cup {NoJob}]
        /\ \A i \in Jobs : job'[i] = NoJob => job[i] = NoJob
        /\ \A i \in Jobs : i # next => (job'[i] = NoJob <=> job[i] = NoJob)
    BY <2>4, <2>5, <2>6, <2>7, Absent
  <2>9. /\ run' \in [Runs -> RunRecord \cup {NoRun}]
        /\ \A r \in Runs : run'[r] = NoRun <=> run[r] = NoRun
        /\ run'[j[1]] # NoRun
    <3> DEFINE x == [run[RunOf(l)] EXCEPT !.status = "PENDING"]
    <3>1. x \in RunRecord
      BY <1>5, NewStatus DEF RunStatus
    <3>2. run' = [run EXCEPT ![RunOf(l)] = x]
      BY <1>5, <1>6
    <3> HIDE DEF x
    <3> QED
      BY <1>5, <3>1, <3>2, Absent DEF TypeInv
  <2>10. /\ lease' \in [Leases -> LeaseRecord \cup {NoLease}]
         /\ \A m \in Leases : lease'[m] = NoLease <=> lease[m] = NoLease
         /\ \A m \in Leases : lease[m] # NoLease => lease'[m].job = lease[m].job
    <3>1. {l} \subseteq {m \in Leases : lease[m] # NoLease}
      BY <1>1
    <3>2. /\ Closed({l}, "RELEASED") \in [Leases -> LeaseRecord \cup {NoLease}]
          /\ \A m \in Leases : Closed({l}, "RELEASED")[m] = NoLease <=> lease[m] = NoLease
          /\ \A m \in Leases :
               lease[m] # NoLease => Closed({l}, "RELEASED")[m].job = lease[m].job
      BY <3>1, ClosedType DEF TypeInv, LeaseStatus
    <3> QED
      BY <3>2, <1>4
  <2>11. \A m \in Leases : lease[m] # NoLease => lease[m].job \in Jobs
    BY Present DEF TypeInv, LeaseRecord
  <2>12. \A i \in Jobs : i[1] \in Runs
    BY DEF Jobs
  <2> HIDE DEF a, j, p, next
  <2>13. \A m \in Leases : attempt'[m] # NoAttempt => attempt[m] # NoAttempt \/ m = l
    BY <1>4 DEF TypeInv
  <2>14. TypeOK'
    BY <1>3, <1>4, <2>8, <2>9, <2>10 DEF TypeInv
  <2>15. ReferencesHold'
    BY <1>1, <2>4, <2>8, <2>9, <2>10, <2>11, <2>12, <2>13 DEF TypeInv, ReferencesHold
  <2> QED
    BY <2>14, <2>15 DEF TypeInv
<1>7. CASE /\ \E s \in {"DEAD_LETTER", "FAILED"} : job' = [job EXCEPT ![JobOf(l)].status = s]
           /\ run' = [run EXCEPT ![RunOf(l)].status = "FAILED"]
  <2>1. PICK s \in {"DEAD_LETTER", "FAILED"} : job' = [job EXCEPT ![JobOf(l)].status = s]
    BY <1>7
  <2>2. run' = [run EXCEPT ![RunOf(l)].status = "FAILED"]
    BY <1>7
  <2> HIDE DEF a
  <2> QED
    BY <1>1, <1>3, <1>4, <2>1, <2>2, TypeRequest DEF JobStatus, RunStatus
<1> QED
  BY <1>6, <1>7 DEF Fail, RunOf, JobOf

LEMMA TypeReconcile ==
  ASSUME TypeInv, ReconcileExpired
  PROVE  TypeInv'
<1>1. \A l \in Orphaned : /\ attempt[l] \in AttemptRecord /\ lease[l] # NoLease
                          /\ job[JobOf(l)] \in JobRecord
                          /\ run[RunOf(l)] \in RunRecord
  <2> TAKE l \in Orphaned
  <2>1. l \in Leases /\ attempt[l] \in AttemptRecord
    BY Present DEF Orphaned, Executing, ActiveExecutionStates, TypeInv
  <2>2. lease[l] # NoLease
    BY <2>1, Absent DEF TypeInv, ReferencesHold
  <2> QED
    BY <2>1, <2>2, ContextRows
<1>2. /\ attempt' \in [Leases -> AttemptRecord \cup {NoAttempt}]
      /\ \A l \in Leases : attempt'[l] # NoAttempt => attempt[l] # NoAttempt
  BY <1>1, NewStatus, Absent DEF ReconcileExpired, TypeInv, AttemptStatus, EventType
<1>3. /\ job' \in [Jobs -> JobRecord \cup {NoJob}]
      /\ \A j \in Jobs : job'[j] = NoJob <=> job[j] = NoJob
  <2>1. \A j \in Jobs : (\E l \in Orphaned : JobOf(l) = j) =>
          job[j] # NoJob /\ [job[j] EXCEPT !.status = "FAILED"] \in JobRecord
    BY <1>1, NewStatus, Absent DEF JobStatus
  <2> QED
    BY <2>1, Absent DEF ReconcileExpired, TypeInv
<1>4. /\ run' \in [Runs -> RunRecord \cup {NoRun}]
      /\ \A r \in Runs : run'[r] = NoRun <=> run[r] = NoRun
  <2>1. \A r \in Runs : (\E l \in Orphaned : RunOf(l) = r) =>
          run[r] # NoRun /\ [run[r] EXCEPT !.status = "FAILED"] \in RunRecord
    BY <1>1, NewStatus, Absent DEF RunStatus
  <2> QED
    BY <2>1, Absent DEF ReconcileExpired, TypeInv
<1>5. /\ lease' \in [Leases -> LeaseRecord \cup {NoLease}]
      /\ \A m \in Leases : lease'[m] = NoLease <=> lease[m] = NoLease
      /\ \A m \in Leases : lease[m] # NoLease => lease'[m].job = lease[m].job
  <2> DEFINE S == {l \in Orphaned : Active(l)}
  <2>1. S \subseteq {m \in Leases : lease[m] # NoLease}
    BY <1>1 DEF Orphaned
  <2> HIDE DEF S
  <2>2. /\ Closed(S, "EXPIRED") \in [Leases -> LeaseRecord \cup {NoLease}]
        /\ \A m \in Leases : Closed(S, "EXPIRED")[m] = NoLease <=> lease[m] = NoLease
        /\ \A m \in Leases : lease[m] # NoLease => Closed(S, "EXPIRED")[m].job = lease[m].job
    BY <2>1, ClosedType DEF TypeInv, LeaseStatus
  <2> QED
    BY <2>2 DEF ReconcileExpired, S
<1>6. \A m \in Leases : lease[m] # NoLease => lease[m].job \in Jobs
  BY Present DEF TypeInv, LeaseRecord
<1>7. \A i \in Jobs : i[1] \in Runs
  BY DEF Jobs
<1>8. TypeOK'
  BY <1>2, <1>3, <1>4, <1>5 DEF TypeInv, ReconcileExpired
<1>9. ReferencesHold'
  BY <1>2, <1>3, <1>4, <1>5, <1>6, <1>7 DEF TypeInv, ReferencesHold
<1> QED
  BY <1>8, <1>9 DEF TypeInv

LEMMA TypeNext == TypeInv /\ [Next]_vars => TypeInv'
<1> SUFFICES ASSUME TypeInv, [Next]_vars PROVE TypeInv'
  OBVIOUS
<1>1. CASE LedgerStep
  BY <1>1, TypeDispatchManual, TypeCancel DEF LedgerStep
<1>2. CASE RegistryStep
  <2>1. UNCHANGED attempt
    BY <1>2 DEF RegistryStep
  <2>2. CASE \E w \in Workers, d \in WorkerDefinitions : UpdateWorker(w, d)
    BY <2>1, <2>2, TypeUpdateWorker
  <2>3. CASE \E w \in Workers, h \in Health, S \in SUBSET Leases : Heartbeat(w, h, S)
    BY <2>1, <2>3, TypeHeartbeat
  <2>4. CASE \E w \in Workers : Claim(w)
    BY <2>1, <2>4, TypeClaim
  <2>5. CASE \E w \in Workers, j \in Jobs : ClaimSpecific(w, j)
    BY <2>1, <2>5, TypeClaimSpecific
  <2>6. CASE \E l \in Leases : RenewLease(l) \/ ReleaseLease(l)
    BY <2>1, <2>6, TypeRenew, TypeRelease
  <2>7. CASE ReapExpired
    BY <2>1, <2>7, TypeReap DEF ReapExpired
  <2>8. CASE ClockTick
    BY <2>1, <2>8, TypeClockTick
  <2> QED
    BY <1>2, <2>2, <2>3, <2>4, <2>5, <2>6, <2>7, <2>8 DEF RegistryStep
<1>3. CASE ExecutionStep
  BY <1>3, TypeStart, TypeTransition, TypeComplete, TypeFail, TypeReconcile
     DEF ExecutionStep, MarkUploading, MarkVerifying
<1>4. CASE UNCHANGED vars
  BY <1>4 DEF vars, TypeInv, ReferencesHold
<1> QED
  BY <1>1, <1>2, <1>3, <1>4 DEF Next

\* Every table holds well-formed rows in every reachable state, and every
\* reference between rows is kept: no handler writes a status of the wrong
\* kind, a lease without its job or a timer outside its range.
THEOREM TypeCorrect == Spec => []TypeOK
<1>1. TypeInv => TypeOK
  BY DEF TypeInv
<1> QED
  BY <1>1, TypeInit, TypeNext, PTL DEF Spec

HIDE DEF TypeOK, RegistryTypeOK, LedgerTypeOK

-----------------------------------------------------------------------------
(* Runs, jobs, leases and attempts agree.                                  *)
(*                                                                         *)
(* A claim reaps before it leases, so what a reap preserves is stated of   *)
(* tables and not of the variables: J, L and A stand for jobs, leases and  *)
(* attempts.                                                               *)

Started == {"RUNNING", "UPLOADING", "VERIFYING", "COMPLETED", "FAILED", "RETRY", "DEAD_LETTER"}

\* The rows of the tables, as far as the agreement needs to know them.
Rows(J, L, A) ==
  /\ \A j \in Jobs : J[j].status \in JobStatus \cup {"NONE"}
  /\ \A l \in Leases : L[l].status # "NONE" => L[l].job \in Jobs
  /\ \A l \in Leases : L[l].status # "NONE" => J[L[l].job].status # "NONE"
  /\ \A l \in Leases : A[l].status \in AttemptStatus \cup {"NONE"}
  /\ \A l \in Leases : A[l].status # "NONE" => L[l].status # "NONE"

\* LeasesFollowJobs and AttemptsFollowJobs, and that a job some attempt was made
\* at has been started: it is never offered again.
Agree(J, L, A) ==
  /\ \A l, m \in Leases :
       L[l].status = "ACTIVE" /\ L[m].status = "ACTIVE" /\ L[l].job = L[m].job => l = m
  /\ \A l \in Leases : L[l].status = "ACTIVE" =>
       IF A[l].status = "NONE" THEN J[L[l].job].status = "LEASED"
                               ELSE A[l].status \in ActiveExecutionStates
  /\ \A j \in Jobs : J[j].status = "LEASED" =>
       \E l \in Leases : L[l].status = "ACTIVE" /\ L[l].job = j
  /\ \A l, m \in Leases :
       A[l].status # "NONE" /\ A[m].status # "NONE" /\ L[l].job = L[m].job => l = m
  /\ \A l \in Leases : A[l].status \in ActiveExecutionStates => J[L[l].job].status = A[l].status
  /\ \A j \in Jobs : J[j].status \in ActiveExecutionStates =>
       \E l \in Leases : A[l].status \in ActiveExecutionStates /\ L[l].job = j
  /\ \A l \in Leases : A[l].status # "NONE" => J[L[l].job].status \in Started

Agreement == Rows(job, lease, attempt) /\ Agree(job, lease, attempt)

\* What is typed has the rows.
LEMMA TypedRows == TypeInv => Rows(job, lease, attempt)
<1> SUFFICES ASSUME TypeInv PROVE Rows(job, lease, attempt)
  OBVIOUS
<1>1. \A j \in Jobs : job[j].status \in JobStatus \cup {"NONE"}
  BY DEF TypeInv, TypeOK, RegistryTypeOK, LedgerTypeOK, JobRecord, NoJob
<1>2. \A l \in Leases : /\ lease[l].status # "NONE" => lease[l] \in LeaseRecord
                        /\ lease[l].status # "NONE" => lease[l] # NoLease
  BY DEF TypeInv, TypeOK, RegistryTypeOK, NoLease
<1>3. \A l \in Leases : lease[l].status # "NONE" => lease[l].job \in Jobs
  BY <1>2 DEF LeaseRecord
<1>4. \A j \in Jobs : job[j] # NoJob => job[j].status # "NONE"
  BY DEF TypeInv, TypeOK, RegistryTypeOK, LedgerTypeOK, JobRecord, JobStatus
<1>5. \A l \in Leases : lease[l].status # "NONE" => job[lease[l].job].status # "NONE"
  BY <1>2, <1>3, <1>4 DEF TypeInv, ReferencesHold
<1>6. \A l \in Leases : /\ attempt[l].status \in AttemptStatus \cup {"NONE"}
                        /\ attempt[l].status # "NONE" => attempt[l] # NoAttempt
  BY DEF TypeInv, TypeOK, AttemptRecord, NoAttempt
<1>7. \A l \in Leases : lease[l] # NoLease => lease[l].status # "NONE"
  BY DEF TypeInv, TypeOK, RegistryTypeOK, LeaseRecord, LeaseStatus
<1>8. \A l \in Leases : attempt[l].status # "NONE" => lease[l].status # "NONE"
  BY <1>6, <1>7 DEF TypeInv, ReferencesHold
<1> QED
  BY <1>1, <1>3, <1>5, <1>6, <1>8 DEF Rows

\* Only the status of jobs, status and job of leases and status of attempts matter.
LEMMA SameAgree ==
  ASSUME NEW J, NEW L, NEW A, NEW JJ, NEW LL, NEW AA, Rows(J, L, A), Agree(J, L, A),
         \A j \in Jobs : JJ[j].status = J[j].status,
         \A l \in Leases : LL[l].status = L[l].status,
         \A l \in Leases : L[l].status # "NONE" => LL[l].job = L[l].job,
         \A l \in Leases : AA[l].status = A[l].status
  PROVE  Rows(JJ, LL, AA) /\ Agree(JJ, LL, AA)
<1>1. Rows(JJ, LL, AA)
  BY DEF Rows
<1>2. Agree(JJ, LL, AA)
  BY DEF Rows, Agree, ActiveExecutionStates
<1> QED BY <1>1, <1>2

\* Closing the leases of S and returning their jobs, from tables J, L to JJ, LL.
Closes(J, L, JJ, LL, S, s) ==
  /\ \A l \in Leases : LL[l].status = IF l \in S THEN s ELSE L[l].status
  /\ \A l \in Leases : L[l].status # "NONE" => LL[l].job = L[l].job
  /\ \A j \in Jobs : JJ[j].status =
       IF J[j].status = "LEASED" /\ \E l \in S : L[l].job = j THEN "PENDING" ELSE J[j].status

\* Closing active leases keeps the agreement.
LEMMA ClosingAgrees ==
  ASSUME NEW J, NEW L, NEW A, NEW JJ, NEW LL, Rows(J, L, A), Agree(J, L, A),
         NEW S, S \subseteq {l \in Leases : L[l].status = "ACTIVE"},
         NEW s \in {"RELEASED", "EXPIRED", "REVOKED"}, Closes(J, L, JJ, LL, S, s)
  PROVE  Rows(JJ, LL, A) /\ Agree(JJ, LL, A)
<1> USE DEF Closes
<1>1. Rows(JJ, LL, A)
  BY DEF Rows, JobStatus
<1>2. \A l \in Leases : LL[l].status = "ACTIVE" =>
        l \notin S /\ L[l].status = "ACTIVE" /\ LL[l].job = L[l].job /\ L[l].job \in Jobs
  BY DEF Rows
<1>3. \A l \in Leases : LL[l].status = "ACTIVE" => JJ[L[l].job].status = J[L[l].job].status
  BY <1>2 DEF Agree
<1>4. \A l \in Leases : A[l].status # "NONE" =>
        LL[l].job = L[l].job /\ L[l].job \in Jobs /\ JJ[L[l].job].status = J[L[l].job].status
  BY DEF Rows, Agree, Started
<1>5. \A j \in Jobs : JJ[j].status = "LEASED" =>
        \E l \in Leases : LL[l].status = "ACTIVE" /\ LL[l].job = j
  BY DEF Rows, Agree
<1>6. \A j \in Jobs : JJ[j].status \in ActiveExecutionStates => JJ[j].status = J[j].status
  BY DEF ActiveExecutionStates
<1>7. \A l \in Leases : A[l].status \in ActiveExecutionStates => A[l].status # "NONE"
  BY DEF ActiveExecutionStates
<1>8. \A l, m \in Leases :
        LL[l].status = "ACTIVE" /\ LL[m].status = "ACTIVE" /\ LL[l].job = LL[m].job => l = m
  BY <1>2 DEF Agree
<1>9. \A l \in Leases : LL[l].status = "ACTIVE" =>
        IF A[l].status = "NONE" THEN JJ[LL[l].job].status = "LEASED"
                                ELSE A[l].status \in ActiveExecutionStates
  BY <1>2, <1>3 DEF Agree
<1>10. \A l, m \in Leases :
         A[l].status # "NONE" /\ A[m].status # "NONE" /\ LL[l].job = LL[m].job => l = m
  BY <1>4 DEF Agree
<1>11. \A l \in Leases :
         A[l].status \in ActiveExecutionStates => JJ[LL[l].job].status = A[l].status
  BY <1>4, <1>7 DEF Agree
<1>12. \A j \in Jobs : JJ[j].status \in ActiveExecutionStates =>
         \E l \in Leases : A[l].status \in ActiveExecutionStates /\ LL[l].job = j
  BY <1>4, <1>6, <1>7 DEF Agree
<1>13. \A l \in Leases : A[l].status # "NONE" => JJ[LL[l].job].status \in Started
  BY <1>4 DEF Agree
<1> QED BY <1>1, <1>5, <1>8, <1>9, <1>10, <1>11, <1>12, <1>13 DEF Agree

\* Leasing a pending job under a new lease.
LEMMA LeasingAgrees ==
  ASSUME NEW J, NEW L, NEW A, NEW JJ, NEW LL, Rows(J, L, A), Agree(J, L, A),
         NEW l \in Leases, NEW j \in Jobs, L[l].status = "NONE", J[j].status = "PENDING",
         LL[l].status = "ACTIVE", LL[l].job = j,
         \A m \in Leases : m # l => LL[m] = L[m],
         JJ[j].status = "LEASED",
         \A i \in Jobs : i # j => JJ[i].status = J[i].status
  PROVE  Rows(JJ, LL, A) /\ Agree(JJ, LL, A)
<1>1. Rows(JJ, LL, A)
  BY DEF Rows, JobStatus
<1>2. A[l].status = "NONE"
  BY DEF Rows
<1>3. \A m \in Leases : m # l /\ LL[m].status = "ACTIVE" => L[m].job \in Jobs /\ L[m].job # j
  BY DEF Rows, Agree, ActiveExecutionStates
<1>4. \A m \in Leases : A[m].status # "NONE" => m # l /\ L[m].job \in Jobs /\ L[m].job # j
  BY <1>2 DEF Rows, Agree, Started
<1>5. \A m \in Leases : A[m].status \in ActiveExecutionStates => A[m].status # "NONE"
  BY DEF ActiveExecutionStates
<1>6. "LEASED" \notin ActiveExecutionStates
  BY DEF ActiveExecutionStates
<1>8. \A k, m \in Leases :
        LL[k].status = "ACTIVE" /\ LL[m].status = "ACTIVE" /\ LL[k].job = LL[m].job => k = m
  BY <1>3 DEF Agree
<1>9. \A m \in Leases : LL[m].status = "ACTIVE" =>
        IF A[m].status = "NONE" THEN JJ[LL[m].job].status = "LEASED"
                                ELSE A[m].status \in ActiveExecutionStates
  BY <1>2, <1>3 DEF Agree
<1>10. \A k, m \in Leases :
         A[k].status # "NONE" /\ A[m].status # "NONE" /\ LL[k].job = LL[m].job => k = m
  BY <1>4 DEF Agree
<1>11. \A m \in Leases :
         A[m].status \in ActiveExecutionStates => JJ[LL[m].job].status = A[m].status
  BY <1>4, <1>5 DEF Agree
<1>12. \A i \in Jobs : JJ[i].status \in ActiveExecutionStates =>
         \E m \in Leases : A[m].status \in ActiveExecutionStates /\ LL[m].job = i
  BY <1>4, <1>5, <1>6 DEF Agree
<1>13. \A m \in Leases : A[m].status # "NONE" => JJ[LL[m].job].status \in Started
  BY <1>4 DEF Agree
<1>14. \A i \in Jobs : JJ[i].status = "LEASED" =>
         \E m \in Leases : LL[m].status = "ACTIVE" /\ LL[m].job = i
  BY DEF Agree
<1> QED BY <1>1, <1>8, <1>9, <1>10, <1>11, <1>12, <1>13, <1>14 DEF Agree

\* Adding jobs and withdrawing pending ones.
Offers(J, JJ) ==
  \A j \in Jobs : \/ JJ[j].status = J[j].status
                  \/ J[j].status = "NONE" /\ JJ[j].status = "PENDING"
                  \/ J[j].status = "PENDING" /\ JJ[j].status = "CANCELLED"

\* Neither touches what is leased or was started.
LEMMA OfferingAgrees ==
  ASSUME NEW J, NEW L, NEW A, NEW JJ, Rows(J, L, A), Agree(J, L, A),
         Offers(J, JJ)
  PROVE  Rows(JJ, L, A) /\ Agree(JJ, L, A)
<1> USE DEF Offers
<1>1. Rows(JJ, L, A)
  BY DEF Rows, JobStatus
<1>2. \A j \in Jobs : J[j].status \in Started \cup {"LEASED"} => JJ[j].status = J[j].status
  BY DEF Started
<1>3. \A j \in Jobs : JJ[j].status \in ActiveExecutionStates \cup {"LEASED"}
        => JJ[j].status = J[j].status
  BY DEF ActiveExecutionStates
<1>4. \A l \in Leases : A[l].status # "NONE" =>
        L[l].job \in Jobs /\ JJ[L[l].job].status = J[L[l].job].status
  BY <1>2 DEF Rows, Agree
<1>5. \A l \in Leases : L[l].status = "ACTIVE" => L[l].job \in Jobs
  BY DEF Rows
<1>6. \A l \in Leases : A[l].status \in ActiveExecutionStates => A[l].status # "NONE"
  BY DEF ActiveExecutionStates
<1>7. Agree(JJ, L, A)
  BY <1>2, <1>3, <1>4, <1>5, <1>6 DEF Agree
<1> QED BY <1>1, <1>7

\* A request of the holder of lease l: its attempt goes to stage a, its job to
\* stage s, the next job may be added, and the lease stays exactly while the
\* attempt goes on.
Requests(J, L, A, JJ, LL, AA, l, a, s) ==
  /\ AA[l].status = a
  /\ \A m \in Leases : m # l => AA[m].status = A[m].status
  /\ JJ[L[l].job].status = s
  /\ \A j \in Jobs : j # L[l].job =>
       JJ[j].status = J[j].status \/ (J[j].status = "NONE" /\ JJ[j].status = "PENDING")
  /\ \A m \in Leases : L[m].status # "NONE" => LL[m].job = L[m].job
  /\ \A m \in Leases : m # l => LL[m].status = L[m].status
  /\ \/ a \in ActiveExecutionStates /\ s = a /\ LL[l].status = "ACTIVE"
     \/ /\ a \notin ActiveExecutionStates /\ s \notin ActiveExecutionStates
        /\ LL[l].status = "RELEASED"

\* A request keeps the agreement.
LEMMA RequestAgrees ==
  ASSUME NEW J, NEW L, NEW A, NEW JJ, NEW LL, NEW AA, Rows(J, L, A), Agree(J, L, A),
         NEW l \in Leases, L[l].status = "ACTIVE", NEW a \in AttemptStatus, NEW s \in Started,
         Requests(J, L, A, JJ, LL, AA, l, a, s)
  PROVE  Rows(JJ, LL, AA) /\ Agree(JJ, LL, AA)
<1> USE DEF Requests
<1> DEFINE j == L[l].job
<1>0. j \in Jobs
  BY DEF Rows
<1>1. Rows(JJ, LL, AA)
  BY DEF Rows, JobStatus, Started, AttemptStatus, ActiveExecutionStates
<1>2. a # "NONE" /\ s # "LEASED" /\ s # "NONE"
  BY DEF AttemptStatus, ActiveExecutionStates, Started
<1>3. \A m \in Leases : m # l /\ L[m].status = "ACTIVE" =>
        L[m].job \in Jobs /\ L[m].job # j /\ J[L[m].job].status # "NONE"
        /\ JJ[L[m].job].status = J[L[m].job].status
  BY DEF Rows, Agree
<1>4. A[l].status # "NONE" \/ J[j].status = "LEASED"
  BY DEF Agree
<1>5. \A m \in Leases : m # l /\ A[m].status # "NONE" =>
        L[m].job \in Jobs /\ L[m].job # j /\ L[m].status # "NONE"
        /\ JJ[L[m].job].status = J[L[m].job].status
  BY <1>4 DEF Rows, Agree, Started
<1>6. \A m \in Leases : A[m].status \in ActiveExecutionStates => A[m].status # "NONE"
  BY DEF ActiveExecutionStates
<1>7. "PENDING" \notin ActiveExecutionStates /\ "PENDING" # "LEASED"
  BY DEF ActiveExecutionStates
<1>8. \A k, m \in Leases :
        LL[k].status = "ACTIVE" /\ LL[m].status = "ACTIVE" /\ LL[k].job = LL[m].job => k = m
  BY <1>3 DEF Agree
<1>9. \A m \in Leases : LL[m].status = "ACTIVE" =>
        IF AA[m].status = "NONE" THEN JJ[LL[m].job].status = "LEASED"
                                 ELSE AA[m].status \in ActiveExecutionStates
  BY <1>2, <1>3 DEF Agree
<1>10. \A k, m \in Leases :
         AA[k].status # "NONE" /\ AA[m].status # "NONE" /\ LL[k].job = LL[m].job => k = m
  BY <1>5 DEF Agree
<1>11. \A m \in Leases :
         AA[m].status \in ActiveExecutionStates => JJ[LL[m].job].status = AA[m].status
  BY <1>5, <1>6 DEF Agree
<1>12. \A i \in Jobs : JJ[i].status \in ActiveExecutionStates =>
         \E m \in Leases : AA[m].status \in ActiveExecutionStates /\ LL[m].job = i
  <2> SUFFICES ASSUME NEW i \in Jobs, JJ[i].status \in ActiveExecutionStates
               PROVE  \E m \in Leases : AA[m].status \in ActiveExecutionStates /\ LL[m].job = i
    OBVIOUS
  <2>1. CASE i = j
    BY <2>1
  <2>2. CASE i # j
    <3>1. J[i].status \in ActiveExecutionStates
      BY <2>2, <1>7
    <3>2. PICK m \in Leases : A[m].status \in ActiveExecutionStates /\ L[m].job = i
      BY <3>1 DEF Agree
    <3> QED
      BY <2>2, <3>2, <1>5, <1>6
  <2> QED BY <2>1, <2>2
<1>13. \A m \in Leases : AA[m].status # "NONE" => JJ[LL[m].job].status \in Started
  BY <1>5 DEF Agree
<1>14. \A i \in Jobs : JJ[i].status = "LEASED" =>
         \E m \in Leases : LL[m].status = "ACTIVE" /\ LL[m].job = i
  <2> SUFFICES ASSUME NEW i \in Jobs, JJ[i].status = "LEASED"
               PROVE  \E m \in Leases : LL[m].status = "ACTIVE" /\ LL[m].job = i
    OBVIOUS
  <2>1. i # j /\ J[i].status = "LEASED"
    BY <1>2
  <2>2. PICK m \in Leases : L[m].status = "ACTIVE" /\ L[m].job = i
    BY <2>1 DEF Agree
  <2> QED BY <2>1, <2>2
<1> QED BY <1>1, <1>8, <1>9, <1>10, <1>11, <1>12, <1>13, <1>14 DEF Agree

\* Giving up executions together: their attempts and jobs fail, their leases end.
GivesUp(J, L, A, JJ, LL, AA, S) ==
  /\ \A l \in Leases : AA[l].status = IF l \in S THEN "FAILED" ELSE A[l].status
  /\ \A l \in Leases : L[l].status # "NONE" => LL[l].job = L[l].job
  /\ \A l \in Leases : LL[l].status =
       IF l \in S /\ L[l].status = "ACTIVE" THEN "EXPIRED" ELSE L[l].status
  /\ \A j \in Jobs : JJ[j].status =
       IF \E l \in S : L[l].job = j THEN "FAILED" ELSE J[j].status

\* Giving up keeps the agreement.
LEMMA GivingUpAgrees ==
  ASSUME NEW J, NEW L, NEW A, NEW JJ, NEW LL, NEW AA, Rows(J, L, A), Agree(J, L, A),
         NEW S, S \subseteq {l \in Leases : A[l].status \in ActiveExecutionStates},
         GivesUp(J, L, A, JJ, LL, AA, S)
  PROVE  Rows(JJ, LL, AA) /\ Agree(JJ, LL, AA)
<1> USE DEF GivesUp
<1>1. Rows(JJ, LL, AA)
  <2>1. \A j \in Jobs : JJ[j].status \in JobStatus \cup {"NONE"}
    BY DEF Rows, JobStatus
  <2>2. \A l \in Leases : AA[l].status \in AttemptStatus \cup {"NONE"}
    BY DEF Rows, AttemptStatus
  <2>3. \A l \in Leases : LL[l].status # "NONE" => L[l].status # "NONE"
    OBVIOUS
  <2>4. \A l \in Leases : L[l].status # "NONE" => LL[l].status # "NONE"
    OBVIOUS
  <2>5. \A l \in Leases : AA[l].status # "NONE" => A[l].status # "NONE"
    BY DEF ActiveExecutionStates
  <2>6. \A j \in Jobs : J[j].status # "NONE" => JJ[j].status # "NONE"
    OBVIOUS
  <2> QED BY <2>1, <2>2, <2>3, <2>4, <2>5, <2>6 DEF Rows
<1>2. \A l \in S : /\ A[l].status # "NONE" /\ L[l].status # "NONE"
                   /\ L[l].job \in Jobs /\ J[L[l].job].status \in ActiveExecutionStates
  BY DEF Rows, Agree, ActiveExecutionStates
<1>3. \A l \in Leases : LL[l].status = "ACTIVE" =>
        l \notin S /\ L[l].status = "ACTIVE" /\ LL[l].job = L[l].job /\ L[l].job \in Jobs
  BY DEF Rows
<1>4. \A j \in Jobs : J[j].status = "LEASED" => JJ[j].status = "LEASED"
  BY <1>2 DEF ActiveExecutionStates
<1>5. \A l \in Leases : l \notin S /\ A[l].status # "NONE" =>
        /\ L[l].job \in Jobs /\ LL[l].job = L[l].job
        /\ JJ[L[l].job].status = J[L[l].job].status
  BY <1>2 DEF Rows, Agree
<1>6. \A l \in Leases : A[l].status \in ActiveExecutionStates => A[l].status # "NONE"
  BY DEF ActiveExecutionStates
<1>7. "FAILED" \notin ActiveExecutionStates /\ "FAILED" \in Started
  BY DEF ActiveExecutionStates, Started
<1>8. \A k, m \in Leases :
        LL[k].status = "ACTIVE" /\ LL[m].status = "ACTIVE" /\ LL[k].job = LL[m].job => k = m
  BY <1>3 DEF Agree
<1>9. \A m \in Leases : LL[m].status = "ACTIVE" =>
        IF AA[m].status = "NONE" THEN JJ[LL[m].job].status = "LEASED"
                                 ELSE AA[m].status \in ActiveExecutionStates
  BY <1>3, <1>4 DEF Agree
<1>10. \A k, m \in Leases :
         AA[k].status # "NONE" /\ AA[m].status # "NONE" /\ LL[k].job = LL[m].job => k = m
  <2>1. \A m \in Leases : AA[m].status # "NONE" => A[m].status # "NONE" /\ LL[m].job = L[m].job
    BY <1>2, <1>5
  <2> QED BY <2>1 DEF Agree
<1>11. \A m \in Leases :
         AA[m].status \in ActiveExecutionStates => JJ[LL[m].job].status = AA[m].status
  BY <1>5, <1>6, <1>7 DEF Agree
<1>12. \A i \in Jobs : JJ[i].status \in ActiveExecutionStates =>
         \E m \in Leases : AA[m].status \in ActiveExecutionStates /\ LL[m].job = i
  <2> SUFFICES ASSUME NEW i \in Jobs, JJ[i].status \in ActiveExecutionStates
               PROVE  \E m \in Leases : AA[m].status \in ActiveExecutionStates /\ LL[m].job = i
    OBVIOUS
  <2>1. J[i].status \in ActiveExecutionStates /\ ~\E m \in S : L[m].job = i
    BY <1>7
  <2>2. PICK m \in Leases : A[m].status \in ActiveExecutionStates /\ L[m].job = i
    BY <2>1 DEF Agree
  <2> QED BY <2>1, <2>2, <1>5, <1>6
<1>13. \A m \in Leases : AA[m].status # "NONE" => JJ[LL[m].job].status \in Started
  BY <1>2, <1>5, <1>7 DEF Agree
<1>14. \A i \in Jobs : JJ[i].status = "LEASED" =>
         \E m \in Leases : LL[m].status = "ACTIVE" /\ LL[m].job = i
  <2> SUFFICES ASSUME NEW i \in Jobs, JJ[i].status = "LEASED"
               PROVE  \E m \in Leases : LL[m].status = "ACTIVE" /\ LL[m].job = i
    OBVIOUS
  <2>1. J[i].status = "LEASED"
    OBVIOUS
  <2>2. PICK m \in Leases : L[m].status = "ACTIVE" /\ L[m].job = i
    BY <2>1 DEF Agree
  <2>3. m \notin S
    BY <2>1, <2>2, <1>2 DEF ActiveExecutionStates
  <2> QED BY <2>2, <2>3 DEF Rows
<1> QED BY <1>1, <1>8, <1>9, <1>10, <1>11, <1>12, <1>13, <1>14 DEF Agree

-----------------------------------------------------------------------------
(* The jobs of one run r, in the tables R of runs and J of jobs. *)

Live == {"PENDING", "LEASED"} \cup ActiveExecutionStates

RunAgrees(R, J, r) ==
  IF R[r].status = "NONE" THEN \A i \in 1 .. AttemptLimit : J[<<r, i>>].status = "NONE"
  ELSE \E n \in 1 .. MaxAttempts[R[r].plan] :
    /\ \A i \in 1 .. AttemptLimit : J[<<r, i>>].status = "NONE" <=> i > n
    /\ \A i \in 1 .. (n - 1) : J[<<r, i>>].status = "RETRY"
    /\ LastJobAgrees(R[r].status, J[<<r, n>>].status)
    /\ J[<<r, n>>].status = "DEAD_LETTER" => n = MaxAttempts[R[r].plan]

RunRow(R, r) == R[r].status # "NONE" => R[r].status \in RunStatus /\ R[r].plan \in Plans

\* Only the last job of a run is live, and it is where the run is.
LEMMA LiveIsLast ==
  ASSUME NEW R, NEW J, NEW r, RunRow(R, r), RunAgrees(R, J, r),
         NEW i \in 1 .. AttemptLimit, J[<<r, i>>].status \in Live
  PROVE  /\ R[r].status # "NONE" /\ i <= MaxAttempts[R[r].plan]
         /\ \A k \in 1 .. AttemptLimit : J[<<r, k>>].status = "NONE" <=> k > i
         /\ \A k \in 1 .. (i - 1) : J[<<r, k>>].status = "RETRY"
         /\ J[<<r, i>>].status \in {"PENDING", "LEASED"} => R[r].status = "PENDING"
         /\ J[<<r, i>>].status \in ActiveExecutionStates => R[r].status = "RUNNING"
<1>1. R[r].status # "NONE"
  BY DEF RunAgrees, Live, ActiveExecutionStates
<1>2. MaxAttempts[R[r].plan] \in 1 .. AttemptLimit
  BY <1>1, LedgerAssumption DEF RunRow
<1>3. PICK n \in 1 .. MaxAttempts[R[r].plan] :
        /\ \A k \in 1 .. AttemptLimit : J[<<r, k>>].status = "NONE" <=> k > n
        /\ \A k \in 1 .. (n - 1) : J[<<r, k>>].status = "RETRY"
        /\ LastJobAgrees(R[r].status, J[<<r, n>>].status)
  BY <1>1 DEF RunAgrees
<1>4. i = n
  <2>1. ~(i > n)
    BY <1>3 DEF Live, ActiveExecutionStates
  <2>2. ~(i < n)
    <3>1. i < n => J[<<r, i>>].status = "RETRY"
      BY <1>2, <1>3, LedgerAssumption
    <3> QED BY <3>1 DEF Live, ActiveExecutionStates
  <2> QED BY <1>2, <1>3, <2>1, <2>2, LedgerAssumption
<1>5. /\ J[<<r, i>>].status \in {"PENDING", "LEASED"} => R[r].status = "PENDING"
      /\ J[<<r, i>>].status \in ActiveExecutionStates => R[r].status = "RUNNING"
  BY <1>1, <1>3, <1>4 DEF LastJobAgrees, RunRow, RunStatus, Live, ActiveExecutionStates
<1> QED BY <1>1, <1>2, <1>3, <1>4, <1>5, LedgerAssumption

\* Reserving jobs and giving them back leaves the run where it is.
LEMMA ReservingKeeps ==
  ASSUME NEW R, NEW J, NEW RR, NEW JJ, NEW r, RunRow(R, r), RunAgrees(R, J, r),
         RR[r].status = R[r].status, R[r].status # "NONE" => RR[r].plan = R[r].plan,
         \A i \in 1 .. AttemptLimit :
           \/ JJ[<<r, i>>].status = J[<<r, i>>].status
           \/ {JJ[<<r, i>>].status, J[<<r, i>>].status} \subseteq {"PENDING", "LEASED"}
  PROVE  RunAgrees(RR, JJ, r)
<1>1. CASE R[r].status = "NONE"
  BY <1>1 DEF RunAgrees
<1>2. CASE R[r].status # "NONE"
  <2>1. MaxAttempts[R[r].plan] \in 1 .. AttemptLimit
    BY <1>2, LedgerAssumption DEF RunRow
  <2>2. PICK n \in 1 .. MaxAttempts[R[r].plan] :
          /\ \A k \in 1 .. AttemptLimit : J[<<r, k>>].status = "NONE" <=> k > n
          /\ \A k \in 1 .. (n - 1) : J[<<r, k>>].status = "RETRY"
          /\ LastJobAgrees(R[r].status, J[<<r, n>>].status)
          /\ J[<<r, n>>].status = "DEAD_LETTER" => n = MaxAttempts[R[r].plan]
    BY <1>2 DEF RunAgrees
  <2>3. n \in 1 .. AttemptLimit /\ \A k \in 1 .. (n - 1) : k \in 1 .. AttemptLimit
    BY <2>1, LedgerAssumption
  <2>4. \A k \in 1 .. AttemptLimit : JJ[<<r, k>>].status = "NONE" <=> k > n
    BY <2>2
  <2>5. \A k \in 1 .. (n - 1) : JJ[<<r, k>>].status = "RETRY"
    BY <2>2, <2>3
  <2>6. LastJobAgrees(R[r].status, JJ[<<r, n>>].status)
    BY <2>2, <2>3 DEF LastJobAgrees, ActiveExecutionStates
  <2>7. JJ[<<r, n>>].status = "DEAD_LETTER" => n = MaxAttempts[R[r].plan]
    BY <2>2, <2>3
  <2> QED
    BY <1>2, <2>4, <2>5, <2>6, <2>7 DEF RunAgrees
<1> QED BY <1>1, <1>2

\* Moving the live job and its run together.
LEMMA MovingKeeps ==
  ASSUME NEW R, NEW J, NEW RR, NEW JJ, NEW r, RunRow(R, r), RunAgrees(R, J, r),
         NEW i \in 1 .. AttemptLimit, J[<<r, i>>].status \in Live,
         RR[r].status # "NONE", RR[r].plan = R[r].plan,
         \A k \in 1 .. AttemptLimit : k # i => JJ[<<r, k>>].status = J[<<r, k>>].status,
         JJ[<<r, i>>].status # "NONE",
         LastJobAgrees(RR[r].status, JJ[<<r, i>>].status),
         JJ[<<r, i>>].status = "DEAD_LETTER" => i = MaxAttempts[R[r].plan]
  PROVE  RunAgrees(RR, JJ, r)
<1>1. /\ R[r].status # "NONE" /\ i <= MaxAttempts[R[r].plan]
      /\ \A k \in 1 .. AttemptLimit : J[<<r, k>>].status = "NONE" <=> k > i
      /\ \A k \in 1 .. (i - 1) : J[<<r, k>>].status = "RETRY"
  BY LiveIsLast
<1>2. i \in 1 .. MaxAttempts[RR[r].plan]
  BY <1>1, LedgerAssumption DEF RunRow
<1>3. \A k \in 1 .. AttemptLimit : JJ[<<r, k>>].status = "NONE" <=> k > i
  BY <1>1, LedgerAssumption
<1>4. \A k \in 1 .. (i - 1) : JJ[<<r, k>>].status = "RETRY"
  BY <1>1, LedgerAssumption
<1> QED BY <1>2, <1>3, <1>4 DEF RunAgrees

\* Ending the live job in RETRY and adding the next one.
LEMMA RetryingKeeps ==
  ASSUME NEW R, NEW J, NEW RR, NEW JJ, NEW r, RunRow(R, r), RunAgrees(R, J, r),
         NEW i \in 1 .. AttemptLimit, J[<<r, i>>].status \in Live,
         i < MaxAttempts[R[r].plan],
         RR[r].status = "PENDING", RR[r].plan = R[r].plan,
         JJ[<<r, i>>].status = "RETRY", JJ[<<r, i + 1>>].status = "PENDING",
         \A k \in 1 .. AttemptLimit :
           k # i /\ k # i + 1 => JJ[<<r, k>>].status = J[<<r, k>>].status
  PROVE  RunAgrees(RR, JJ, r)
<1>1. /\ R[r].status # "NONE"
      /\ \A k \in 1 .. AttemptLimit : J[<<r, k>>].status = "NONE" <=> k > i
      /\ \A k \in 1 .. (i - 1) : J[<<r, k>>].status = "RETRY"
  BY LiveIsLast
<1>2. MaxAttempts[R[r].plan] \in 1 .. AttemptLimit
  BY <1>1, LedgerAssumption DEF RunRow
<1>3. i + 1 \in 1 .. MaxAttempts[RR[r].plan] /\ i + 1 \in 1 .. AttemptLimit
  BY <1>2, LedgerAssumption
<1>4. \A k \in 1 .. AttemptLimit : JJ[<<r, k>>].status = "NONE" <=> k > i + 1
  <2> SUFFICES ASSUME NEW k \in 1 .. AttemptLimit
               PROVE  JJ[<<r, k>>].status = "NONE" <=> k > i + 1
    OBVIOUS
  <2>1. CASE k = i
    BY <2>1, LedgerAssumption
  <2>2. CASE k = i + 1
    BY <2>2, LedgerAssumption
  <2>3. CASE k # i /\ k # i + 1
    BY <1>1, <2>3, LedgerAssumption
  <2> QED BY <2>1, <2>2, <2>3
<1>5. \A k \in 1 .. i : JJ[<<r, k>>].status = "RETRY"
  <2> SUFFICES ASSUME NEW k \in 1 .. i PROVE JJ[<<r, k>>].status = "RETRY"
    OBVIOUS
  <2>1. CASE k = i
    BY <2>1
  <2>2. CASE k # i
    <3>1. k \in 1 .. AttemptLimit /\ k \in 1 .. (i - 1) /\ k # i + 1
      BY <2>2, LedgerAssumption
    <3> QED BY <3>1, <2>2, <1>1
  <2> QED BY <2>1, <2>2
<1>6. (i + 1) - 1 = i
  BY LedgerAssumption
<1>7. LastJobAgrees("PENDING", "PENDING")
  BY DEF LastJobAgrees
<1> QED BY <1>3, <1>4, <1>5, <1>6, <1>7 DEF RunAgrees

\* The same for all runs, when only one job and its run are written.
Moves(R, J, RR, JJ, r, i) ==
  /\ RR[r].status # "NONE" /\ RR[r].plan = R[r].plan
  /\ JJ[<<r, i>>].status # "NONE"
  /\ \A q \in Runs : q # r => RR[q] = R[q]
  /\ \A j \in Jobs : j # <<r, i>> => JJ[j] = J[j]
  /\ LastJobAgrees(RR[r].status, JJ[<<r, i>>].status)
  /\ JJ[<<r, i>>].status = "DEAD_LETTER" => i = MaxAttempts[R[r].plan]

LEMMA MovingKeepsAll ==
  ASSUME NEW R, NEW J, NEW RR, NEW JJ, \A q \in Runs : RunRow(R, q) /\ RunAgrees(R, J, q),
         NEW r \in Runs, NEW i \in 1 .. AttemptLimit, J[<<r, i>>].status \in Live,
         Moves(R, J, RR, JJ, r, i)
  PROVE  \A q \in Runs : RunAgrees(RR, JJ, q)
<1> SUFFICES ASSUME NEW q \in Runs PROVE RunAgrees(RR, JJ, q)
  OBVIOUS
<1>1. CASE q # r
  <2>1. \A k \in 1 .. AttemptLimit : JJ[<<q, k>>].status = J[<<q, k>>].status
    BY <1>1 DEF Jobs, Moves
  <2>2. RR[q].status = R[q].status /\ RR[q].plan = R[q].plan
    BY <1>1 DEF Moves
  <2> QED BY <2>1, <2>2, ReservingKeeps
<1>2. CASE q = r
  <2>1. \A k \in 1 .. AttemptLimit : k # i => JJ[<<r, k>>].status = J[<<r, k>>].status
    BY DEF Jobs, Moves
  <2>2. RunRow(R, r) /\ RunAgrees(R, J, r)
    OBVIOUS
  <2>3. RunAgrees(RR, JJ, r)
    BY <2>1, <2>2, MovingKeeps DEF Moves
  <2> QED BY <1>2, <2>3
<1> QED BY <1>1, <1>2

\* Retrying, with all the other runs.
Retries(R, J, RR, JJ, r, i) ==
  /\ RR[r].status = "PENDING" /\ RR[r].plan = R[r].plan
  /\ JJ[<<r, i>>].status = "RETRY" /\ JJ[<<r, i + 1>>].status = "PENDING"
  /\ \A q \in Runs : q # r => RR[q] = R[q]
  /\ \A j \in Jobs : j # <<r, i>> /\ j # <<r, i + 1>> => JJ[j] = J[j]

LEMMA RetryingKeepsAll ==
  ASSUME NEW R, NEW J, NEW RR, NEW JJ, \A q \in Runs : RunRow(R, q) /\ RunAgrees(R, J, q),
         NEW r \in Runs, NEW i \in 1 .. AttemptLimit, J[<<r, i>>].status \in Live,
         i < MaxAttempts[R[r].plan], Retries(R, J, RR, JJ, r, i)
  PROVE  \A q \in Runs : RunAgrees(RR, JJ, q)
<1> SUFFICES ASSUME NEW q \in Runs PROVE RunAgrees(RR, JJ, q)
  OBVIOUS
<1>1. CASE q # r
  <2>1. \A k \in 1 .. AttemptLimit : JJ[<<q, k>>].status = J[<<q, k>>].status
    BY <1>1 DEF Jobs, Retries
  <2>2. RR[q].status = R[q].status /\ RR[q].plan = R[q].plan
    BY <1>1 DEF Retries
  <2> QED BY <2>1, <2>2, ReservingKeeps
<1>2. CASE q = r
  <2>1. \A k \in 1 .. AttemptLimit :
          k # i /\ k # i + 1 => JJ[<<r, k>>].status = J[<<r, k>>].status
    BY DEF Jobs, Retries
  <2>2. RunRow(R, r) /\ RunAgrees(R, J, r)
    OBVIOUS
  <2>3. RunAgrees(RR, JJ, r)
    BY <2>1, <2>2, RetryingKeeps DEF Retries
  <2> QED BY <1>2, <2>3
<1> QED BY <1>1, <1>2

\* Failing the executing jobs of the leases of S with their runs.
FailsTogether(R, J, L, RR, JJ, S) ==
  /\ \A j \in Jobs : JJ[j].status =
       IF \E l \in S : L[l].job = j THEN "FAILED" ELSE J[j].status
  /\ \A q \in Runs : RR[q].status =
       IF \E l \in S : L[l].job[1] = q THEN "FAILED" ELSE R[q].status
  /\ \A q \in Runs : R[q].status # "NONE" => RR[q].plan = R[q].plan

LEMMA FailingKeepsAll ==
  ASSUME NEW R, NEW J, NEW L, NEW RR, NEW JJ, NEW S,
         \A q \in Runs : RunRow(R, q) /\ RunAgrees(R, J, q),
         \A l \in S : L[l].job \in Jobs /\ J[L[l].job].status \in ActiveExecutionStates,
         FailsTogether(R, J, L, RR, JJ, S)
  PROVE  \A q \in Runs : RunAgrees(RR, JJ, q)
<1> SUFFICES ASSUME NEW q \in Runs PROVE RunAgrees(RR, JJ, q)
  OBVIOUS
<1>1. CASE ~\E l \in S : L[l].job[1] = q
  <2>1. \A k \in 1 .. AttemptLimit : JJ[<<q, k>>].status = J[<<q, k>>].status
    BY <1>1 DEF Jobs, FailsTogether
  <2>2. RR[q].status = R[q].status /\ (R[q].status # "NONE" => RR[q].plan = R[q].plan)
    BY <1>1 DEF FailsTogether
  <2> QED BY <2>1, <2>2, ReservingKeeps
<1>2. CASE \E l \in S : L[l].job[1] = q
  <2>1. PICK l \in S : L[l].job[1] = q
    BY <1>2
  <2>2. PICK i \in 1 .. AttemptLimit : L[l].job = <<q, i>>
    BY <2>1 DEF Jobs
  <2>3. J[<<q, i>>].status \in ActiveExecutionStates /\ J[<<q, i>>].status \in Live
    BY <2>2 DEF Live
  <2>4. RunRow(R, q) /\ RunAgrees(R, J, q)
    OBVIOUS
  <2>5. /\ R[q].status # "NONE"
        /\ \A k \in 1 .. AttemptLimit : J[<<q, k>>].status = "NONE" <=> k > i
        /\ \A k \in 1 .. (i - 1) : J[<<q, k>>].status = "RETRY"
    BY <2>3, <2>4, LiveIsLast
  <2>6. \A k \in 1 .. AttemptLimit : k # i => JJ[<<q, k>>].status = J[<<q, k>>].status
    <3> SUFFICES ASSUME NEW k \in 1 .. AttemptLimit, k # i
                 PROVE  JJ[<<q, k>>].status = J[<<q, k>>].status
      OBVIOUS
    <3>1. k > i \/ k \in 1 .. (i - 1)
      BY LedgerAssumption
    <3>2. J[<<q, k>>].status \notin ActiveExecutionStates
      BY <2>5, <3>1 DEF ActiveExecutionStates
    <3>3. <<q, k>> \in Jobs
      BY DEF Jobs
    <3> QED BY <3>2, <3>3 DEF FailsTogether
  <2>7. <<q, i>> \in Jobs
    BY DEF Jobs
  <2>8. JJ[<<q, i>>].status = "FAILED" /\ RR[q].status = "FAILED" /\ RR[q].plan = R[q].plan
    BY <2>1, <2>2, <2>5, <2>7 DEF FailsTogether
  <2>9. LastJobAgrees(RR[q].status, JJ[<<q, i>>].status)
    BY <2>8 DEF LastJobAgrees
  <2> QED BY <2>3, <2>4, <2>6, <2>8, <2>9, MovingKeeps
<1> QED BY <1>1, <1>2

\* JobsFollowRun in these words.
LEMMA RunsInWords ==
  ASSUME TypeInv PROVE JobsFollowRun <=> \A r \in Runs : RunAgrees(run, job, r)
<1>1. \A r \in Runs : run[r] = NoRun <=> run[r].status = "NONE"
  BY DEF TypeInv, TypeOK, RegistryTypeOK, LedgerTypeOK, NoRun, RunRecord, RunStatus
<1>2. \A j \in Jobs : job[j] = NoJob <=> job[j].status = "NONE"
  BY DEF TypeInv, TypeOK, RegistryTypeOK, LedgerTypeOK, NoJob, JobRecord, JobStatus
<1>3. \A r \in Runs, i \in 1 .. AttemptLimit :
        job[<<r, i>>] = NoJob <=> job[<<r, i>>].status = "NONE"
  BY <1>2 DEF Jobs
<1> DEFINE Here(r) ==
      IF run[r] = NoRun THEN \A i \in 1 .. AttemptLimit : job[<<r, i>>] = NoJob
      ELSE \E n \in 1 .. MaxAttempts[run[r].plan] :
        /\ \A i \in 1 .. AttemptLimit : job[<<r, i>>] = NoJob <=> i > n
        /\ \A i \in 1 .. (n - 1) : job[<<r, i>>].status = "RETRY"
        /\ LastJobAgrees(run[r].status, job[<<r, n>>].status)
        /\ job[<<r, n>>].status = "DEAD_LETTER" => n = MaxAttempts[run[r].plan]
<1>4. ASSUME NEW r \in Runs PROVE Here(r) <=> RunAgrees(run, job, r)
  <2>1. CASE run[r] = NoRun
    BY <1>1, <1>3, <2>1 DEF RunAgrees
  <2>2. CASE run[r] # NoRun
    <3>1. run[r].status # "NONE"
      BY <1>1, <2>2
    <3>2. \A n : (\A i \in 1 .. AttemptLimit : job[<<r, i>>] = NoJob <=> i > n)
              <=> (\A i \in 1 .. AttemptLimit : job[<<r, i>>].status = "NONE" <=> i > n)
      BY <1>3
    <3> QED BY <2>2, <3>1, <3>2, Zenon DEF RunAgrees
  <2> QED BY <2>1, <2>2
<1>5. JobsFollowRun <=> \A r \in Runs : Here(r)
  BY DEF JobsFollowRun
<1> HIDE DEF Here
<1> QED BY <1>4, <1>5

-----------------------------------------------------------------------------
(* The inductive invariant, action by action. *)

SafeInv ==
  /\ TypeInv
  /\ Agree(job, lease, attempt)
  /\ \A r \in Runs : RunAgrees(run, job, r)

\* A step writes only runs that have not ended and jobs that are live or new.
LiveOnly ==
  /\ \A j \in Jobs : job'[j].status # job[j].status => job[j].status \in Live \cup {"NONE"}
  /\ \A r \in Runs : run'[r] # run[r] => run[r].status \in {"NONE", "PENDING", "RUNNING"}

LEMMA TypedRuns == TypeInv => \A r \in Runs : RunRow(run, r)
BY DEF TypeInv, TypeOK, RegistryTypeOK, LedgerTypeOK, RunRow, RunRecord, NoRun

\* What closing leases and returning their jobs writes.
LEMMA ClosingEffect ==
  ASSUME TypeInv, NEW S, NEW s
  PROVE  Closes(job, lease, ReturnedToPending(S), Closed(S, s), S, s)
<1>1. /\ \A l \in Leases : Closed(S, s)[l].status = IF l \in S THEN s ELSE lease[l].status
      /\ \A l \in Leases : lease[l].status # "NONE" => Closed(S, s)[l].job = lease[l].job
  BY DEF Closed
<1>2. \A j \in Jobs : job[j].status = "LEASED" => job[j] \in JobRecord
  BY DEF TypeInv, TypeOK, RegistryTypeOK, LedgerTypeOK, NoJob
<1>3. \A j \in Jobs : job[j].status = "LEASED" => [job[j] EXCEPT !.status = "PENDING"].status = "PENDING"
  BY <1>2 DEF JobRecord
<1>4. \A j \in Jobs : ReturnedToPending(S)[j].status =
        IF job[j].status = "LEASED" /\ \E l \in S : lease[l].job = j
        THEN "PENDING" ELSE job[j].status
  BY <1>3 DEF ReturnedToPending
<1> QED BY <1>1, <1>4 DEF Closes

\* The tables a reap, a release or a revocation leaves.
LEMMA ClosingSafe ==
  ASSUME SafeInv, NEW S \in SUBSET {l \in Leases : Active(l)},
         NEW s \in {"RELEASED", "EXPIRED", "REVOKED"}
  PROVE  /\ Rows(ReturnedToPending(S), Closed(S, s), attempt)
         /\ Agree(ReturnedToPending(S), Closed(S, s), attempt)
         /\ \A r \in Runs : RunAgrees(run, ReturnedToPending(S), r)
<1> DEFINE J == ReturnedToPending(S)
           L == Closed(S, s)
<1>1. Closes(job, lease, J, L, S, s)
  BY ClosingEffect DEF SafeInv
<1>2. S \subseteq {l \in Leases : lease[l].status = "ACTIVE"}
  BY DEF Active
<1>3. Rows(job, lease, attempt) /\ Agree(job, lease, attempt)
  BY TypedRows DEF SafeInv
<1> HIDE DEF J, L
<1>4. Rows(J, L, attempt) /\ Agree(J, L, attempt)
  BY <1>1, <1>2, <1>3, ClosingAgrees
<1>5. ASSUME NEW r \in Runs PROVE RunAgrees(run, J, r)
  <2>1. RunRow(run, r) /\ RunAgrees(run, job, r)
    BY TypedRuns DEF SafeInv
  <2>2. \A i \in 1 .. AttemptLimit :
          \/ J[<<r, i>>].status = job[<<r, i>>].status
          \/ {J[<<r, i>>].status, job[<<r, i>>].status} \subseteq {"PENDING", "LEASED"}
    BY <1>1 DEF Jobs, Closes
  <2> QED BY <2>1, <2>2, ReservingKeeps
<1> QED BY <1>4, <1>5 DEF J, L

LEMMA SafeClosing ==
  ASSUME SafeInv, TypeInv', NEW S \in SUBSET {l \in Leases : Active(l)},
         NEW s \in {"RELEASED", "EXPIRED", "REVOKED"},
         lease' = Closed(S, s), job' = ReturnedToPending(S), UNCHANGED <<run, attempt>>
  PROVE  SafeInv' /\ LiveOnly
<1>1. /\ Agree(ReturnedToPending(S), Closed(S, s), attempt)
      /\ \A r \in Runs : RunAgrees(run, ReturnedToPending(S), r)
  BY ClosingSafe
<1>2. Agree(job', lease', attempt') /\ \A r \in Runs : RunAgrees(run', job', r)
  BY <1>1
<1>3. Closes(job, lease, ReturnedToPending(S), Closed(S, s), S, s)
  BY ClosingEffect DEF SafeInv
<1>4. LiveOnly
  BY <1>3 DEF LiveOnly, Closes, Live
<1> QED BY <1>2, <1>4 DEF SafeInv

\* A step that changes nothing the agreement reads.
LEMMA SafeUnseen ==
  ASSUME SafeInv, TypeInv', run' = run, attempt' = attempt,
         \A j \in Jobs : job'[j].status = job[j].status,
         \A l \in Leases : lease'[l].status = lease[l].status,
         \A l \in Leases : lease[l].status # "NONE" => lease'[l].job = lease[l].job
  PROVE  SafeInv' /\ LiveOnly
<1>1. Rows(job, lease, attempt) /\ Agree(job, lease, attempt)
  BY TypedRows DEF SafeInv
<1>2. \A l \in Leases : attempt'[l].status = attempt[l].status
  OBVIOUS
<1>3. Agree(job', lease', attempt')
  BY <1>1, <1>2, SameAgree
<1>4. ASSUME NEW r \in Runs PROVE RunAgrees(run', job', r)
  <2>1. RunRow(run, r) /\ RunAgrees(run, job, r)
    BY TypedRuns DEF SafeInv
  <2>2. \A i \in 1 .. AttemptLimit : job'[<<r, i>>].status = job[<<r, i>>].status
    BY DEF Jobs
  <2> QED BY <2>1, <2>2, ReservingKeeps
<1>5. LiveOnly
  BY DEF LiveOnly
<1> QED BY <1>3, <1>4, <1>5 DEF SafeInv

LEMMA SafeReap ==
  ASSUME SafeInv, TypeInv', Reap, UNCHANGED <<run, attempt>>
  PROVE  SafeInv' /\ LiveOnly
<1>1. ExpiredLeases \in SUBSET {l \in Leases : Active(l)}
  BY DEF ExpiredLeases, Expired
<1> QED BY <1>1, SafeClosing DEF Reap

\* A claim leases a job that is pending once expired leases are reaped.
LEMMA SafeClaimJob ==
  ASSUME SafeInv, TypeInv', NEW w, NEW l \in Leases, NEW j \in Jobs,
         ReturnedToPending(ExpiredLeases)[j].status = "PENDING",
         ClaimJob(w, j, l, Closed(ExpiredLeases, "EXPIRED"), ReturnedToPending(ExpiredLeases)),
         UNCHANGED <<run, attempt>>
  PROVE  SafeInv' /\ LiveOnly
<1> DEFINE L == Closed(ExpiredLeases, "EXPIRED")
           J == ReturnedToPending(ExpiredLeases)
<1>1. ExpiredLeases \in SUBSET {m \in Leases : Active(m)}
  BY DEF ExpiredLeases, Expired
<1>2. /\ Rows(J, L, attempt) /\ Agree(J, L, attempt)
      /\ \A r \in Runs : RunAgrees(run, J, r)
  BY <1>1, ClosingSafe
<1>3. L[l].status = "NONE"
  <2>1. lease[l] = NoLease
    BY DEF ClaimJob
  <2>2. l \notin ExpiredLeases
    BY <2>1 DEF ExpiredLeases, Expired, Active, NoLease
  <2> QED BY <2>1, <2>2 DEF Closed, NoLease
<1>4. L = [m \in Leases |-> L[m]]
  BY DEF Closed
<1>5. J \in [Jobs -> JobRecord \cup {NoJob}]
  BY ReturnedType DEF SafeInv, TypeInv
<1>6. J[j] \in JobRecord
  BY <1>5 DEF NoJob
<1> DEFINE new == [status |-> "ACTIVE", worker |-> w, job |-> j, ttl |-> LeaseDuration,
                   life |-> MaxLeaseLifetime, age |-> 0]
<1>7. lease' = [L EXCEPT ![l] = new] /\ job' = [J EXCEPT ![j].status = "LEASED"]
  BY DEF ClaimJob
<1>8. new.status = "ACTIVE" /\ new.job = j
  OBVIOUS
<1>9. J[j].status = "PENDING"
  OBVIOUS
<1> HIDE DEF L, J, new
<1>10. /\ lease'[l].status = "ACTIVE" /\ lease'[l].job = j
       /\ \A m \in Leases : m # l => lease'[m] = L[m]
  BY <1>4, <1>7, <1>8
<1>11. [J[j] EXCEPT !.status = "LEASED"].status = "LEASED"
  BY <1>6 DEF JobRecord
<1>12. /\ job'[j].status = "LEASED"
       /\ \A i \in Jobs : i # j => job'[i].status = J[i].status
  BY <1>5, <1>7, <1>11
<1>13. Agree(job', lease', attempt)
  BY <1>2, <1>3, <1>9, <1>10, <1>12, LeasingAgrees
<1>14. ASSUME NEW r \in Runs PROVE RunAgrees(run, job', r)
  <2>1. RunRow(run, r) /\ RunAgrees(run, J, r)
    BY <1>2, TypedRuns DEF SafeInv
  <2>2. \A i \in 1 .. AttemptLimit :
          \/ job'[<<r, i>>].status = J[<<r, i>>].status
          \/ {job'[<<r, i>>].status, J[<<r, i>>].status} \subseteq {"PENDING", "LEASED"}
    BY <1>9, <1>12 DEF Jobs
  <2> QED BY <2>1, <2>2, ReservingKeeps
<1>15. Closes(job, lease, J, L, ExpiredLeases, "EXPIRED")
  BY ClosingEffect DEF SafeInv, J, L
<1>16. LiveOnly
  BY <1>9, <1>12, <1>15 DEF LiveOnly, Closes, Live
<1> QED BY <1>13, <1>14, <1>16 DEF SafeInv

LEMMA SafeDispatch ==
  ASSUME SafeInv, TypeInv', NEW r \in Runs, NEW p \in Plans, NEW k, DispatchManual(r, p, k),
         UNCHANGED <<lease, attempt>>
  PROVE  SafeInv' /\ LiveOnly
<1>1. /\ run' = [run EXCEPT ![r] = [status |-> "PENDING", plan |-> p, key |-> k]]
      /\ job' = [job EXCEPT ![<<r, 1>>] = [status |-> "PENDING", wait |-> 0]]
      /\ run[r].status = "NONE"
  BY DEF DispatchManual, InsertRun, NoRun
<1>2. /\ run'[r].status = "PENDING" /\ run'[r].plan = p
      /\ \A q \in Runs : q # r => run'[q] = run[q]
  BY <1>1 DEF SafeInv, TypeInv, TypeOK, RegistryTypeOK, LedgerTypeOK
<1>3. MaxAttempts[p] \in 1 .. AttemptLimit /\ <<r, 1>> \in Jobs
  BY LedgerAssumption DEF Jobs
<1>4. job'[<<r, 1>>].status = "PENDING" /\ \A j \in Jobs : j # <<r, 1>> => job'[j] = job[j]
  BY <1>1, <1>3 DEF SafeInv, TypeInv, TypeOK, RegistryTypeOK, LedgerTypeOK
<1>5. \A i \in 1 .. AttemptLimit : job[<<r, i>>].status = "NONE"
  BY <1>1 DEF SafeInv, RunAgrees
<1>6. job[<<r, 1>>].status = "NONE"
  BY <1>3, <1>5, LedgerAssumption
<1>7. Rows(job, lease, attempt) /\ Agree(job, lease, attempt)
  BY TypedRows DEF SafeInv
<1>8. Agree(job', lease', attempt')
  <2>1. Offers(job, job')
    BY <1>4, <1>6 DEF Offers
  <2>2. Agree(job', lease, attempt)
    BY <1>7, <2>1, OfferingAgrees
  <2> QED BY <2>2
<1>9. ASSUME NEW q \in Runs PROVE RunAgrees(run', job', q)
  <2>1. CASE q # r
    <3>1. RunRow(run, q) /\ RunAgrees(run, job, q)
      BY TypedRuns DEF SafeInv
    <3>2. \A i \in 1 .. AttemptLimit : job'[<<q, i>>].status = job[<<q, i>>].status
      BY <1>4, <2>1 DEF Jobs
    <3>3. run'[q].status = run[q].status /\ run'[q].plan = run[q].plan
      BY <1>2, <2>1
    <3> QED BY <3>1, <3>2, <3>3, ReservingKeeps
  <2>2. CASE q = r
    <3>1. \A i \in 1 .. AttemptLimit : i # 1 => job'[<<r, i>>].status = "NONE"
      BY <1>4, <1>5 DEF Jobs
    <3>2. 1 \in 1 .. MaxAttempts[run'[r].plan]
      BY <1>2, <1>3, LedgerAssumption
    <3>3. \A i \in 1 .. AttemptLimit : job'[<<r, i>>].status = "NONE" <=> i > 1
      BY <1>4, <3>1, LedgerAssumption
    <3>4. LastJobAgrees(run'[r].status, job'[<<r, 1>>].status)
      BY <1>2, <1>4 DEF LastJobAgrees
    <3>5. \A i \in 1 .. (1 - 1) : job'[<<r, i>>].status = "RETRY"
      OBVIOUS
    <3>6. job'[<<r, 1>>].status # "DEAD_LETTER" /\ run'[r].status # "NONE"
      BY <1>2, <1>4
    <3>7. RunAgrees(run', job', r)
      BY <3>2, <3>3, <3>4, <3>5, <3>6 DEF RunAgrees
    <3> QED BY <2>2, <3>7
  <2> QED BY <2>1, <2>2
<1>10. LiveOnly
  BY <1>1, <1>2, <1>4, <1>6 DEF LiveOnly
<1> QED BY <1>8, <1>9, <1>10 DEF SafeInv

LEMMA SafeCancel ==
  ASSUME SafeInv, TypeInv', NEW r \in Runs, Cancel(r), UNCHANGED <<lease, attempt>>
  PROVE  SafeInv' /\ LiveOnly
<1>1. /\ run[r].status = "PENDING"
      /\ \A j \in JobsOf(r) : job[j].status = "PENDING"
      /\ run' = [run EXCEPT ![r].status = "CANCELLED"]
      /\ job' = [j \in Jobs |-> IF j \in JobsOf(r)
                                THEN [job[j] EXCEPT !.status = "CANCELLED"] ELSE job[j]]
  BY DEF Cancel
<1>2. run[r] \in RunRecord
  BY <1>1 DEF SafeInv, TypeInv, TypeOK, RegistryTypeOK, LedgerTypeOK, NoRun
<1>3. /\ run'[r].status = "CANCELLED" /\ run'[r].plan = run[r].plan
      /\ \A q \in Runs : q # r => run'[q] = run[q]
  BY <1>1, <1>2 DEF RunRecord, SafeInv, TypeInv, TypeOK, RegistryTypeOK, LedgerTypeOK
<1>4. \A j \in Jobs : /\ job[j] # NoJob => job[j] \in JobRecord
                      /\ job[j] = NoJob <=> job[j].status = "NONE"
  BY DEF SafeInv, TypeInv, TypeOK, RegistryTypeOK, LedgerTypeOK, JobRecord, JobStatus, NoJob
<1>5. \A j \in Jobs : j \in JobsOf(r) => [job[j] EXCEPT !.status = "CANCELLED"].status = "CANCELLED"
  BY <1>4 DEF JobsOf, JobRecord
<1>6. \A j \in Jobs :
        job'[j].status = IF j[1] = r /\ job[j].status # "NONE" THEN "CANCELLED" ELSE job[j].status
  BY <1>1, <1>4, <1>5 DEF JobsOf
<1>7. \A j \in Jobs : j[1] = r /\ job[j].status # "NONE" => job[j].status = "PENDING"
  BY <1>1, <1>4 DEF JobsOf
<1>8. Agree(job', lease', attempt')
  <2>1. Rows(job, lease, attempt) /\ Agree(job, lease, attempt)
    BY TypedRows DEF SafeInv
  <2>2. Offers(job, job')
    BY <1>6, <1>7 DEF Offers
  <2>3. Agree(job', lease, attempt)
    BY <2>1, <2>2, OfferingAgrees
  <2> QED BY <2>3
<1>9. ASSUME NEW q \in Runs PROVE RunAgrees(run', job', q)
  <2>1. RunRow(run, q) /\ RunAgrees(run, job, q)
    BY TypedRuns DEF SafeInv
  <2>2. CASE q # r
    <3>1. \A i \in 1 .. AttemptLimit : job'[<<q, i>>].status = job[<<q, i>>].status
      BY <1>6, <2>2 DEF Jobs
    <3>2. run'[q].status = run[q].status /\ run'[q].plan = run[q].plan
      BY <1>3, <2>2
    <3> QED BY <2>1, <3>1, <3>2, ReservingKeeps
  <2>3. CASE q = r
    <3>1. MaxAttempts[run[r].plan] \in 1 .. AttemptLimit
      BY <1>2, LedgerAssumption DEF RunRecord
    <3>2. PICK n \in 1 .. MaxAttempts[run[r].plan] :
            /\ \A i \in 1 .. AttemptLimit : job[<<r, i>>].status = "NONE" <=> i > n
            /\ \A i \in 1 .. (n - 1) : job[<<r, i>>].status = "RETRY"
      BY <1>1, <2>1, <2>3 DEF RunAgrees
    <3>3. n \in 1 .. AttemptLimit /\ job[<<r, n>>].status # "NONE"
      BY <3>1, <3>2, LedgerAssumption
    <3>4. \A i \in 1 .. AttemptLimit : <<r, i>> \in Jobs /\ <<r, i>>[1] = r
      BY DEF Jobs
    <3>5. job[<<r, n>>].status = "PENDING" /\ job'[<<r, n>>].status = "CANCELLED"
      BY <1>6, <1>7, <3>3, <3>4
    <3>6. \A i \in 1 .. AttemptLimit : i # n => job[<<r, i>>].status = "NONE"
      <4> SUFFICES ASSUME NEW i \in 1 .. AttemptLimit, i # n, job[<<r, i>>].status # "NONE"
                   PROVE  FALSE
        OBVIOUS
      <4>1. i \in 1 .. (n - 1)
        BY <3>1, <3>2, LedgerAssumption
      <4>2. job[<<r, i>>].status = "PENDING"
        BY <1>7, <3>4
      <4> QED BY <4>1, <4>2, <3>2
    <3>7. \A i \in 1 .. AttemptLimit : i # n => job'[<<r, i>>].status = job[<<r, i>>].status
      BY <1>6, <3>4, <3>6
    <3>8. LastJobAgrees(run'[r].status, job'[<<r, n>>].status)
      BY <1>3, <3>5 DEF LastJobAgrees
    <3>9. job[<<r, n>>].status \in Live /\ run'[r].status # "NONE"
          /\ job'[<<r, n>>].status # "NONE" /\ job'[<<r, n>>].status # "DEAD_LETTER"
      BY <1>3, <3>5 DEF Live
    <3>10. RunRow(run, r) /\ RunAgrees(run, job, r)
      BY <2>1, <2>3
    <3>11. RunAgrees(run', job', r)
      BY <1>3, <3>3, <3>7, <3>8, <3>9, <3>10, MovingKeeps
    <3> QED BY <2>3, <3>11
  <2> QED BY <2>2, <2>3
<1>10. LiveOnly
  BY <1>1, <1>3, <1>6, <1>7 DEF LiveOnly, Live
<1> QED BY <1>8, <1>9, <1>10 DEF SafeInv

\* The job behind an active lease is the live one of its run.
LEMMA HeldJob ==
  ASSUME SafeInv, NEW l \in Leases, Active(l)
  PROVE  /\ JobOf(l) \in Jobs /\ JobOf(l) = <<RunOf(l), JobOf(l)[2]>>
         /\ RunOf(l) \in Runs /\ JobOf(l)[2] \in 1 .. AttemptLimit
         /\ job[JobOf(l)] \in JobRecord /\ run[RunOf(l)] \in RunRecord
         /\ job[JobOf(l)].status \in Live
<1>1. lease[l] # NoLease
  BY DEF Active, NoLease
<1>2. /\ JobOf(l) \in Jobs /\ JobOf(l) = <<RunOf(l), JobOf(l)[2]>>
      /\ RunOf(l) \in Runs /\ JobOf(l)[2] \in 1 .. AttemptLimit
      /\ job[JobOf(l)] \in JobRecord /\ run[RunOf(l)] \in RunRecord
  BY <1>1, ContextRows DEF SafeInv
<1>3. job[JobOf(l)].status \in Live
  BY DEF SafeInv, Agree, Active, JobOf, Live
<1> QED BY <1>2, <1>3

\* A request that moves attempt, job and run of lease l and adds no job.
LEMMA SafeRequest ==
  ASSUME SafeInv, TypeInv', NEW l \in Leases, Active(l),
         NEW a \in AttemptRecord, NEW js \in Started, NEW rs \in RunStatus,
         attempt' = [attempt EXCEPT ![l] = a],
         job' = [job EXCEPT ![JobOf(l)].status = js],
         run' = [run EXCEPT ![RunOf(l)].status = rs],
         \/ lease' = lease /\ a.status = js /\ js \in ActiveExecutionStates
         \/ /\ lease' = Closed({l}, "RELEASED")
            /\ a.status \notin ActiveExecutionStates /\ js \notin ActiveExecutionStates,
         LastJobAgrees(rs, js),
         js = "DEAD_LETTER" => JobOf(l)[2] = MaxAttempts[PlanOf(JobOf(l))]
  PROVE  SafeInv' /\ LiveOnly
<1> DEFINE r == RunOf(l)
           i == JobOf(l)[2]
<1>1. /\ JobOf(l) \in Jobs /\ JobOf(l) = <<r, i>>
      /\ r \in Runs /\ i \in 1 .. AttemptLimit
      /\ job[JobOf(l)] \in JobRecord /\ run[r] \in RunRecord
      /\ job[JobOf(l)].status \in Live
  BY HeldJob
<1>2. /\ job'[JobOf(l)].status = js
      /\ \A j \in Jobs : j # JobOf(l) => job'[j] = job[j]
  BY <1>1 DEF JobRecord, SafeInv, TypeInv, TypeOK, RegistryTypeOK, LedgerTypeOK
<1>3. /\ run'[r].status = rs /\ run'[r].plan = run[r].plan
      /\ \A q \in Runs : q # r => run'[q] = run[q]
  BY <1>1 DEF RunRecord, SafeInv, TypeInv, TypeOK, RegistryTypeOK, LedgerTypeOK
<1>4. /\ \A m \in Leases : lease[m].status # "NONE" => lease'[m].job = lease[m].job
      /\ \A m \in Leases : m # l => lease'[m].status = lease[m].status
      /\ \/ a.status \in ActiveExecutionStates /\ js = a.status /\ lease'[l].status = "ACTIVE"
         \/ /\ a.status \notin ActiveExecutionStates /\ js \notin ActiveExecutionStates
            /\ lease'[l].status = "RELEASED"
  BY DEF Closed, Active
<1>5. a.status \in AttemptStatus /\ attempt'[l] = a
      /\ \A m \in Leases : m # l => attempt'[m] = attempt[m]
  BY DEF AttemptRecord, SafeInv, TypeInv, TypeOK
<1>6. Agree(job', lease', attempt')
  <2>1. Rows(job, lease, attempt) /\ Agree(job, lease, attempt)
    BY TypedRows DEF SafeInv
  <2>2. Requests(job, lease, attempt, job', lease', attempt', l, a.status, js)
    BY <1>2, <1>4, <1>5 DEF Requests, JobOf
  <2>3. lease[l].status = "ACTIVE"
    BY DEF Active
  <2> QED BY <1>5, <2>1, <2>2, <2>3, RequestAgrees
<1>7. \A q \in Runs : RunAgrees(run', job', q)
  <2>1. \A q \in Runs : RunRow(run, q) /\ RunAgrees(run, job, q)
    BY TypedRuns DEF SafeInv
  <2>2. job[<<r, i>>].status \in Live
    BY <1>1
  <2>3. js # "NONE" /\ rs # "NONE"
    BY DEF Started, RunStatus
  <2>4. js = "DEAD_LETTER" => i = MaxAttempts[run[r].plan]
    BY DEF PlanOf, RunOf, JobOf
  <2>5. Moves(run, job, run', job', r, i)
    BY <1>1, <1>2, <1>3, <2>3, <2>4 DEF Moves
  <2> HIDE DEF r, i
  <2> QED BY <1>1, <2>1, <2>2, <2>5, MovingKeepsAll
<1>8. run[r].status \in {"PENDING", "RUNNING"}
  <2>1. RunRow(run, r) /\ RunAgrees(run, job, r) /\ job[<<r, i>>].status \in Live
    BY <1>1, TypedRuns DEF SafeInv
  <2> HIDE DEF r, i
  <2> QED BY <1>1, <2>1, LiveIsLast DEF Live
<1>9. LiveOnly
  BY <1>1, <1>2, <1>3, <1>8 DEF LiveOnly
<1> QED BY <1>6, <1>7, <1>9 DEF SafeInv

LEMMA SafeStart ==
  ASSUME SafeInv, TypeInv', NEW l \in Leases, Start(l)
  PROVE  SafeInv' /\ LiveOnly
<1>1. Active(l)
  BY DEF Start, ActiveContext, OwnedActiveLease
<1> DEFINE a == [status |-> "RUNNING", events |-> <<"STARTED">>]
<1>2. a \in AttemptRecord /\ a.status = "RUNNING"
  BY DEF AttemptRecord, AttemptStatus, ActiveExecutionStates, EventType
<1>3. attempt' = [attempt EXCEPT ![l] = a]
  BY DEF Start
<1>4. /\ job' = [job EXCEPT ![JobOf(l)].status = "RUNNING"]
      /\ run' = [run EXCEPT ![RunOf(l)].status = "RUNNING"] /\ lease' = lease
  BY DEF Start
<1>5. /\ LastJobAgrees("RUNNING", "RUNNING") /\ "RUNNING" \in ActiveExecutionStates
      /\ "RUNNING" \in Started /\ "RUNNING" \in RunStatus
  BY DEF LastJobAgrees, ActiveExecutionStates, Started, RunStatus
<1> HIDE DEF a
<1> QED BY <1>1, <1>2, <1>3, <1>4, <1>5, SafeRequest

LEMMA SafeTransition ==
  ASSUME SafeInv, TypeInv', NEW l \in Leases, NEW expected \in {"RUNNING", "UPLOADING"},
         NEW target \in {"UPLOADING", "VERIFYING"}, Transition(l, expected, target)
  PROVE  SafeInv' /\ LiveOnly
<1>1. Active(l)
  BY DEF Transition, ActiveContext, OwnedActiveLease
<1> DEFINE a == [status |-> target, events |-> Append(attempt[l].events, target)]
<1>2. attempt[l] \in AttemptRecord
  BY DEF Transition, SafeInv, TypeInv, TypeOK, NoAttempt
<1>3. a \in AttemptRecord /\ a.status = target
  BY <1>2, NewStatus DEF AttemptStatus, ActiveExecutionStates, EventType
<1>4. /\ attempt' = [attempt EXCEPT ![l] = a] /\ lease' = lease
      /\ job' = [job EXCEPT ![JobOf(l)].status = target] /\ run' = run
  BY DEF Transition, Moved
<1>5. /\ JobOf(l) = <<RunOf(l), JobOf(l)[2]>> /\ RunOf(l) \in Runs
      /\ JobOf(l)[2] \in 1 .. AttemptLimit /\ run[RunOf(l)] \in RunRecord
      /\ job[JobOf(l)].status \in Live
  BY <1>1, HeldJob
<1>6. job[<<RunOf(l), JobOf(l)[2]>>].status \in ActiveExecutionStates
  BY <1>5 DEF Transition, ActiveExecutionStates
<1>7. run[RunOf(l)].status = "RUNNING"
  <2>1. RunRow(run, RunOf(l)) /\ RunAgrees(run, job, RunOf(l))
    BY <1>5, TypedRuns DEF SafeInv
  <2> QED BY <1>5, <1>6, <2>1, LiveIsLast DEF Live
<1>8. run' = [run EXCEPT ![RunOf(l)].status = "RUNNING"]
  BY <1>4, <1>5, <1>7 DEF RunRecord, SafeInv, TypeInv, TypeOK, RegistryTypeOK, LedgerTypeOK
<1>9. /\ LastJobAgrees("RUNNING", target) /\ target \in ActiveExecutionStates
      /\ target \in Started /\ "RUNNING" \in RunStatus /\ target # "DEAD_LETTER"
  BY DEF LastJobAgrees, ActiveExecutionStates, Started, RunStatus
<1> HIDE DEF a
<1> QED BY <1>1, <1>3, <1>4, <1>8, <1>9, SafeRequest

LEMMA SafeComplete ==
  ASSUME SafeInv, TypeInv', NEW l \in Leases, Complete(l)
  PROVE  SafeInv' /\ LiveOnly
<1>1. Active(l)
  BY DEF Complete, ActiveContext, OwnedActiveLease
<1> DEFINE a == [status |-> "COMPLETED", events |-> Append(attempt[l].events, "COMPLETED")]
<1>2. attempt[l] \in AttemptRecord
  BY DEF Complete, SafeInv, TypeInv, TypeOK, NoAttempt
<1>3. a \in AttemptRecord /\ a.status = "COMPLETED"
  BY <1>2, NewStatus DEF AttemptStatus, EventType
<1>4. /\ attempt' = [attempt EXCEPT ![l] = a] /\ lease' = Closed({l}, "RELEASED")
      /\ job' = [job EXCEPT ![JobOf(l)].status = "COMPLETED"]
      /\ run' = [run EXCEPT ![RunOf(l)].status = "COMPLETED"]
  BY DEF Complete, Moved
<1>5. /\ LastJobAgrees("COMPLETED", "COMPLETED") /\ "COMPLETED" \notin ActiveExecutionStates
      /\ "COMPLETED" \in Started /\ "COMPLETED" \in RunStatus
  BY DEF LastJobAgrees, ActiveExecutionStates, Started, RunStatus
<1> HIDE DEF a
<1> QED BY <1>1, <1>3, <1>4, <1>5, SafeRequest

\* A failure that ends the job in RETRY and adds the next one.
LEMMA SafeRetry ==
  ASSUME SafeInv, TypeInv', NEW l \in Leases, Active(l), Executing(l),
         NEW a \in AttemptRecord, a.status = "FAILED", NEW d \in Nat,
         attempt' = [attempt EXCEPT ![l] = a], lease' = Closed({l}, "RELEASED"),
         JobOf(l)[2] < MaxAttempts[PlanOf(JobOf(l))],
         job' = [job EXCEPT ![JobOf(l)].status = "RETRY",
                            ![<<RunOf(l), JobOf(l)[2] + 1>>] = [status |-> "PENDING", wait |-> d]],
         run' = [run EXCEPT ![RunOf(l)].status = "PENDING"]
  PROVE  SafeInv' /\ LiveOnly
<1> DEFINE r == RunOf(l)
           i == JobOf(l)[2]
           row == [status |-> "PENDING", wait |-> d]
           middle == [job EXCEPT ![JobOf(l)].status = "RETRY"]
<1>1. /\ JobOf(l) \in Jobs /\ JobOf(l) = <<r, i>>
      /\ r \in Runs /\ i \in 1 .. AttemptLimit
      /\ job[JobOf(l)] \in JobRecord /\ run[r] \in RunRecord
      /\ job[JobOf(l)].status \in Live
  BY HeldJob
<1>2. i < MaxAttempts[run[r].plan] /\ MaxAttempts[run[r].plan] \in 1 .. AttemptLimit
  BY <1>1, LedgerAssumption DEF PlanOf, RunOf, JobOf, RunRecord
<1>3. <<r, i + 1>> \in Jobs /\ <<r, i + 1>> # <<r, i>>
  BY <1>1, <1>2, LedgerAssumption DEF Jobs
<1>4. /\ middle[JobOf(l)].status = "RETRY"
      /\ \A j \in Jobs : j # JobOf(l) => middle[j] = job[j]
      /\ middle = [j \in Jobs |-> middle[j]]
  BY <1>1 DEF JobRecord, SafeInv, TypeInv, TypeOK, RegistryTypeOK, LedgerTypeOK
<1>5. job' = [middle EXCEPT ![<<r, i + 1>>] = row]
  OBVIOUS
<1>6. row.status = "PENDING"
  OBVIOUS
<1> HIDE DEF middle, row
<1>7. /\ job'[<<r, i>>].status = "RETRY" /\ job'[<<r, i + 1>>].status = "PENDING"
      /\ \A j \in Jobs : j # <<r, i>> /\ j # <<r, i + 1>> => job'[j] = job[j]
  BY <1>1, <1>3, <1>4, <1>5, <1>6
<1>8. /\ run'[r].status = "PENDING" /\ run'[r].plan = run[r].plan
      /\ \A q \in Runs : q # r => run'[q] = run[q]
  BY <1>1 DEF RunRecord, SafeInv, TypeInv, TypeOK, RegistryTypeOK, LedgerTypeOK
<1>9. \A q \in Runs : RunRow(run, q) /\ RunAgrees(run, job, q)
  BY TypedRuns DEF SafeInv
<1>10. job[<<r, i>>].status \in Live
  BY <1>1
<1>11. /\ run[r].status \in {"PENDING", "RUNNING"}
       /\ \A k \in 1 .. AttemptLimit : job[<<r, k>>].status = "NONE" <=> k > i
  <2>1. RunRow(run, r) /\ RunAgrees(run, job, r)
    BY <1>1, <1>9
  <2> HIDE DEF r, i
  <2> QED BY <1>1, <1>10, <2>1, LiveIsLast DEF Live
<1>12. job[<<r, i + 1>>].status = "NONE"
  BY <1>1, <1>2, <1>11, LedgerAssumption
<1>13. /\ \A m \in Leases : lease[m].status # "NONE" => lease'[m].job = lease[m].job
       /\ \A m \in Leases : m # l => lease'[m].status = lease[m].status
       /\ lease'[l].status = "RELEASED"
  BY DEF Closed
<1>14. attempt'[l].status = "FAILED" /\ \A m \in Leases : m # l => attempt'[m] = attempt[m]
  BY DEF SafeInv, TypeInv, TypeOK
<1>15. Agree(job', lease', attempt')
  <2>1. Rows(job, lease, attempt) /\ Agree(job, lease, attempt)
    BY TypedRows DEF SafeInv
  <2>2. /\ "FAILED" \notin ActiveExecutionStates /\ "RETRY" \notin ActiveExecutionStates
        /\ "FAILED" \in AttemptStatus /\ "RETRY" \in Started
    BY DEF ActiveExecutionStates, AttemptStatus, Started
  <2>3. lease[l].status = "ACTIVE" /\ lease[l].job = <<r, i>>
    BY <1>1 DEF Active, JobOf
  <2>4. Requests(job, lease, attempt, job', lease', attempt', l, "FAILED", "RETRY")
    BY <1>7, <1>12, <1>13, <1>14, <2>2, <2>3 DEF Requests
  <2> QED BY <2>1, <2>2, <2>3, <2>4, RequestAgrees
<1>16. \A q \in Runs : RunAgrees(run', job', q)
  <2>1. Retries(run, job, run', job', r, i)
    BY <1>7, <1>8 DEF Retries
  <2> HIDE DEF r, i
  <2> QED BY <1>1, <1>2, <1>9, <1>10, <2>1, RetryingKeepsAll
<1>17. LiveOnly
  BY <1>7, <1>8, <1>10, <1>11, <1>12 DEF LiveOnly
<1> QED BY <1>15, <1>16, <1>17 DEF SafeInv

LEMMA SafeFail ==
  ASSUME SafeInv, TypeInv', NEW l \in Leases, NEW retryable \in BOOLEAN, Fail(l, retryable)
  PROVE  SafeInv' /\ LiveOnly
<1> DEFINE a == [status |-> "FAILED", events |-> Append(attempt[l].events, "FAILED")]
           p == PlanOf(JobOf(l))
           i == JobOf(l)[2]
<1>1. Active(l) /\ Executing(l)
  BY DEF Fail, ActiveContext, OwnedActiveLease
<1>2. attempt[l] \in AttemptRecord
  BY <1>1 DEF Executing, ActiveExecutionStates, SafeInv, TypeInv, TypeOK, NoAttempt
<1>3. a \in AttemptRecord /\ a.status = "FAILED"
  BY <1>2, NewStatus DEF AttemptStatus, EventType
<1>4. attempt' = [attempt EXCEPT ![l] = a] /\ lease' = Closed({l}, "RELEASED")
  BY DEF Fail, Moved
<1>5. /\ JobOf(l) = <<RunOf(l), i>> /\ RunOf(l) \in Runs /\ i \in 1 .. AttemptLimit
      /\ run[RunOf(l)] \in RunRecord /\ job[<<RunOf(l), i>>].status \in Live
  BY <1>1, HeldJob
<1>6. p \in Plans /\ MaxAttempts[p] \in 1 .. AttemptLimit
  BY <1>5, LedgerAssumption DEF PlanOf, RunOf, JobOf, RunRecord
<1>7. i <= MaxAttempts[p]
  <2>1. RunRow(run, RunOf(l)) /\ RunAgrees(run, job, RunOf(l))
    BY <1>5, TypedRuns DEF SafeInv
  <2>2. i <= MaxAttempts[run[RunOf(l)].plan]
    BY <1>5, <2>1, LiveIsLast
  <2> QED BY <2>2 DEF PlanOf, RunOf, JobOf
<1>8. CASE /\ i < MaxAttempts[p]
           /\ \E d \in RetryDelays(p, i) :
                job' = [job EXCEPT ![JobOf(l)].status = "RETRY",
                          ![<<RunOf(l), i + 1>>] = [status |-> "PENDING", wait |-> d]]
           /\ run' = [run EXCEPT ![RunOf(l)].status = "PENDING"]
  <2>1. PICK d \in RetryDelays(p, i) :
          job' = [job EXCEPT ![JobOf(l)].status = "RETRY",
                    ![<<RunOf(l), i + 1>>] = [status |-> "PENDING", wait |-> d]]
    BY <1>8
  <2>2. d \in Nat
    BY <1>5, <1>6, RetryDelaysNat
  <2> HIDE DEF a
  <2> QED BY <1>1, <1>3, <1>4, <1>8, <2>1, <2>2, SafeRetry
<1>9. CASE /\ \E s \in {"DEAD_LETTER", "FAILED"} :
                /\ job' = [job EXCEPT ![JobOf(l)].status = s]
                /\ s = "DEAD_LETTER" => ~(i < MaxAttempts[p])
           /\ run' = [run EXCEPT ![RunOf(l)].status = "FAILED"]
  <2>1. PICK s \in {"DEAD_LETTER", "FAILED"} :
          /\ job' = [job EXCEPT ![JobOf(l)].status = s]
          /\ s = "DEAD_LETTER" => ~(i < MaxAttempts[p])
    BY <1>9
  <2>2. s = "DEAD_LETTER" => i = MaxAttempts[p]
    BY <1>5, <1>6, <1>7, <2>1, LedgerAssumption
  <2>3. /\ LastJobAgrees("FAILED", s) /\ s \notin ActiveExecutionStates
        /\ "FAILED" \notin ActiveExecutionStates /\ s \in Started /\ "FAILED" \in RunStatus
    BY DEF LastJobAgrees, ActiveExecutionStates, Started, RunStatus
  <2> HIDE DEF a
  <2> QED BY <1>1, <1>3, <1>4, <1>9, <2>1, <2>2, <2>3, SafeRequest
<1> QED BY <1>8, <1>9 DEF Fail, RunOf, JobOf

LEMMA SafeReconcile ==
  ASSUME SafeInv, TypeInv', ReconcileExpired
  PROVE  SafeInv' /\ LiveOnly
<1>1. Rows(job, lease, attempt) /\ Agree(job, lease, attempt)
  BY TypedRows DEF SafeInv
<1>2. Orphaned \subseteq {l \in Leases : attempt[l].status \in ActiveExecutionStates}
  BY DEF Orphaned, Executing
<1>3. \A l \in Orphaned : /\ lease[l].job \in Jobs
                          /\ job[lease[l].job].status \in ActiveExecutionStates
  BY <1>1, <1>2 DEF Rows, Agree, ActiveExecutionStates
<1>4. \A j \in Jobs : job[j].status # "NONE" => [job[j] EXCEPT !.status = "FAILED"].status = "FAILED"
  <2>1. \A j \in Jobs : job[j].status # "NONE" => job[j] \in JobRecord
    BY DEF SafeInv, TypeInv, TypeOK, RegistryTypeOK, LedgerTypeOK, NoJob
  <2> QED BY <2>1 DEF JobRecord
<1>5. \A j \in Jobs : job'[j].status =
        IF \E l \in Orphaned : lease[l].job = j THEN "FAILED" ELSE job[j].status
  BY <1>3, <1>4 DEF ReconcileExpired, JobOf, ActiveExecutionStates
<1>6. \A q \in Runs : (\E l \in Orphaned : lease[l].job[1] = q) => run[q].status = "RUNNING"
  <2> SUFFICES ASSUME NEW q \in Runs, NEW l \in Orphaned, lease[l].job[1] = q
               PROVE  run[q].status = "RUNNING"
    OBVIOUS
  <2>1. PICK i \in 1 .. AttemptLimit : lease[l].job = <<q, i>>
    BY <1>3 DEF Jobs
  <2>2. job[<<q, i>>].status \in ActiveExecutionStates
    BY <1>3, <2>1
  <2>3. RunRow(run, q) /\ RunAgrees(run, job, q)
    BY TypedRuns DEF SafeInv
  <2> QED BY <2>2, <2>3, LiveIsLast DEF Live
<1>7. \A q \in Runs : run[q].status = "RUNNING" => run[q] \in RunRecord
  BY DEF SafeInv, TypeInv, TypeOK, RegistryTypeOK, LedgerTypeOK, NoRun
<1>8. \A q \in Runs : run[q].status = "RUNNING" =>
        /\ [run[q] EXCEPT !.status = "FAILED"].status = "FAILED"
        /\ [run[q] EXCEPT !.status = "FAILED"].plan = run[q].plan
  BY <1>7 DEF RunRecord
<1>9. \A q \in Runs : run'[q] = IF \E l \in Orphaned : lease[l].job[1] = q
                                THEN [run[q] EXCEPT !.status = "FAILED"] ELSE run[q]
  BY DEF ReconcileExpired, RunOf
<1>10. FailsTogether(run, job, lease, run', job', Orphaned)
  <2>1. ASSUME NEW q \in Runs
        PROVE  /\ run'[q].status =
                    IF \E l \in Orphaned : lease[l].job[1] = q THEN "FAILED" ELSE run[q].status
               /\ run[q].status # "NONE" => run'[q].plan = run[q].plan
    <3>1. CASE \E l \in Orphaned : lease[l].job[1] = q
      <4>1. run[q].status = "RUNNING"
        BY <1>6, <3>1
      <4>2. run'[q] = [run[q] EXCEPT !.status = "FAILED"]
        BY <1>9, <3>1
      <4>3. run'[q].status = "FAILED" /\ run'[q].plan = run[q].plan
        BY <1>8, <4>1, <4>2
      <4> QED BY <3>1, <4>3
    <3>2. CASE ~\E l \in Orphaned : lease[l].job[1] = q
      BY <1>9, <3>2
    <3> QED BY <3>1, <3>2
  <2> QED BY <1>5, <2>1 DEF FailsTogether
<1>11. \A q \in Runs : RunAgrees(run', job', q)
  <2>1. \A q \in Runs : RunRow(run, q) /\ RunAgrees(run, job, q)
    BY TypedRuns DEF SafeInv
  <2> QED BY <1>3, <1>10, <2>1, FailingKeepsAll
<1>12. \A l \in Leases :
         attempt'[l].status = IF l \in Orphaned THEN "FAILED" ELSE attempt[l].status
  BY DEF ReconcileExpired
<1>13. /\ \A l \in Leases : lease[l].status # "NONE" => lease'[l].job = lease[l].job
       /\ \A l \in Leases : lease'[l].status =
            IF l \in Orphaned /\ lease[l].status = "ACTIVE" THEN "EXPIRED" ELSE lease[l].status
  BY DEF ReconcileExpired, Closed, Active
<1>14. GivesUp(job, lease, attempt, job', lease', attempt', Orphaned)
  BY <1>5, <1>12, <1>13 DEF GivesUp
<1>15. Agree(job', lease', attempt')
  BY <1>1, <1>2, <1>14, GivingUpAgrees
<1>16. LiveOnly
  BY <1>3, <1>5, <1>6, <1>9 DEF LiveOnly, Live
<1> QED BY <1>11, <1>15, <1>16 DEF SafeInv

LEMMA SafeRenew ==
  ASSUME SafeInv, TypeInv', NEW l \in Leases, RenewLease(l), UNCHANGED attempt
  PROVE  SafeInv' /\ LiveOnly
<1>1. CASE Reap
  BY <1>1, SafeReap DEF RenewLease
<1>2. CASE /\ lease' = [lease EXCEPT ![l].ttl = Lesser(LeaseDuration, lease[l].life)]
           /\ UNCHANGED job
  <2>1. lease[l] \in LeaseRecord
    BY DEF RenewLease, OwnedActiveLease, Active, NoLease,
           SafeInv, TypeInv, TypeOK, RegistryTypeOK
  <2> DEFINE x == [lease[l] EXCEPT !.ttl = Lesser(LeaseDuration, lease[l].life)]
  <2>2. x.status = lease[l].status /\ x.job = lease[l].job
    BY <2>1 DEF LeaseRecord
  <2>3. lease' = [lease EXCEPT ![l] = x]
    BY <1>2
  <2> HIDE DEF x
  <2>4. /\ \A m \in Leases : lease'[m].status = lease[m].status
        /\ \A m \in Leases : lease[m].status # "NONE" => lease'[m].job = lease[m].job
    BY <2>2, <2>3 DEF SafeInv, TypeInv, TypeOK, RegistryTypeOK
  <2>5. \A j \in Jobs : job'[j].status = job[j].status
    BY <1>2
  <2>6. run' = run /\ attempt' = attempt
    BY DEF RenewLease
  <2> QED BY <2>4, <2>5, <2>6, SafeUnseen
<1> QED BY <1>1, <1>2 DEF RenewLease

LEMMA SafeUpdateWorker ==
  ASSUME SafeInv, TypeInv', NEW w \in Workers, NEW d \in WorkerDefinitions,
         UpdateWorker(w, d), UNCHANGED attempt
  PROVE  SafeInv' /\ LiveOnly
<1> DEFINE revoked == IF d.desired = "DISABLED" THEN ActiveLeases(w) ELSE {}
<1>1. revoked \in SUBSET {l \in Leases : Active(l)}
  BY DEF ActiveLeases
<1>2. /\ lease' = Closed(revoked, "REVOKED") /\ job' = ReturnedToPending(revoked)
      /\ UNCHANGED <<run, attempt>>
  BY DEF UpdateWorker
<1> QED BY <1>1, <1>2, SafeClosing

LEMMA SafeRelease ==
  ASSUME SafeInv, TypeInv', NEW l \in Leases, ReleaseLease(l), UNCHANGED attempt
  PROVE  SafeInv' /\ LiveOnly
<1>1. {l} \in SUBSET {m \in Leases : Active(m)}
  BY DEF ReleaseLease, OwnedActiveLease
<1>2. /\ lease' = Closed({l}, "RELEASED") /\ job' = ReturnedToPending({l})
      /\ UNCHANGED <<run, attempt>>
  BY DEF ReleaseLease
<1> QED BY <1>1, <1>2, SafeClosing

LEMMA SafeClaim ==
  ASSUME SafeInv, TypeInv', NEW w \in Workers, Claim(w), UNCHANGED attempt
  PROVE  SafeInv' /\ LiveOnly
<1> DEFINE L == Closed(ExpiredLeases, "EXPIRED")
           J == ReturnedToPending(ExpiredLeases)
<1>1. UNCHANGED <<run, attempt>>
  BY DEF Claim
<1>2. PICK S \in CandidateSets(J) :
        \/ Reap
        \/ \E j \in Runnable(w, L, S), l \in Leases : ClaimJob(w, j, l, L, J)
  BY DEF Claim
<1>3. CASE Reap
  BY <1>1, <1>3, SafeReap
<1>4. CASE \E j \in Runnable(w, L, S), l \in Leases : ClaimJob(w, j, l, L, J)
  <2>1. PICK j \in Runnable(w, L, S), l \in Leases : ClaimJob(w, j, l, L, J)
    BY <1>4
  <2>2. j \in Jobs /\ J[j].status = "PENDING"
    BY <1>2 DEF Runnable, CandidateSets, Available
  <2> QED BY <1>1, <2>1, <2>2, SafeClaimJob
<1> QED BY <1>2, <1>3, <1>4

LEMMA SafeClockTick ==
  ASSUME SafeInv, TypeInv', ClockTick, UNCHANGED attempt
  PROVE  SafeInv' /\ LiveOnly
<1>1. \A j \in Jobs : job'[j].status = job[j].status
  <2>1. \A j \in Jobs : job[j] # NoJob => job[j] \in JobRecord
    BY DEF SafeInv, TypeInv, TypeOK, RegistryTypeOK, LedgerTypeOK
  <2>2. \A j \in Jobs : job[j] # NoJob => [job[j] EXCEPT !.wait = Before(@)].status = job[j].status
    BY <2>1 DEF JobRecord
  <2> QED BY <2>2 DEF ClockTick
<1>2. /\ \A l \in Leases : lease'[l].status = lease[l].status
      /\ \A l \in Leases : lease[l].status # "NONE" => lease'[l].job = lease[l].job
  BY DEF ClockTick, Aged, NoLease
<1>3. run' = run /\ attempt' = attempt
  BY DEF ClockTick
<1> QED BY <1>1, <1>2, <1>3, SafeUnseen

LEMMA SafeInit == Init => SafeInv
<1> SUFFICES ASSUME Init PROVE SafeInv
  OBVIOUS
<1>1. /\ \A r \in Runs : run[r].status = "NONE"
      /\ \A j \in Jobs : job[j].status = "NONE"
      /\ \A l \in Leases : lease[l].status = "NONE" /\ attempt[l].status = "NONE"
  BY DEF Init, RegistryInit, LedgerInit, NoRun, NoJob, NoLease, NoAttempt
<1>2. Agree(job, lease, attempt)
  BY <1>1 DEF Agree, ActiveExecutionStates
<1>3. \A r \in Runs : RunAgrees(run, job, r)
  BY <1>1 DEF RunAgrees, Jobs
<1> QED BY <1>2, <1>3, TypeInit DEF SafeInv

LEMMA SafeStep == SafeInv /\ [Next]_vars => SafeInv' /\ LiveOnly
<1> SUFFICES ASSUME SafeInv, [Next]_vars PROVE SafeInv' /\ LiveOnly
  OBVIOUS
<1>1. TypeInv'
  BY TypeNext DEF SafeInv
<1>2. CASE LedgerStep
  BY <1>1, <1>2, SafeDispatch, SafeCancel DEF LedgerStep
<1>3. CASE RegistryStep
  <2>1. UNCHANGED attempt
    BY <1>3 DEF RegistryStep
  <2>2. CASE \E w \in Workers, d \in WorkerDefinitions : UpdateWorker(w, d)
    BY <1>1, <2>1, <2>2, SafeUpdateWorker
  <2>3. CASE \E w \in Workers, h \in Health, S \in SUBSET Leases : Heartbeat(w, h, S)
    <3>1. UNCHANGED <<run, job, lease>>
      BY <2>3 DEF Heartbeat
    <3> QED BY <1>1, <2>1, <3>1, SafeUnseen
  <2>4. CASE \E w \in Workers : Claim(w)
    BY <1>1, <2>1, <2>4, SafeClaim
  <2>5. CASE \E w \in Workers, j \in Jobs : ClaimSpecific(w, j)
    BY <1>1, <2>1, <2>5, SafeClaimJob DEF ClaimSpecific, Available
  <2>6. CASE \E l \in Leases : RenewLease(l) \/ ReleaseLease(l)
    BY <1>1, <2>1, <2>6, SafeRenew, SafeRelease
  <2>7. CASE ReapExpired
    BY <1>1, <2>1, <2>7, SafeReap DEF ReapExpired
  <2>8. CASE ClockTick
    BY <1>1, <2>1, <2>8, SafeClockTick
  <2> QED
    BY <1>3, <2>2, <2>3, <2>4, <2>5, <2>6, <2>7, <2>8 DEF RegistryStep
<1>4. CASE ExecutionStep
  BY <1>1, <1>4, SafeStart, SafeTransition, SafeComplete, SafeFail, SafeReconcile
     DEF ExecutionStep, MarkUploading, MarkVerifying
<1>5. CASE UNCHANGED vars
  <2>1. UNCHANGED <<run, job, lease, attempt>>
    BY <1>5 DEF vars
  <2> QED BY <1>1, <2>1, SafeUnseen
<1> QED
  BY <1>2, <1>3, <1>4, <1>5 DEF Next

\* The agreement of the tables in the words of the properties.
LEMMA SafeMeans == SafeInv => JobsFollowRun /\ LeasesFollowJobs /\ AttemptsFollowJobs
<1> SUFFICES ASSUME SafeInv PROVE JobsFollowRun /\ LeasesFollowJobs /\ AttemptsFollowJobs
  OBVIOUS
<1>1. JobsFollowRun
  BY RunsInWords DEF SafeInv
<1>2. \A l \in Leases : attempt[l] = NoAttempt <=> attempt[l].status = "NONE"
  BY DEF SafeInv, TypeInv, TypeOK, AttemptRecord, AttemptStatus, ActiveExecutionStates, NoAttempt
<1>3. LeasesFollowJobs
  BY <1>2 DEF SafeInv, Agree, LeasesFollowJobs, Active, JobOf, Executing
<1>4. AttemptsFollowJobs
  BY <1>2 DEF SafeInv, Agree, AttemptsFollowJobs, JobOf, Executing
<1> QED BY <1>1, <1>3, <1>4

-----------------------------------------------------------------------------
\* In every reachable state the jobs of a run are its attempts in turn, at most
\* maxAttempts of them, and the last is where the run is: dispatch, cancel, claim,
\* start, the terminal requests and reconcileExpired, each of which writes one part
\* of this, never leave run and jobs apart.
THEOREM JobsFollowRuns == Spec => []JobsFollowRun
<1>1. SafeInv /\ [Next]_vars => SafeInv'
  BY SafeStep
<1>2. SafeInv => JobsFollowRun
  BY SafeMeans
<1> QED BY <1>1, <1>2, SafeInit, PTL DEF Spec

\* A job never has two ACTIVE leases, is LEASED exactly while it is reserved, and
\* no lease stays ACTIVE on a job that ended: the partial unique index
\* idx_one_active_lease_per_job never has to refuse a claim.
THEOREM LeasesExclusive == Spec => []LeasesFollowJobs
<1>1. SafeInv /\ [Next]_vars => SafeInv'
  BY SafeStep
<1>2. SafeInv => LeasesFollowJobs
  BY SafeMeans
<1> QED BY <1>1, <1>2, SafeInit, PTL DEF Spec

\* No job is ever executed under two leases, and job and attempt are in the same
\* stage throughout the execution (start, transition, terminal, reconcileExpired).
THEOREM NoJobExecutedTwice == Spec => []AttemptsFollowJobs
<1>1. SafeInv /\ [Next]_vars => SafeInv'
  BY SafeStep
<1>2. SafeInv => AttemptsFollowJobs
  BY SafeMeans
<1> QED BY <1>1, <1>2, SafeInit, PTL DEF Spec

\* No handler ever writes a run that ended, or one of its jobs: a late request, a
\* reap, a revocation or a reconciliation finds only live jobs to write, and
\* those belong to runs that have not ended.
THEOREM EndedRunsStay == Spec => EndedRunsFrozen
<1> DEFINE Frozen == \A r \in Runs : RunEnded(r) =>
                       /\ run'[r] = run[r]
                       /\ \A j \in JobsOf(r) : job'[j].status = job[j].status
<1>1. SafeInv /\ [Next]_vars => Frozen
  <2> SUFFICES ASSUME SafeInv, [Next]_vars, NEW r \in Runs, RunEnded(r)
               PROVE  /\ run'[r] = run[r]
                      /\ \A j \in JobsOf(r) : job'[j].status = job[j].status
    OBVIOUS
  <2>1. LiveOnly
    BY SafeStep
  <2>2. run'[r] = run[r]
    BY <2>1 DEF LiveOnly, RunEnded
  <2>3. ASSUME NEW j \in JobsOf(r) PROVE job'[j].status = job[j].status
    <3>1. j \in Jobs /\ j[1] = r /\ job[j] # NoJob
      BY DEF JobsOf
    <3>2. PICK i \in 1 .. AttemptLimit : j = <<r, i>>
      BY <3>1 DEF Jobs
    <3>3. RunRow(run, r) /\ RunAgrees(run, job, r)
      BY TypedRuns DEF SafeInv
    <3>4. job[<<r, i>>].status \notin Live
      <4> SUFFICES ASSUME job[<<r, i>>].status \in Live PROVE FALSE
        OBVIOUS
      <4>1. run[r].status \in {"PENDING", "RUNNING"}
        BY <3>3, LiveIsLast DEF Live
      <4> QED BY <4>1 DEF RunEnded
    <3>5. job[j].status # "NONE"
      BY <3>1 DEF SafeInv, TypeInv, TypeOK, RegistryTypeOK, LedgerTypeOK, JobRecord, JobStatus
    <3> QED BY <2>1, <3>1, <3>2, <3>4, <3>5 DEF LiveOnly
  <2> QED BY <2>2, <2>3
<1>2. SafeInv /\ [Next]_vars => SafeInv'
  BY SafeStep
<1>3. SafeInv /\ [Next]_vars => [Frozen]_vars
  BY <1>1
<1>4. Spec => [][Frozen]_vars
  BY <1>2, <1>3, SafeInit, PTL DEF Spec
<1> QED BY <1>4 DEF EndedRunsFrozen

-----------------------------------------------------------------------------
(* The leases table, step by step. *)

\* From L to LL no lease is added or made active, and none forgets its worker, its
\* job or its age.
Kept(L, LL) ==
  \A l \in Leases :
    /\ LL[l] = NoLease <=> L[l] = NoLease
    /\ LL[l].status = "ACTIVE" => L[l].status = "ACTIVE"
    /\ L[l] # NoLease => /\ LL[l].worker = L[l].worker
                         /\ LL[l].job = L[l].job
                         /\ LL[l].age >= L[l].age

\* closeLease is such a change.
LEMMA ClosedKeeps ==
  ASSUME TypeInv, NEW S, S \subseteq {l \in Leases : Active(l)},
         NEW s \in {"RELEASED", "EXPIRED", "REVOKED"}
  PROVE  Kept(lease, Closed(S, s))
<1>1. \A l \in Leases : lease[l] # NoLease => lease[l] \in LeaseRecord
  BY Present DEF TypeInv
<1>2. \A l \in Leases : lease[l] # NoLease => lease[l].age \in Nat
  BY <1>1, RegistryAssumption DEF LeaseRecord
<1>3. \A l \in S : lease[l] # NoLease
  BY DEF Active, NoLease
<1> SUFFICES ASSUME NEW l \in Leases
             PROVE  /\ Closed(S, s)[l] = NoLease <=> lease[l] = NoLease
                    /\ Closed(S, s)[l].status = "ACTIVE" => lease[l].status = "ACTIVE"
                    /\ lease[l] # NoLease => /\ Closed(S, s)[l].worker = lease[l].worker
                                             /\ Closed(S, s)[l].job = lease[l].job
                                             /\ Closed(S, s)[l].age >= lease[l].age
  BY DEF Kept
<1>4. CASE l \notin S
  BY <1>2, <1>4 DEF Closed
<1>5. CASE l \in S
  <2>1. Closed(S, s)[l] = [status |-> s, worker |-> lease[l].worker, job |-> lease[l].job,
                           ttl |-> 0, life |-> 0, age |-> lease[l].age]
    BY <1>5 DEF Closed
  <2>2. Closed(S, s)[l].status # "NONE"
    BY <2>1
  <2> QED BY <1>2, <1>3, <1>5, <2>1, <2>2 DEF NoLease
<1> QED BY <1>4, <1>5

LEMMA SameKept == ASSUME TypeInv PROVE Kept(lease, lease)
BY Present, RegistryAssumption DEF TypeInv, Kept, LeaseRecord

\* A claim by worker w of job j under the new lease n: what claimJobInTransaction
\* finds after the reap, and what it writes.
Claims(w, j, n) ==
  LET L == Closed(ExpiredLeases, "EXPIRED") IN
  /\ w \in Workers /\ j \in Jobs /\ n \in Leases
  /\ MayClaim(w, L) /\ WebDomainQuotaAllows(L, j)
  /\ ReturnedToPending(ExpiredLeases)[j].status = "PENDING"
  /\ ClaimJob(w, j, n, L, ReturnedToPending(ExpiredLeases))
  /\ UNCHANGED <<run, worker, heartbeat, attempt>>

\* Both calls claim in this way, or just reap.
LEMMA ClaimsOf ==
  /\ \A w \in Workers : Claim(w) /\ UNCHANGED attempt =>
       \/ Reap /\ UNCHANGED <<run, worker, attempt>>
       \/ \E j \in Jobs, n \in Leases : Claims(w, j, n)
  /\ \A w \in Workers, j \in Jobs : ClaimSpecific(w, j) /\ UNCHANGED attempt =>
       \E n \in Leases : Claims(w, j, n)
<1> DEFINE L == Closed(ExpiredLeases, "EXPIRED")
           J == ReturnedToPending(ExpiredLeases)
<1>1. ASSUME NEW w \in Workers, Claim(w), UNCHANGED attempt
      PROVE  \/ Reap /\ UNCHANGED <<run, worker, attempt>>
             \/ \E j \in Jobs, n \in Leases : Claims(w, j, n)
  <2>1. UNCHANGED <<run, worker, heartbeat, attempt>> /\ MayClaim(w, L)
    BY <1>1 DEF Claim
  <2>2. PICK S \in CandidateSets(J) :
          \/ Reap
          \/ \E j \in Runnable(w, L, S), n \in Leases : ClaimJob(w, j, n, L, J)
    BY <1>1 DEF Claim
  <2>3. CASE Reap
    BY <2>1, <2>3
  <2>4. CASE \E j \in Runnable(w, L, S), n \in Leases : ClaimJob(w, j, n, L, J)
    <3>1. PICK j \in Runnable(w, L, S), n \in Leases : ClaimJob(w, j, n, L, J)
      BY <2>4
    <3>2. j \in Jobs /\ J[j].status = "PENDING" /\ WebDomainQuotaAllows(L, j)
      BY <2>2 DEF Runnable, CandidateSets, Available
    <3> QED BY <2>1, <3>1, <3>2 DEF Claims
  <2> QED BY <2>2, <2>3, <2>4
<1>2. ASSUME NEW w \in Workers, NEW j \in Jobs, ClaimSpecific(w, j), UNCHANGED attempt
      PROVE  \E n \in Leases : Claims(w, j, n)
  <2>1. UNCHANGED <<run, worker, heartbeat, attempt>> /\ MayClaim(w, L)
    BY <1>2 DEF ClaimSpecific
  <2>2. J[j].status = "PENDING" /\ WebDomainQuotaAllows(L, j)
    BY <1>2 DEF ClaimSpecific, Available, Runnable
  <2>3. PICK n \in Leases : ClaimJob(w, j, n, L, J)
    BY <1>2 DEF ClaimSpecific
  <2> QED BY <2>1, <2>2, <2>3 DEF Claims
<1> QED BY <1>1, <1>2

\* Every other step keeps the leases as they are, ages them or closes some.
LEMMA LeaseSteps ==
  ASSUME TypeInv, [Next]_vars
  PROVE  \/ Kept(lease, lease') /\ worker' = worker
         \/ Kept(lease, lease') /\ \E w \in Workers, d \in WorkerDefinitions : UpdateWorker(w, d)
         \/ \E w \in Workers, j \in Jobs, n \in Leases : Claims(w, j, n)
<1> DEFINE Goal == \/ Kept(lease, lease') /\ worker' = worker
                   \/ Kept(lease, lease')
                        /\ \E w \in Workers, d \in WorkerDefinitions : UpdateWorker(w, d)
                   \/ \E w \in Workers, j \in Jobs, n \in Leases : Claims(w, j, n)
<1>1. ASSUME NEW S, S \subseteq {l \in Leases : Active(l)},
             NEW s \in {"RELEASED", "EXPIRED", "REVOKED"}, lease' = Closed(S, s)
      PROVE  Kept(lease, lease')
  <2>1. Kept(lease, Closed(S, s))
    BY <1>1, ClosedKeeps
  <2> QED BY <1>1, <2>1
<1>2. lease' = lease => Kept(lease, lease')
  BY SameKept
<1>3. ASSUME Reap PROVE Kept(lease, lease')
  <2>1. ExpiredLeases \subseteq {l \in Leases : Active(l)}
    BY DEF ExpiredLeases, Expired
  <2> QED BY <1>1, <1>3, <2>1 DEF Reap
<1>4. CASE LedgerStep
  BY <1>2, <1>4 DEF LedgerStep
<1>5. CASE UNCHANGED vars
  BY <1>2, <1>5 DEF vars
<1>6. CASE ExecutionStep
  <2>1. worker' = worker
    BY <1>6 DEF ExecutionStep, Start, MarkUploading, MarkVerifying, Transition, Complete, Fail,
                ReconcileExpired
  <2>2. \/ lease' = lease
        \/ \E l \in Leases : Active(l) /\ lease' = Closed({l}, "RELEASED")
        \/ lease' = Closed({l \in Orphaned : Active(l)}, "EXPIRED")
    BY <1>6 DEF ExecutionStep, Start, MarkUploading, MarkVerifying, Transition, Complete, Fail,
                ReconcileExpired, ActiveContext, OwnedActiveLease
  <2>3. {l \in Orphaned : Active(l)} \subseteq {l \in Leases : Active(l)}
    BY DEF Orphaned
  <2> QED BY <1>1, <1>2, <2>1, <2>2, <2>3
<1>7. CASE RegistryStep
  <2>1. UNCHANGED attempt
    BY <1>7 DEF RegistryStep
  <2>2. ASSUME NEW w \in Workers, NEW d \in WorkerDefinitions, UpdateWorker(w, d) PROVE Goal
    <3> DEFINE revoked == IF d.desired = "DISABLED" THEN ActiveLeases(w) ELSE {}
    <3>1. revoked \subseteq {l \in Leases : Active(l)}
      BY DEF ActiveLeases
    <3>2. lease' = Closed(revoked, "REVOKED")
      BY <2>2 DEF UpdateWorker
    <3> QED BY <1>1, <2>2, <3>1, <3>2
  <2>3. CASE \E w \in Workers, h \in Health, S \in SUBSET Leases : Heartbeat(w, h, S)
    BY <1>2, <2>3 DEF Heartbeat
  <2>4. CASE \E w \in Workers : Claim(w)
    BY <1>3, <2>1, <2>4, ClaimsOf
  <2>5. CASE \E w \in Workers, j \in Jobs : ClaimSpecific(w, j)
    BY <2>1, <2>5, ClaimsOf
  <2>6. ASSUME NEW l \in Leases, RenewLease(l) PROVE Goal
    <3>1. worker' = worker /\ Active(l)
      BY <2>6 DEF RenewLease, OwnedActiveLease
    <3>2. CASE Reap
      BY <1>3, <3>1, <3>2
    <3>3. CASE lease' = [lease EXCEPT ![l].ttl = Lesser(LeaseDuration, lease[l].life)]
      <4> DEFINE x == [lease[l] EXCEPT !.ttl = Lesser(LeaseDuration, lease[l].life)]
      <4>1. lease[l] \in LeaseRecord
        BY <3>1, Present DEF Active, TypeInv
      <4>2. /\ x.status = lease[l].status /\ x.worker = lease[l].worker
            /\ x.job = lease[l].job /\ x.age = lease[l].age /\ x.status # "NONE"
        BY <4>1 DEF LeaseRecord, LeaseStatus
      <4>3. lease' = [lease EXCEPT ![l] = x] /\ lease[l] # NoLease /\ x # NoLease
        BY <3>3, <4>1, <4>2, Absent DEF NoLease
      <4>4. Kept(lease, lease)
        BY SameKept
      <4> HIDE DEF x
      <4>5. Kept(lease, lease')
        BY <4>2, <4>3, <4>4 DEF Kept, TypeInv
      <4> QED BY <3>1, <4>5
    <3> QED BY <2>6, <3>2, <3>3 DEF RenewLease
  <2>7. ASSUME NEW l \in Leases, ReleaseLease(l) PROVE Goal
    <3>1. {l} \subseteq {m \in Leases : Active(m)}
      BY <2>7 DEF ReleaseLease, OwnedActiveLease
    <3> QED BY <1>1, <2>7, <3>1 DEF ReleaseLease
  <2>8. CASE ReapExpired
    BY <1>3, <2>8 DEF ReapExpired
  <2>9. CASE ClockTick
    <3>1. \A l \in Leases : lease[l] # NoLease => lease[l].age \in 0 .. (RateWindow + 1)
      BY Present DEF TypeInv, LeaseRecord
    <3>2. \A l \in Leases : lease[l] # NoLease =>
            Lesser(lease[l].age + 1, RateWindow + 1) >= lease[l].age
      BY <3>1, RegistryAssumption DEF Lesser
    <3>3. \A l \in Leases : lease[l] # NoLease =>
            /\ Aged(lease[l]).worker = lease[l].worker /\ Aged(lease[l]).job = lease[l].job
            /\ Aged(lease[l]).age >= lease[l].age /\ Aged(lease[l]).status = lease[l].status
      BY <3>2 DEF Aged
    <3>4. \A l \in Leases : lease[l] # NoLease => Aged(lease[l]) # NoLease
      BY Present, AgedType, Absent DEF TypeInv
    <3>5. Kept(lease, lease')
      BY <2>9, <3>3, <3>4 DEF ClockTick, Kept
    <3> QED BY <2>9, <3>5 DEF ClockTick
  <2> QED
    BY <1>7, <2>2, <2>3, <2>4, <2>5, <2>6, <2>7, <2>8, <2>9 DEF RegistryStep
<1> QED BY <1>4, <1>5, <1>6, <1>7 DEF Next

\* What a claim writes to the leases table: the reaped rows, and the new one.
LEMMA ClaimedRows ==
  ASSUME TypeInv, NEW w \in Workers, NEW j \in Jobs, NEW n \in Leases, Claims(w, j, n)
  PROVE  LET L == Closed(ExpiredLeases, "EXPIRED") IN
         /\ Kept(lease, L) /\ lease[n] = NoLease /\ lease'[n] # NoLease
         /\ lease'[n].status = "ACTIVE" /\ lease'[n].worker = w
         /\ lease'[n].job = j /\ lease'[n].age = 0
         /\ \A m \in Leases : m # n => lease'[m] = L[m]
<1> DEFINE L == Closed(ExpiredLeases, "EXPIRED")
           new == [status |-> "ACTIVE", worker |-> w, job |-> j, ttl |-> LeaseDuration,
                   life |-> MaxLeaseLifetime, age |-> 0]
<1>1. ExpiredLeases \subseteq {l \in Leases : Active(l)}
  BY DEF ExpiredLeases, Expired
<1>2. Kept(lease, L)
  BY <1>1, ClosedKeeps
<1>3. lease[n] = NoLease /\ lease' = [L EXCEPT ![n] = new]
  BY DEF Claims, ClaimJob
<1>4. L = [l \in Leases |-> L[l]]
  BY DEF Closed
<1>5. new.status = "ACTIVE" /\ new.worker = w /\ new.job = j /\ new.age = 0
  OBVIOUS
<1> HIDE DEF L, new
<1>6. lease'[n] = new /\ \A m \in Leases : m # n => lease'[m] = L[m]
  BY <1>3, <1>4
<1>7. new # NoLease
  BY <1>5 DEF NoLease
<1> QED BY <1>2, <1>3, <1>5, <1>6, <1>7 DEF L

-----------------------------------------------------------------------------
(* Who may hold a lease. *)

\* A disabled worker never holds an ACTIVE lease: update takes its leases away in
\* the transaction that disables it, claims need an ACTIVE worker, and no renewal,
\* release, reap or terminal request makes a lease ACTIVE again.
THEOREM DisabledWorkersHoldNothing == Spec => []DisabledHoldNothing
<1> DEFINE Inv == TypeInv /\ DisabledHoldNothing
<1>1. Init => Inv
  BY TypeInit DEF Init, RegistryInit, DisabledHoldNothing, ActiveLeases, Active, NoLease
<1>2. Inv /\ [Next]_vars => Inv'
  <2> SUFFICES ASSUME TypeInv, DisabledHoldNothing, [Next]_vars
               PROVE  TypeInv' /\ DisabledHoldNothing'
    OBVIOUS
  <2>1. TypeInv'
    BY TypeNext
  <2>2. \A l \in Leases : Active(l) => worker[lease[l].worker].desired # "DISABLED"
    <3>1. \A l \in Leases : Active(l) => lease[l].worker \in Workers
      BY Present DEF TypeInv, Active, LeaseRecord
    <3> QED BY <3>1 DEF DisabledHoldNothing, ActiveLeases
  <2>3. \A l \in Leases : lease[l].status = "ACTIVE" => lease[l] # NoLease
    BY DEF NoLease
  <2> SUFFICES ASSUME NEW l \in Leases, lease'[l].status = "ACTIVE"
               PROVE  worker'[lease'[l].worker].desired # "DISABLED"
    BY <2>1 DEF DisabledHoldNothing, ActiveLeases, Active
  <2>4. CASE Kept(lease, lease') /\ worker' = worker
    BY <2>2, <2>3, <2>4 DEF Kept, Active
  <2>5. ASSUME NEW w \in Workers, NEW d \in WorkerDefinitions, UpdateWorker(w, d),
               Kept(lease, lease')
        PROVE  worker'[lease'[l].worker].desired # "DISABLED"
    <3>1. Active(l) /\ lease'[l].worker = lease[l].worker
      BY <2>3, <2>5 DEF Kept, Active
    <3>2. worker' = [worker EXCEPT ![w] = d]
      BY <2>5 DEF UpdateWorker
    <3>3. CASE lease[l].worker # w
      BY <2>2, <3>1, <3>2, <3>3 DEF TypeInv, TypeOK, RegistryTypeOK
    <3>4. CASE lease[l].worker = w
      <4>1. d.desired # "DISABLED"
        BY <2>5, <3>1, <3>4 DEF UpdateWorker, Closed, ActiveLeases
      <4> QED BY <3>1, <3>2, <3>4, <4>1 DEF TypeInv, TypeOK, RegistryTypeOK
    <3> QED BY <3>3, <3>4
  <2>6. ASSUME NEW w \in Workers, NEW j \in Jobs, NEW n \in Leases, Claims(w, j, n)
        PROVE  worker'[lease'[l].worker].desired # "DISABLED"
    <3>1. worker' = worker /\ worker[w].desired = "ACTIVE"
      BY <2>6 DEF Claims, MayClaim
    <3>2. CASE l = n
      BY <2>6, <3>1, <3>2, ClaimedRows
    <3>3. CASE l # n
      BY <2>2, <2>3, <2>6, <3>1, <3>3, ClaimedRows DEF Kept, Active
    <3> QED BY <3>2, <3>3
  <2> QED BY <2>4, <2>5, <2>6, LeaseSteps
<1>3. Inv => DisabledHoldNothing
  OBVIOUS
<1> QED BY <1>1, <1>2, <1>3, PTL DEF Spec

-----------------------------------------------------------------------------
(* What the end of a lease does to its job and its run. *)

\* The requests of the worker that holds lease m.
Request(m) ==
  \/ Start(m) \/ MarkUploading(m) \/ MarkVerifying(m) \/ Complete(m)
  \/ \E retryable \in BOOLEAN : Fail(m, retryable)

\* A request needs an active lease that has not expired, and writes its own
\* attempt, its own run and its own lease only.
LEMMA RequestWrites ==
  ASSUME SafeInv, NEW m \in Leases, Request(m)
  PROVE  /\ Active(m) /\ lease[m].ttl > 0
         /\ \A l \in Leases : l # m => attempt'[l] = attempt[l] /\ lease'[l] = lease[l]
         /\ \A r \in Runs : r # RunOf(m) => run'[r] = run[r]
         /\ Start(m) \/ (Executing(m) /\ attempt[m] # NoAttempt)
<1>1. Active(m) /\ lease[m].ttl > 0
  BY DEF Request, Start, MarkUploading, MarkVerifying, Transition, Complete, Fail,
         ActiveContext, OwnedActiveLease
<1>2. \E a : attempt' = [attempt EXCEPT ![m] = a]
  BY DEF Request, Start, MarkUploading, MarkVerifying, Transition, Complete, Fail, Moved
<1>3. run' = run \/ \E s : run' = [run EXCEPT ![RunOf(m)].status = s]
  BY DEF Request, Start, MarkUploading, MarkVerifying, Transition, Complete, Fail, RunOf, JobOf
<1>4. lease' = lease \/ lease' = Closed({m}, "RELEASED")
  BY DEF Request, Start, MarkUploading, MarkVerifying, Transition, Complete, Fail
<1>5. Start(m) \/ Executing(m)
  BY DEF Request, MarkUploading, MarkVerifying, Transition, Complete, Fail, Executing,
         ActiveExecutionStates
<1>6. Executing(m) => attempt[m] # NoAttempt
  BY DEF Executing, ActiveExecutionStates, NoAttempt
<1>7. \A l \in Leases : l # m => attempt'[l] = attempt[l]
  BY <1>2 DEF SafeInv, TypeInv, TypeOK
<1>8. \A l \in Leases : l # m => lease'[l] = lease[l]
  BY <1>4 DEF Closed
<1>9. \A r \in Runs : r # RunOf(m) => run'[r] = run[r]
  BY <1>3 DEF SafeInv, TypeInv, TypeOK, RegistryTypeOK, LedgerTypeOK
<1> QED BY <1>1, <1>5, <1>6, <1>7, <1>8, <1>9

\* An execution keeps its run RUNNING.
LEMMA ExecutingRun ==
  ASSUME SafeInv, NEW l \in Leases, Executing(l)
  PROVE  /\ JobOf(l) \in Jobs /\ RunOf(l) \in Runs /\ JobOf(l) = <<RunOf(l), JobOf(l)[2]>>
         /\ JobOf(l)[2] \in 1 .. AttemptLimit
         /\ job[JobOf(l)].status \in ActiveExecutionStates
         /\ run[RunOf(l)].status = "RUNNING"
<1>1. JobOf(l) \in Jobs /\ job[JobOf(l)].status \in ActiveExecutionStates
  BY TypedRows DEF SafeInv, Rows, Agree, Executing, JobOf, ActiveExecutionStates
<1>2. /\ RunOf(l) \in Runs /\ JobOf(l) = <<RunOf(l), JobOf(l)[2]>>
      /\ JobOf(l)[2] \in 1 .. AttemptLimit
  BY <1>1 DEF Jobs, RunOf, JobOf
<1>3. RunRow(run, RunOf(l)) /\ RunAgrees(run, job, RunOf(l))
  BY <1>2, TypedRuns DEF SafeInv
<1>4. job[<<RunOf(l), JobOf(l)[2]>>].status \in Live
  BY <1>1, <1>2 DEF Live
<1>5. run[RunOf(l)].status = "RUNNING"
  BY <1>1, <1>2, <1>3, <1>4, LiveIsLast
<1> QED BY <1>1, <1>2, <1>5

\* No other lease is active on a run that is being executed.
LEMMA AloneOnRun ==
  ASSUME SafeInv, NEW l \in Leases, Executing(l), NEW m \in Leases, Active(m), m # l
  PROVE  RunOf(m) # RunOf(l)
<1> SUFFICES ASSUME RunOf(m) = RunOf(l) PROVE FALSE
  OBVIOUS
<1> DEFINE r == RunOf(l)
           i == JobOf(l)[2]
           k == JobOf(m)[2]
<1>1. /\ r \in Runs /\ JobOf(l) = <<r, i>> /\ i \in 1 .. AttemptLimit
      /\ job[<<r, i>>].status \in ActiveExecutionStates
  BY ExecutingRun
<1>2. JobOf(m) = <<r, k>> /\ k \in 1 .. AttemptLimit /\ job[<<r, k>>].status \in Live
  BY HeldJob
<1>3. job[<<r, i>>].status \in Live
  BY <1>1 DEF Live
<1>4. RunRow(run, r) /\ RunAgrees(run, job, r)
  BY <1>1, TypedRuns DEF SafeInv
<1>5. i = k
  <2> HIDE DEF r, i, k
  <2>1. \A h \in 1 .. AttemptLimit : job[<<r, h>>].status = "NONE" <=> h > i
    BY <1>1, <1>3, <1>4, LiveIsLast
  <2>2. \A h \in 1 .. AttemptLimit : job[<<r, h>>].status = "NONE" <=> h > k
    BY <1>2, <1>4, LiveIsLast
  <2> QED BY <1>1, <1>2, <2>1, <2>2, LedgerAssumption
<1>6. JobOf(m) = JobOf(l) /\ job[JobOf(m)].status # "LEASED"
  BY <1>1, <1>2, <1>5 DEF ActiveExecutionStates
<1>7. attempt[m].status # "NONE" /\ attempt[l].status # "NONE"
  BY <1>6 DEF SafeInv, Agree, Active, JobOf, Executing, ActiveExecutionStates
<1> QED BY <1>6, <1>7 DEF SafeInv, Agree, JobOf

\* Once execution has started, losing the lease is never treated as a safe retry:
\* the attempt only ever fails, through reconcileExpired, and fails its run with it.
THEOREM OrphansFail == Spec => OrphansOnlyFail
<1> DEFINE Step == \A l \in Orphaned :
                     /\ attempt'[l].status \in {attempt[l].status, "FAILED"}
                     /\ attempt'[l].status = "FAILED" => run'[RunOf(l)].status = "FAILED"
                     /\ run'[RunOf(l)].status \in {"RUNNING", "FAILED"}
<1>1. SafeInv /\ [Next]_vars => Step
  <2> SUFFICES ASSUME SafeInv, [Next]_vars, NEW l \in Orphaned
               PROVE  /\ attempt'[l].status \in {attempt[l].status, "FAILED"}
                      /\ attempt'[l].status = "FAILED" => run'[RunOf(l)].status = "FAILED"
                      /\ run'[RunOf(l)].status \in {"RUNNING", "FAILED"}
    OBVIOUS
  <2>1. l \in Leases /\ Executing(l) /\ (~Active(l) \/ lease[l].ttl = 0)
    BY DEF Orphaned
  <2>2. RunOf(l) \in Runs /\ run[RunOf(l)].status = "RUNNING" /\ attempt[l].status # "FAILED"
    BY <2>1, ExecutingRun DEF Executing, ActiveExecutionStates
  <2>3. CASE attempt'[l] = attempt[l] /\ run'[RunOf(l)] = run[RunOf(l)]
    BY <2>2, <2>3
  <2>4. CASE LedgerStep
    <3>1. attempt' = attempt
      BY <2>4 DEF LedgerStep
    <3>2. \A r \in Runs : \A p, k : DispatchManual(r, p, k) => run'[RunOf(l)] = run[RunOf(l)]
      BY <2>2 DEF DispatchManual, InsertRun, NoRun,
                  SafeInv, TypeInv, TypeOK, RegistryTypeOK, LedgerTypeOK
    <3>3. \A r \in Runs : Cancel(r) => run'[RunOf(l)] = run[RunOf(l)]
      BY <2>2 DEF Cancel, SafeInv, TypeInv, TypeOK, RegistryTypeOK, LedgerTypeOK
    <3> QED BY <2>3, <2>4, <3>1, <3>2, <3>3 DEF LedgerStep
  <2>5. CASE RegistryStep
    <3>1. run' = run /\ attempt' = attempt
      BY <2>5 DEF RegistryStep, UpdateWorker, Heartbeat, Claim, ClaimSpecific, RenewLease,
                  ReleaseLease, ReapExpired, ClockTick
    <3> QED BY <2>3, <3>1
  <2>6. ASSUME NEW m \in Leases, Request(m)
        PROVE  attempt'[l] = attempt[l] /\ run'[RunOf(l)] = run[RunOf(l)]
    <3>1. Active(m) /\ m # l
      BY <2>1, <2>6, RequestWrites
    <3>2. RunOf(m) # RunOf(l)
      BY <2>1, <3>1, AloneOnRun
    <3> QED BY <2>1, <2>2, <2>6, <3>1, <3>2, RequestWrites
  <2>7. CASE ReconcileExpired
    <3>1. attempt'[l].status = "FAILED"
      BY <2>1, <2>7 DEF ReconcileExpired
    <3>2. run'[RunOf(l)] = [run[RunOf(l)] EXCEPT !.status = "FAILED"]
      BY <2>2, <2>7 DEF ReconcileExpired
    <3>3. run[RunOf(l)] \in RunRecord
      BY <2>2, Present DEF SafeInv, TypeInv
    <3>4. run'[RunOf(l)].status = "FAILED"
      BY <3>2, <3>3 DEF RunRecord
    <3> QED BY <3>1, <3>4
  <2>8. CASE UNCHANGED vars
    BY <2>3, <2>8 DEF vars
  <2> QED
    BY <2>3, <2>4, <2>5, <2>6, <2>7, <2>8 DEF Next, ExecutionStep, Request
<1>2. SafeInv /\ [Next]_vars => SafeInv'
  BY SafeStep
<1>3. SafeInv /\ [Next]_vars => [Step]_vars
  BY <1>1
<1>4. Spec => [][Step]_vars
  BY <1>2, <1>3, SafeInit, PTL DEF Spec
<1> QED BY <1>4 DEF OrphansOnlyFail

\* A reservation that ends before execution started costs the run nothing: whoever
\* ends it (the worker, an administrator, the reaper or the next claim), the job is
\* available again or already leased anew, and the run is untouched.
THEOREM ReservationsReturn == Spec => LostReservationsReturn
<1> DEFINE Step == \A l \in Leases :
              Active(l) /\ attempt[l] = NoAttempt /\ ~Active(l)' =>
                /\ \/ job'[JobOf(l)].status = "PENDING"
                   \/ \E m \in Leases \ {l} : Active(m)' /\ lease'[m].job = JobOf(l)
                /\ run'[RunOf(l)] = run[RunOf(l)]
<1>1. SafeInv /\ [Next]_vars => Step
  <2> SUFFICES ASSUME SafeInv, [Next]_vars, NEW l \in Leases,
                      Active(l), attempt[l] = NoAttempt, lease'[l].status # "ACTIVE"
               PROVE  /\ \/ job'[JobOf(l)].status = "PENDING"
                         \/ \E m \in Leases \ {l} :
                              lease'[m].status = "ACTIVE" /\ lease'[m].job = JobOf(l)
                      /\ run'[RunOf(l)] = run[RunOf(l)]
    BY DEF Active
  <2>1. JobOf(l) \in Jobs /\ job[JobOf(l)].status = "LEASED" /\ ~Executing(l)
    <3>1. attempt[l].status = "NONE"
      BY DEF NoAttempt
    <3> QED BY <3>1, HeldJob DEF SafeInv, Agree, Active, JobOf, Executing, ActiveExecutionStates
  <2>2. ASSUME NEW S, NEW s, lease' = Closed(S, s), job' = ReturnedToPending(S), run' = run
        PROVE  job'[JobOf(l)].status = "PENDING" /\ run'[RunOf(l)] = run[RunOf(l)]
    <3>1. Closes(job, lease, job', lease', S, s)
      BY <2>2, ClosingEffect DEF SafeInv
    <3>2. l \in S
      BY <2>2 DEF Closed, Active
    <3> QED BY <2>1, <2>2, <3>1, <3>2 DEF Closes, JobOf
  <2>3. CASE LedgerStep
    BY <2>3 DEF LedgerStep, Active
  <2>4. CASE RegistryStep
    <3>1. run' = run /\ attempt' = attempt
      BY <2>4 DEF RegistryStep, UpdateWorker, Heartbeat, Claim, ClaimSpecific, RenewLease,
                  ReleaseLease, ReapExpired, ClockTick
    <3>2. CASE \E w \in Workers, d \in WorkerDefinitions : UpdateWorker(w, d)
      BY <2>2, <3>1, <3>2 DEF UpdateWorker
    <3>3. CASE \E w \in Workers, h \in Health, S \in SUBSET Leases : Heartbeat(w, h, S)
      BY <3>3 DEF Heartbeat, Active
    <3>4. CASE Reap
      BY <2>2, <3>1, <3>4 DEF Reap
    <3>5. ASSUME NEW w \in Workers, NEW j \in Jobs, NEW n \in Leases, Claims(w, j, n)
          PROVE  \/ job'[JobOf(l)].status = "PENDING"
                 \/ \E m \in Leases \ {l} :
                      lease'[m].status = "ACTIVE" /\ lease'[m].job = JobOf(l)
      <4> DEFINE J == ReturnedToPending(ExpiredLeases)
      <4>1. n # l /\ lease'[n].status = "ACTIVE" /\ lease'[n].job = j
        <5>1. lease[l] # NoLease
          BY DEF Active, NoLease
        <5> QED BY <3>5, <5>1, ClaimedRows DEF SafeInv
      <4>2. CASE j = JobOf(l)
        BY <4>1, <4>2
      <4>3. CASE j # JobOf(l)
        <5>1. job'[JobOf(l)] = J[JobOf(l)]
          <6>1. job' = [J EXCEPT ![j].status = "LEASED"]
            BY <3>5 DEF Claims, ClaimJob
          <6>2. J \in [Jobs -> JobRecord \cup {NoJob}]
            BY ReturnedType DEF SafeInv, TypeInv
          <6> HIDE DEF J
          <6> QED BY <2>1, <4>3, <6>1, <6>2
        <5>2. l \in ExpiredLeases
          <6>1. lease'[l] = Closed(ExpiredLeases, "EXPIRED")[l]
            BY <3>5, <4>1, ClaimedRows DEF SafeInv
          <6> QED BY <6>1 DEF Closed, Active
        <5>3. Closes(job, lease, J, Closed(ExpiredLeases, "EXPIRED"), ExpiredLeases, "EXPIRED")
          BY ClosingEffect DEF SafeInv
        <5> QED BY <2>1, <5>1, <5>2, <5>3 DEF Closes, JobOf
      <4> QED BY <4>2, <4>3
    <3>6. CASE \E w \in Workers : Claim(w)
      BY <3>1, <3>4, <3>5, <3>6, ClaimsOf
    <3>7. CASE \E w \in Workers, j \in Jobs : ClaimSpecific(w, j)
      BY <3>1, <3>5, <3>7, ClaimsOf
    <3>8. ASSUME NEW m \in Leases, RenewLease(m), ~Reap PROVE FALSE
      <4>1. lease' = [lease EXCEPT ![m].ttl = Lesser(LeaseDuration, lease[m].life)]
        BY <3>8 DEF RenewLease
      <4>2. lease[l] \in LeaseRecord
        BY Present DEF Active, SafeInv, TypeInv
      <4>3. [lease[l] EXCEPT !.ttl = Lesser(LeaseDuration, lease[l].life)].status = "ACTIVE"
        BY <4>2 DEF LeaseRecord, Active
      <4>4. lease'[l].status = "ACTIVE"
        BY <4>1, <4>3 DEF Active, SafeInv, TypeInv, TypeOK, RegistryTypeOK
      <4> QED BY <4>4
    <3>9. CASE \E m \in Leases : ReleaseLease(m)
      BY <2>2, <3>1, <3>9 DEF ReleaseLease
    <3>10. CASE ReapExpired
      BY <3>4, <3>10 DEF ReapExpired
    <3>11. CASE ClockTick
      BY <3>11 DEF ClockTick, Aged, Active, NoLease
    <3> QED
      BY <2>4, <3>2, <3>3, <3>4, <3>6, <3>7, <3>8, <3>9, <3>10, <3>11 DEF RegistryStep
  <2>5. ASSUME NEW m \in Leases, Request(m) PROVE FALSE
    <3>1. CASE Start(m)
      BY <3>1 DEF Start, Active
    <3>2. CASE m # l
      BY <2>5, <3>2, RequestWrites DEF Active
    <3> QED BY <2>5, <3>1, <3>2, RequestWrites
  <2>6. CASE ReconcileExpired
    BY <2>1, <2>6 DEF ReconcileExpired, Closed, Orphaned, Active
  <2>7. CASE UNCHANGED vars
    BY <2>7 DEF vars, Active
  <2> QED
    BY <2>3, <2>4, <2>5, <2>6, <2>7 DEF Next, ExecutionStep, Request
<1>2. SafeInv /\ [Next]_vars => SafeInv'
  BY SafeStep
<1>3. SafeInv /\ [Next]_vars => [Step]_vars
  BY <1>1
<1>4. Spec => [][Step]_vars
  BY <1>2, <1>3, SafeInit, PTL DEF Spec
<1> QED BY <1>4 DEF LostReservationsReturn

-----------------------------------------------------------------------------
(* The events of an attempt. *)

\* Taking the last element of a sequence off again.
LEMMA FrontOfAppend ==
  ASSUME NEW S, NEW s \in Seq(S), NEW x \in S
  PROVE  /\ Len(Append(s, x)) = Len(s) + 1 /\ Append(s, x)[Len(s) + 1] = x
         /\ SubSeq(Append(s, x), 1, Len(s)) = s
<1> DEFINE t == Append(s, x)
           f == SubSeq(t, 1, Len(s))
<1>1. /\ t \in Seq(S) /\ Len(t) = Len(s) + 1 /\ t[Len(s) + 1] = x
      /\ \A i \in 1 .. Len(s) : t[i] = s[i] /\ s[i] \in S
      /\ Len(s) \in Nat
  OBVIOUS
<1> HIDE DEF t
<1>2. /\ f \in Seq(S) /\ Len(f) = Len(s)
      /\ \A i \in 1 .. Len(s) : f[i] = t[i]
  <2>1. \A i \in 1 .. Len(s) : t[i] \in S
    BY <1>1
  <2>2. /\ f \in Seq(S)
        /\ Len(f) = IF 1 <= Len(s) THEN Len(s) - 1 + 1 ELSE 0
        /\ \A i \in 1 .. Len(s) - 1 + 1 : f[i] = t[1 + i - 1]
    BY <1>1, <2>1, SubSeqProperties
  <2> HIDE DEF f
  <2> QED BY <1>1, <2>2
<1>3. \A i \in 1 .. Len(f) : f[i] = s[i]
  BY <1>1, <1>2
<1> HIDE DEF f
<1>4. f = s
  BY <1>2, <1>3, SeqEqual
<1> QED BY <1>1, <1>4 DEF t, f

\* The ways through the stages.
LEMMA Paths ==
  /\ SubSeq(Stages, 1, 1) = <<"STARTED">>
  /\ Append(SubSeq(Stages, 1, 1), "UPLOADING") = SubSeq(Stages, 1, 2)
  /\ Append(SubSeq(Stages, 1, 2), "VERIFYING") = Stages
  /\ Stages = SubSeq(Stages, 1, 3)
  /\ \A k \in 1 .. 3 : SubSeq(Stages, 1, k) \in Seq(EventType) /\ Len(SubSeq(Stages, 1, k)) = k
<1>1. /\ Stages \in Seq(EventType) /\ Len(Stages) = 3
      /\ Stages[1] = "STARTED" /\ Stages[2] = "UPLOADING" /\ Stages[3] = "VERIFYING"
  <2>1. /\ Stages[1] = "STARTED" /\ Stages[2] = "UPLOADING" /\ Stages[3] = "VERIFYING"
    BY DEF Stages
  <2>2. Stages \in Seq(EventType)
    BY DEF Stages, EventType
  <2>3. Len(Stages) = 3
    BY DEF Stages
  <2> QED BY <2>1, <2>2, <2>3
<1>2. ASSUME NEW k \in 1 .. 3
      PROVE  /\ SubSeq(Stages, 1, k) \in Seq(EventType) /\ Len(SubSeq(Stages, 1, k)) = k
             /\ \A i \in 1 .. k : SubSeq(Stages, 1, k)[i] = Stages[i]
  <2>1. \A i \in 1 .. k : Stages[i] \in EventType
    BY <1>1 DEF EventType
  <2>2. /\ SubSeq(Stages, 1, k) \in Seq(EventType)
        /\ Len(SubSeq(Stages, 1, k)) = IF 1 <= k THEN k - 1 + 1 ELSE 0
        /\ \A i \in 1 .. k - 1 + 1 : SubSeq(Stages, 1, k)[i] = Stages[1 + i - 1]
    BY <2>1, SubSeqProperties
  <2> QED BY <2>2
<1> DEFINE P(k) == SubSeq(Stages, 1, k)
<1>3. /\ P(1) \in Seq(EventType) /\ Len(P(1)) = 1 /\ P(1)[1] = "STARTED"
  BY <1>1, <1>2
<1>4. P(2) \in Seq(EventType) /\ Len(P(2)) = 2 /\ P(2)[1] = "STARTED" /\ P(2)[2] = "UPLOADING"
  BY <1>1, <1>2
<1>5. /\ P(3) \in Seq(EventType) /\ Len(P(3)) = 3
      /\ P(3)[1] = Stages[1] /\ P(3)[2] = Stages[2] /\ P(3)[3] = Stages[3]
  BY <1>1, <1>2
<1> HIDE DEF P
<1>6. P(1) = <<"STARTED">>
  BY <1>3
<1>7. Append(P(1), "UPLOADING") = P(2)
  <2>1. /\ Append(P(1), "UPLOADING") \in Seq(EventType) /\ Len(Append(P(1), "UPLOADING")) = 2
        /\ Append(P(1), "UPLOADING")[1] = "STARTED" /\ Append(P(1), "UPLOADING")[2] = "UPLOADING"
    BY <1>3 DEF EventType
  <2>2. \A i \in 1 .. 2 : Append(P(1), "UPLOADING")[i] = P(2)[i]
    BY <2>1, <1>4
  <2> QED BY <2>1, <2>2, <1>4, SeqEqual
<1>8. Append(P(2), "VERIFYING") = Stages
  <2> DEFINE t == Append(P(2), "VERIFYING")
  <2>1. /\ t \in Seq(EventType) /\ Len(t) = 3
        /\ t[1] = "STARTED" /\ t[2] = "UPLOADING" /\ t[3] = "VERIFYING"
    <3>1. "VERIFYING" \in EventType
      BY DEF EventType
    <3>2. /\ t \in Seq(EventType) /\ Len(t) = Len(P(2)) + 1 /\ t[Len(P(2)) + 1] = "VERIFYING"
          /\ \A i \in 1 .. Len(P(2)) : t[i] = P(2)[i]
      BY <1>4, <3>1, AppendProperties
    <3> HIDE DEF t
    <3> QED BY <1>4, <3>2
  <2>2. \A i \in 1 .. 3 : t[i] = Stages[i]
    BY <2>1, <1>1
  <2> HIDE DEF t
  <2>3. t = Stages
    BY <2>1, <2>2, <1>1, SeqEqual
  <2> QED BY <2>3 DEF t
<1>9. Stages = P(3)
  <2>1. \A i \in 1 .. 3 : Stages[i] = P(3)[i]
    BY <1>5
  <2> QED BY <2>1, <1>1, <1>5, SeqEqual
<1> QED BY <1>2, <1>6, <1>7, <1>8, <1>9 DEF P

\* An attempt row whose events lead to where it is.
PathTo(x) ==
  CASE x.status = "RUNNING"   -> x.events = SubSeq(Stages, 1, 1)
    [] x.status = "UPLOADING" -> x.events = SubSeq(Stages, 1, 2)
    [] x.status = "VERIFYING" -> x.events = Stages
    [] x.status = "COMPLETED" -> x.events = Append(Stages, "COMPLETED")
    [] x.status = "FAILED"    ->
         /\ Len(x.events) \in 2 .. 4
         /\ SubSeq(x.events, 1, Len(x.events) - 1) = SubSeq(Stages, 1, Len(x.events) - 1)
         /\ x.events[Len(x.events)] \in {"FAILED", "ABANDONED"}

\* Failing or giving up an execution ends its path.
LEMMA FailedPath ==
  ASSUME NEW x, x.status \in ActiveExecutionStates, PathTo(x), NEW e \in {"FAILED", "ABANDONED"}
  PROVE  PathTo([status |-> "FAILED", events |-> Append(x.events, e)])
<1>1. PICK k \in 1 .. 3 : x.events = SubSeq(Stages, 1, k)
  <2>1. CASE x.status = "RUNNING"
    <3>1. x.events = SubSeq(Stages, 1, 1)
      BY <2>1 DEF PathTo
    <3> QED BY <3>1
  <2>2. CASE x.status = "UPLOADING"
    <3>1. x.events = SubSeq(Stages, 1, 2)
      BY <2>2 DEF PathTo
    <3> QED BY <3>1
  <2>3. CASE x.status = "VERIFYING"
    <3>1. x.events = SubSeq(Stages, 1, 3)
      BY <2>3, Paths DEF PathTo
    <3> QED BY <3>1
  <2> QED BY <2>1, <2>2, <2>3 DEF ActiveExecutionStates
<1>2. x.events \in Seq(EventType) /\ Len(x.events) = k
  BY <1>1, Paths
<1> DEFINE t == Append(x.events, e)
           y == [status |-> "FAILED", events |-> t]
<1>3. Len(t) = k + 1 /\ t[k + 1] = e /\ SubSeq(t, 1, k) = x.events
  <2>1. e \in EventType
    BY DEF EventType
  <2>2. /\ Len(t) = Len(x.events) + 1 /\ t[Len(x.events) + 1] = e
        /\ SubSeq(t, 1, Len(x.events)) = x.events
    BY <1>2, <2>1, FrontOfAppend
  <2> HIDE DEF t
  <2> QED BY <1>2, <2>2
<1>4. y.status = "FAILED" /\ y.events = t
  OBVIOUS
<1> HIDE DEF t, y
<1>5. Len(t) - 1 = k /\ Len(t) \in 2 .. 4
  BY <1>3
<1>6. /\ Len(y.events) \in 2 .. 4
      /\ SubSeq(y.events, 1, Len(y.events) - 1) = SubSeq(Stages, 1, Len(y.events) - 1)
      /\ y.events[Len(y.events)] \in {"FAILED", "ABANDONED"}
  BY <1>1, <1>3, <1>4, <1>5
<1>7. PathTo(y)
  BY <1>4, <1>6 DEF PathTo
<1> QED BY <1>7 DEF y, t

\* The events of every attempt are one path through the protocol that ends where the
\* attempt is: no stage skipped or repeated (start, transition), and exactly one
\* terminal event, of the worker (terminal) or of the reconciler, never both.
THEOREM EventsArePaths == Spec => []EventsTellThePath
<1> DEFINE Inv == TypeInv /\ EventsTellThePath
<1>1. EventsTellThePath <=> \A l \in Leases : attempt[l] # NoAttempt => PathTo(attempt[l])
  BY DEF EventsTellThePath, PathTo
<1>2. EventsTellThePath' <=> \A l \in Leases : attempt'[l] # NoAttempt => PathTo(attempt'[l])
  BY DEF EventsTellThePath, PathTo
<1>3. Init => Inv
  BY <1>1, TypeInit DEF Init
<1>4. Inv /\ [Next]_vars => Inv'
  <2> SUFFICES ASSUME TypeInv, \A l \in Leases : attempt[l] # NoAttempt => PathTo(attempt[l]),
                      [Next]_vars
               PROVE  \A l \in Leases : attempt'[l] # NoAttempt => PathTo(attempt'[l])
    BY <1>1, <1>2, TypeNext
  <2>1. CASE attempt' = attempt
    BY <2>1
  <2>2. ASSUME NEW m \in Leases, NEW a, attempt' = [attempt EXCEPT ![m] = a], PathTo(a)
        PROVE  \A l \in Leases : attempt'[l] # NoAttempt => PathTo(attempt'[l])
    BY <2>2 DEF TypeInv, TypeOK
  <2>3. CASE \E m \in Leases : Start(m)
    <3>1. PICK m \in Leases : Start(m)
      BY <2>3
    <3> DEFINE a == [status |-> "RUNNING", events |-> <<"STARTED">>]
    <3>2. a.status = "RUNNING" /\ a.events = <<"STARTED">>
      OBVIOUS
    <3>3. attempt' = [attempt EXCEPT ![m] = a]
      BY <3>1 DEF Start
    <3> HIDE DEF a
    <3>4. PathTo(a)
      BY <3>2, Paths DEF PathTo
    <3> QED BY <2>2, <3>3, <3>4
  <2>4. ASSUME NEW m \in Leases, NEW expected, NEW target,
               <<expected, target>> \in
                 {<<"RUNNING", "UPLOADING">>, <<"UPLOADING", "VERIFYING">>,
                  <<"VERIFYING", "COMPLETED">>},
               attempt[m].status = expected, attempt' = Moved(m, target, target)
        PROVE  \A l \in Leases : attempt'[l] # NoAttempt => PathTo(attempt'[l])
    <3> DEFINE a == [status |-> target, events |-> Append(attempt[m].events, target)]
    <3>1. attempt[m] # NoAttempt
      BY <2>4 DEF NoAttempt
    <3>2. PathTo(attempt[m])
      BY <3>1
    <3>3. a.status = target /\ a.events = Append(attempt[m].events, target)
      OBVIOUS
    <3>4. attempt' = [attempt EXCEPT ![m] = a]
      BY <2>4 DEF Moved
    <3> HIDE DEF a
    <3>5. PathTo(a)
      <4>1. CASE expected = "RUNNING" /\ target = "UPLOADING"
        BY <2>4, <3>2, <3>3, <4>1, Paths DEF PathTo
      <4>2. CASE expected = "UPLOADING" /\ target = "VERIFYING"
        BY <2>4, <3>2, <3>3, <4>2, Paths DEF PathTo
      <4>3. CASE expected = "VERIFYING" /\ target = "COMPLETED"
        BY <2>4, <3>2, <3>3, <4>3 DEF PathTo
      <4> QED BY <2>4, <4>1, <4>2, <4>3
    <3> QED BY <2>2, <3>4, <3>5
  <2>5. CASE \E m \in Leases, retryable \in BOOLEAN : Fail(m, retryable)
    <3>1. PICK m \in Leases : Executing(m) /\ attempt' = Moved(m, "FAILED", "FAILED")
      BY <2>5 DEF Fail
    <3> DEFINE a == [status |-> "FAILED", events |-> Append(attempt[m].events, "FAILED")]
    <3>2. attempt' = [attempt EXCEPT ![m] = a]
      BY <3>1 DEF Moved
    <3>3. PathTo(attempt[m]) /\ attempt[m].status \in ActiveExecutionStates
      BY <3>1 DEF Executing, ActiveExecutionStates, NoAttempt
    <3>4. PathTo(a)
      BY <3>3, FailedPath
    <3> HIDE DEF a
    <3> QED BY <2>2, <3>2, <3>4
  <2>6. CASE ReconcileExpired
    <3> SUFFICES ASSUME NEW l \in Leases, attempt'[l] # NoAttempt PROVE PathTo(attempt'[l])
      OBVIOUS
    <3>1. CASE l \notin Orphaned
      BY <2>6, <3>1 DEF ReconcileExpired
    <3>2. CASE l \in Orphaned
      <4>1. attempt'[l] = [status |-> "FAILED", events |-> Append(attempt[l].events, "ABANDONED")]
        BY <2>6, <3>2 DEF ReconcileExpired
      <4>2. PathTo(attempt[l]) /\ attempt[l].status \in ActiveExecutionStates
        BY <3>2 DEF Orphaned, Executing, ActiveExecutionStates, NoAttempt
      <4> QED BY <4>1, <4>2, FailedPath
    <3> QED BY <3>1, <3>2
  <2>7. CASE \E m \in Leases : MarkUploading(m) \/ MarkVerifying(m) \/ Complete(m)
    BY <2>4, <2>7 DEF MarkUploading, MarkVerifying, Transition, Complete
  <2> QED
    BY <2>1, <2>3, <2>5, <2>6, <2>7 DEF Next, LedgerStep, RegistryStep, ExecutionStep, vars
<1>5. Inv => EventsTellThePath
  OBVIOUS
<1> QED BY <1>3, <1>4, <1>5, PTL DEF Spec

-----------------------------------------------------------------------------
(* The lifecycle of a run, as its caller sees it. *)

\* The attempt numbers under which jobs of run r have been started, in the table J.
StartedJobs(J, r) == {n \in 1 .. AttemptLimit : J[<<r, n>>].status \in Started}

\* The same, read off the leases and attempts L and A.
AttemptedJobs(L, A, r) ==
  {n \in 1 .. AttemptLimit : \E l \in Leases : A[l].status # "NONE" /\ L[l].job = <<r, n>>}

\* A job that was started was started under a lease, whose attempt is still there.
\* With Agree this makes the two the same.
StartedUnderLease(J, L, A) ==
  \A j \in Jobs : J[j].status \in Started =>
    \E l \in Leases : A[l].status # "NONE" /\ L[l].job = j

LifeInv == SafeInv /\ StartedUnderLease(job, lease, attempt)

\* Registry steps move jobs between PENDING and LEASED only.
LEMMA RegistryJobs ==
  ASSUME SafeInv, RegistryStep, NEW j \in Jobs
  PROVE  \/ job'[j].status = job[j].status
         \/ {job'[j].status, job[j].status} \subseteq {"PENDING", "LEASED"}
<1>1. ASSUME NEW S, NEW i \in Jobs
      PROVE  \/ ReturnedToPending(S)[i].status = job[i].status
             \/ {ReturnedToPending(S)[i].status, job[i].status} \subseteq {"PENDING", "LEASED"}
  <2>1. Closes(job, lease, ReturnedToPending(S), Closed(S, "EXPIRED"), S, "EXPIRED")
    BY ClosingEffect DEF SafeInv
  <2> QED BY <2>1 DEF Closes
<1>2. CASE job' = job
  BY <1>2
<1>3. CASE \E S : job' = ReturnedToPending(S)
  BY <1>1, <1>3
<1>4. ASSUME NEW w \in Workers, NEW i \in Jobs, NEW n \in Leases, Claims(w, i, n)
      PROVE  \/ job'[j].status = job[j].status
             \/ {job'[j].status, job[j].status} \subseteq {"PENDING", "LEASED"}
  <2> DEFINE J == ReturnedToPending(ExpiredLeases)
  <2>1. job' = [J EXCEPT ![i].status = "LEASED"] /\ J[i].status = "PENDING"
    BY <1>4 DEF Claims, ClaimJob
  <2>2. J \in [Jobs -> JobRecord \cup {NoJob}]
    BY ReturnedType DEF SafeInv, TypeInv
  <2>3. /\ \/ J[i].status = job[i].status
           \/ {J[i].status, job[i].status} \subseteq {"PENDING", "LEASED"}
        /\ \/ J[j].status = job[j].status
           \/ {J[j].status, job[j].status} \subseteq {"PENDING", "LEASED"}
    BY <1>1
  <2> HIDE DEF J
  <2>4. [J[i] EXCEPT !.status = "LEASED"].status = "LEASED"
    BY <2>1, <2>2 DEF JobRecord, NoJob
  <2>5. job'[j] = IF j = i THEN [J[i] EXCEPT !.status = "LEASED"] ELSE J[j]
    BY <2>1, <2>2
  <2> QED BY <2>1, <2>3, <2>4, <2>5
<1>5. CASE ClockTick
  <2>1. job[j] # NoJob => [job[j] EXCEPT !.wait = Before(@)].status = job[j].status
    BY Present DEF SafeInv, TypeInv, JobRecord
  <2> QED BY <1>5, <2>1 DEF ClockTick
<1>6. UNCHANGED attempt
  BY DEF RegistryStep
<1>7. CASE \E w \in Workers : Claim(w)
  <2>1. CASE Reap
    BY <1>3, <2>1 DEF Reap
  <2> QED BY <1>4, <1>6, <1>7, <2>1, ClaimsOf
<1>8. CASE \E w \in Workers, i \in Jobs : ClaimSpecific(w, i)
  BY <1>4, <1>6, <1>8, ClaimsOf
<1>9. CASE \E w \in Workers, d \in WorkerDefinitions : UpdateWorker(w, d)
  BY <1>3, <1>9 DEF UpdateWorker
<1>10. CASE \E l \in Leases : RenewLease(l) \/ ReleaseLease(l)
  <2>1. job' = job \/ \E S : job' = ReturnedToPending(S)
    BY <1>10 DEF RenewLease, ReleaseLease, Reap
  <2> QED BY <1>2, <1>3, <2>1
<1>11. CASE ReapExpired
  BY <1>3, <1>11 DEF ReapExpired, Reap
<1>12. CASE \E w \in Workers, h \in Health, S \in SUBSET Leases : Heartbeat(w, h, S)
  BY <1>2, <1>12 DEF Heartbeat
<1> QED
  BY <1>5, <1>7, <1>8, <1>9, <1>10, <1>11, <1>12 DEF RegistryStep

\* A request starts its own job, or finds it started, and starts no other.
LEMMA RequestJobs ==
  ASSUME SafeInv, NEW m \in Leases, Request(m)
  PROVE  /\ job'[JobOf(m)].status \in Started /\ attempt'[m].status # "NONE"
         /\ \A j \in Jobs : j # JobOf(m) =>
              (job'[j].status \in Started <=> job[j].status \in Started)
<1> DEFINE r == RunOf(m)
           i == JobOf(m)[2]
<1>1. Active(m)
  BY RequestWrites
<1>2. /\ JobOf(m) \in Jobs /\ JobOf(m) = <<r, i>> /\ r \in Runs /\ i \in 1 .. AttemptLimit
      /\ job[JobOf(m)] \in JobRecord /\ run[r] \in RunRecord /\ job[<<r, i>>].status \in Live
  BY <1>1, HeldJob
<1>3. attempt'[m].status # "NONE"
  <2>1. \E s \in AttemptStatus : \E e : attempt' = [attempt EXCEPT ![m] = [status |-> s, events |-> e]]
    BY DEF Request, Start, MarkUploading, MarkVerifying, Transition, Complete, Fail, Moved,
           AttemptStatus, ActiveExecutionStates
  <2> QED BY <2>1 DEF AttemptStatus, ActiveExecutionStates, SafeInv, TypeInv, TypeOK
<1>4. ASSUME NEW s \in Started, job' = [job EXCEPT ![JobOf(m)].status = s]
      PROVE  /\ job'[JobOf(m)].status \in Started
             /\ \A j \in Jobs : j # JobOf(m) => job'[j] = job[j]
  BY <1>2, <1>4 DEF JobRecord, SafeInv, TypeInv, TypeOK, RegistryTypeOK, LedgerTypeOK
<1>5. CASE \E s \in Started : job' = [job EXCEPT ![JobOf(m)].status = s]
  BY <1>3, <1>4, <1>5
<1>6. CASE \E d : /\ i < MaxAttempts[PlanOf(JobOf(m))]
                  /\ job' = [job EXCEPT ![JobOf(m)].status = "RETRY",
                                        ![<<r, i + 1>>] = [status |-> "PENDING", wait |-> d]]
  <2>1. PICK d : /\ i < MaxAttempts[PlanOf(JobOf(m))]
                 /\ job' = [job EXCEPT ![JobOf(m)].status = "RETRY",
                                       ![<<r, i + 1>>] = [status |-> "PENDING", wait |-> d]]
    BY <1>6
  <2> DEFINE row == [status |-> "PENDING", wait |-> d]
             old == [job[JobOf(m)] EXCEPT !.status = "RETRY"]
  <2>2. old.status = "RETRY" /\ row.status = "PENDING"
    BY <1>2 DEF JobRecord
  <2>3. <<r, i + 1>> # <<r, i>>
    BY <1>2
  <2>4. <<r, i + 1>> \in Jobs /\ i + 1 \in 1 .. AttemptLimit
    <3>1. MaxAttempts[run[r].plan] \in 1 .. AttemptLimit /\ i < MaxAttempts[run[r].plan]
      BY <1>2, <2>1, LedgerAssumption DEF PlanOf, RunOf, JobOf, RunRecord
    <3> QED BY <1>2, <3>1, LedgerAssumption DEF Jobs
  <2>5. \A j \in Jobs : job'[j] = IF j = <<r, i + 1>> THEN row
                                  ELSE IF j = <<r, i>> THEN old ELSE job[j]
    <3>1. job' = [[job EXCEPT ![<<r, i>>] = old] EXCEPT ![<<r, i + 1>>] = row]
      BY <1>2, <2>1
    <3>2. job \in [Jobs -> JobRecord \cup {NoJob}]
      BY DEF SafeInv, TypeInv, TypeOK, RegistryTypeOK, LedgerTypeOK
    <3> HIDE DEF old, row, r, i
    <3> QED BY <3>1, <3>2
  <2>6. job[<<r, i + 1>>].status = "NONE"
    <3>1. RunRow(run, r) /\ RunAgrees(run, job, r)
      BY <1>2, TypedRuns DEF SafeInv
    <3> HIDE DEF r, i
    <3>2. \A k \in 1 .. AttemptLimit : job[<<r, k>>].status = "NONE" <=> k > i
      BY <1>2, <3>1, LiveIsLast
    <3> QED BY <1>2, <2>4, <3>2, LedgerAssumption
  <2> HIDE DEF row, old, r, i
  <2> QED BY <1>2, <1>3, <2>2, <2>3, <2>4, <2>5, <2>6 DEF Started
<1>7. ASSUME NEW b \in BOOLEAN, Fail(m, b)
      PROVE  \/ \E s \in Started : job' = [job EXCEPT ![JobOf(m)].status = s]
             \/ \E d : /\ i < MaxAttempts[PlanOf(JobOf(m))]
                       /\ job' = [job EXCEPT ![JobOf(m)].status = "RETRY",
                                        ![<<r, i + 1>>] = [status |-> "PENDING", wait |-> d]]
  BY <1>7 DEF Fail, Started, RunOf, JobOf
<1> QED
  BY <1>5, <1>6, <1>7 DEF Request, Start, MarkUploading, MarkVerifying, Transition, Complete,
                          Started

\* What the ledger writes touches no job that was started.
LEMMA LedgerJobs ==
  ASSUME SafeInv, LedgerStep, NEW j \in Jobs
  PROVE  job'[j].status \in Started <=> job[j].status \in Started
<1>1. ASSUME NEW r \in Runs, NEW p \in Plans, NEW k, DispatchManual(r, p, k)
      PROVE  job'[j].status \in Started <=> job[j].status \in Started
  <2>1. <<r, 1>> \in Jobs /\ 1 \in 1 .. AttemptLimit
    BY LedgerAssumption DEF Jobs
  <2>2. run[r].status = "NONE"
    BY <1>1 DEF DispatchManual, NoRun
  <2>3. job[<<r, 1>>].status = "NONE"
    BY <2>1, <2>2 DEF SafeInv, RunAgrees
  <2>4. job' = [job EXCEPT ![<<r, 1>>] = [status |-> "PENDING", wait |-> 0]]
    BY <1>1 DEF DispatchManual, InsertRun
  <2>5. job \in [Jobs -> JobRecord \cup {NoJob}]
    BY DEF SafeInv, TypeInv, TypeOK, RegistryTypeOK, LedgerTypeOK
  <2> QED BY <2>1, <2>3, <2>4, <2>5 DEF Started
<1>2. ASSUME NEW r \in Runs, Cancel(r)
      PROVE  job'[j].status \in Started <=> job[j].status \in Started
  <2>1. CASE j \notin JobsOf(r)
    BY <1>2, <2>1 DEF Cancel
  <2>2. CASE j \in JobsOf(r)
    <3>1. job[j].status = "PENDING" /\ job'[j] = [job[j] EXCEPT !.status = "CANCELLED"]
      BY <1>2, <2>2 DEF Cancel
    <3>2. job[j] \in JobRecord
      BY <3>1, Present DEF SafeInv, TypeInv
    <3> QED BY <3>1, <3>2 DEF JobRecord, Started
  <2> QED BY <2>1, <2>2
<1> QED BY <1>1, <1>2 DEF LedgerStep

\* No step loses an attempt, or which job it was made at.
LEMMA AttemptsStay ==
  ASSUME SafeInv, [Next]_vars, NEW l \in Leases, attempt[l].status # "NONE"
  PROVE  attempt'[l].status # "NONE" /\ lease'[l].job = lease[l].job
<1>1. lease[l] # NoLease
  BY TypedRows DEF SafeInv, Rows, NoLease
<1>2. lease'[l].job = lease[l].job
  <2>1. CASE Kept(lease, lease')
    BY <1>1, <2>1 DEF Kept
  <2>2. ASSUME NEW w \in Workers, NEW j \in Jobs, NEW n \in Leases, Claims(w, j, n)
        PROVE  lease'[l].job = lease[l].job
    BY <1>1, <2>2, ClaimedRows DEF SafeInv, Kept
  <2> QED BY <2>1, <2>2, LeaseSteps DEF SafeInv
<1>3. attempt'[l].status # "NONE"
  <2>1. CASE attempt' = attempt
    BY <2>1
  <2>2. ASSUME NEW m \in Leases, Request(m) PROVE attempt'[l].status # "NONE"
    BY <2>2, RequestJobs, RequestWrites
  <2>3. CASE ReconcileExpired
    BY <2>3 DEF ReconcileExpired
  <2> QED
    BY <2>1, <2>2, <2>3 DEF Next, LedgerStep, RegistryStep, ExecutionStep, Request, vars
<1> QED BY <1>2, <1>3

LEMMA LifeInit == Init => LifeInv
<1> SUFFICES ASSUME Init PROVE LifeInv
  OBVIOUS
<1>1. \A j \in Jobs : job[j].status = "NONE"
  BY DEF Init, RegistryInit, LedgerInit, NoJob
<1> QED BY <1>1, SafeInit DEF LifeInv, StartedUnderLease, Started

LEMMA LifeStep == LifeInv /\ [Next]_vars => LifeInv'
<1> SUFFICES ASSUME LifeInv, [Next]_vars PROVE LifeInv'
  OBVIOUS
<1>0. SafeInv
  BY DEF LifeInv
<1>1. SafeInv'
  BY <1>0, SafeStep
<1> SUFFICES ASSUME NEW j \in Jobs, job'[j].status \in Started
             PROVE  \E l \in Leases : attempt'[l].status # "NONE" /\ lease'[l].job = j
  BY <1>1 DEF LifeInv, StartedUnderLease
<1>2. CASE job[j].status \in Started
  <2>1. PICK l \in Leases : attempt[l].status # "NONE" /\ lease[l].job = j
    BY <1>2 DEF LifeInv, StartedUnderLease
  <2> QED BY <1>0, <2>1, AttemptsStay
<1>3. CASE job[j].status \notin Started
  <2>1. ~LedgerStep
    BY <1>0, <1>3, LedgerJobs
  <2>2. ~RegistryStep
    BY <1>0, <1>3, RegistryJobs DEF Started
  <2>3. ASSUME NEW m \in Leases, Request(m)
        PROVE  \E l \in Leases : attempt'[l].status # "NONE" /\ lease'[l].job = j
    <3>1. j = JobOf(m) /\ attempt'[m].status # "NONE"
      BY <1>0, <1>3, <2>3, RequestJobs
    <3>2. lease'[m].job = JobOf(m)
      <4>1. lease' = lease \/ lease' = Closed({m}, "RELEASED")
        BY <2>3 DEF Request, Start, MarkUploading, MarkVerifying, Transition, Complete, Fail
      <4> QED BY <4>1 DEF Closed, JobOf
    <3> QED BY <3>1, <3>2
  <2>4. CASE ReconcileExpired
    <3>1. PICK l \in Orphaned : JobOf(l) = j
      BY <1>3, <2>4 DEF ReconcileExpired
    <3>2. l \in Leases /\ attempt[l].status # "NONE"
      BY <3>1 DEF Orphaned, Executing, ActiveExecutionStates
    <3> QED BY <1>0, <3>1, <3>2, AttemptsStay DEF JobOf
  <2>5. ~UNCHANGED vars
    BY <1>3 DEF vars
  <2> QED
    BY <2>1, <2>2, <2>3, <2>4, <2>5 DEF Next, ExecutionStep, Request
<1> QED BY <1>2, <1>3

LEMMA AttemptedAreStarted ==
  ASSUME NEW J, NEW L, NEW A, Rows(J, L, A), Agree(J, L, A), StartedUnderLease(J, L, A),
         NEW r \in Runs
  PROVE  AttemptedJobs(L, A, r) = StartedJobs(J, r)
<1>1. \A n \in 1 .. AttemptLimit : <<r, n>> \in Jobs
  BY DEF Jobs
<1> QED
  BY <1>1 DEF AttemptedJobs, StartedJobs, StartedUnderLease, Agree

\* The refinement mapping reads off the attempts what the jobs table says.
LEMMA MappedStarted ==
  /\ LifeInv => \A r \in Runs : StartedAttempts(r) = StartedJobs(job, r)
  /\ LifeInv' => \A r \in Runs : StartedAttempts(r)' = StartedJobs(job', r)
<1>1. TypeInv => \A l \in Leases : attempt[l] = NoAttempt <=> attempt[l].status = "NONE"
  BY DEF TypeInv, TypeOK, AttemptRecord, AttemptStatus, ActiveExecutionStates, NoAttempt
<1>2. TypeInv' => \A l \in Leases : attempt'[l] = NoAttempt <=> attempt'[l].status = "NONE"
  BY DEF TypeInv, TypeOK, AttemptRecord, AttemptStatus, ActiveExecutionStates, NoAttempt
<1>3. ASSUME LifeInv, NEW r \in Runs PROVE StartedAttempts(r) = StartedJobs(job, r)
  <2>1. StartedAttempts(r) = AttemptedJobs(lease, attempt, r)
    BY <1>1, <1>3 DEF LifeInv, SafeInv, StartedAttempts, AttemptedJobs, JobOf
  <2>2. Rows(job, lease, attempt) /\ Agree(job, lease, attempt)
    BY <1>3, TypedRows DEF LifeInv, SafeInv
  <2> QED BY <1>3, <2>1, <2>2, AttemptedAreStarted DEF LifeInv
<1>4. ASSUME LifeInv', NEW r \in Runs PROVE StartedAttempts(r)' = StartedJobs(job', r)
  <2>1. StartedAttempts(r)' = AttemptedJobs(lease', attempt', r)
    BY <1>2, <1>4 DEF LifeInv, SafeInv, StartedAttempts, AttemptedJobs, JobOf
  <2>2. (TypeInv => Rows(job, lease, attempt))'
    BY TypedRows, PTL
  <2>3. Rows(job', lease', attempt') /\ Agree(job', lease', attempt')
    BY <1>4, <2>2 DEF LifeInv, SafeInv
  <2>4. StartedUnderLease(job', lease', attempt')
    BY <1>4 DEF LifeInv
  <2> QED BY <2>1, <2>3, <2>4, AttemptedAreStarted
<1> QED BY <1>3, <1>4

\* The mapped variables, with the jobs table for the attempts.
Phases == [q \in Runs |-> run[q].status]
Limits == [q \in Runs |-> RunLimit(q)]
StartedOf(J) == [q \in Runs |-> StartedJobs(J, q)]

LEMMA Mapping ==
  ASSUME LifeInv, LifeInv'
  PROVE  /\ [q \in Runs |-> StartedAttempts(q)] = StartedOf(job)
         /\ [q \in Runs |-> StartedAttempts(q)]' = StartedOf(job')
BY MappedStarted DEF StartedOf

\* A step that starts no job keeps what is started.
LEMMA StartedStays ==
  ASSUME \A j \in Jobs : job'[j].status \in Started <=> job[j].status \in Started
  PROVE  StartedOf(job') = StartedOf(job)
<1>1. \A q \in Runs, n \in 1 .. AttemptLimit : <<q, n>> \in Jobs
  BY DEF Jobs
<1> QED BY <1>1 DEF StartedOf, StartedJobs

\* A step that writes the status of run r only.
LEMMA PhaseMoves ==
  ASSUME NEW r \in Runs, run[r] # NoRun, run'[r] # NoRun, run'[r].plan = run[r].plan,
         \A q \in Runs : q # r => run'[q] = run[q]
  PROVE  Phases' = [Phases EXCEPT ![r] = run'[r].status] /\ Limits' = Limits
<1>1. \A q \in Runs : RunLimit(q)' = RunLimit(q)
  BY DEF RunLimit
<1> QED BY <1>1 DEF Phases, Limits

\* What a request does to its own run.
LEMMA RequestRun ==
  ASSUME SafeInv, NEW m \in Leases, Request(m)
  PROVE  /\ RunOf(m) \in Runs /\ run[RunOf(m)] # NoRun /\ run'[RunOf(m)] # NoRun
         /\ run'[RunOf(m)].plan = run[RunOf(m)].plan
         /\ \A q \in Runs : q # RunOf(m) => run'[q] = run[q]
         /\ Start(m) => run'[RunOf(m)].status = "RUNNING"
         /\ Complete(m) => run'[RunOf(m)].status = "COMPLETED"
         /\ MarkUploading(m) \/ MarkVerifying(m) => run' = run
         /\ \A b \in BOOLEAN : Fail(m, b) =>
              \/ run'[RunOf(m)].status = "FAILED"
              \/ run'[RunOf(m)].status = "PENDING" /\ JobOf(m)[2] < MaxAttempts[PlanOf(JobOf(m))]
<1> DEFINE r == RunOf(m)
<1>1. Active(m) /\ \A q \in Runs : q # r => run'[q] = run[q]
  BY RequestWrites
<1>2. r \in Runs /\ run[r] \in RunRecord
  BY <1>1, HeldJob
<1>3. ASSUME NEW s \in RunStatus, run' = [run EXCEPT ![r].status = s]
      PROVE  run'[r] \in RunRecord /\ run'[r].plan = run[r].plan /\ run'[r].status = s
  BY <1>2, <1>3 DEF RunRecord, SafeInv, TypeInv, TypeOK, RegistryTypeOK, LedgerTypeOK
<1>4. /\ Start(m) => run' = [run EXCEPT ![r].status = "RUNNING"]
      /\ Complete(m) => run' = [run EXCEPT ![r].status = "COMPLETED"]
      /\ MarkUploading(m) \/ MarkVerifying(m) => run' = run
      /\ \A b \in BOOLEAN : Fail(m, b) =>
           \/ run' = [run EXCEPT ![r].status = "FAILED"]
           \/ /\ run' = [run EXCEPT ![r].status = "PENDING"]
              /\ JobOf(m)[2] < MaxAttempts[PlanOf(JobOf(m))]
  BY DEF Start, Complete, MarkUploading, MarkVerifying, Transition, Fail, RunOf, JobOf
<1>5. {"RUNNING", "COMPLETED", "FAILED", "PENDING"} \subseteq RunStatus
  BY DEF RunStatus
<1> HIDE DEF r
<1>6. run' = run \/ \E s \in RunStatus : run' = [run EXCEPT ![r].status = s]
  BY <1>4, <1>5 DEF Request
<1>7. run'[r] \in RunRecord /\ run'[r].plan = run[r].plan
  BY <1>2, <1>3, <1>6
<1> QED BY <1>1, <1>2, <1>3, <1>4, <1>5, <1>7, Absent DEF r

\* A run whose attempt i is live has started the attempts before it, and i itself
\* exactly when it is being executed.
LEMMA StartedSoFar ==
  ASSUME SafeInv, NEW r \in Runs, NEW i \in 1 .. AttemptLimit, job[<<r, i>>].status \in Live
  PROVE  /\ run[r] # NoRun /\ i <= RunLimit(r) /\ RunLimit(r) \in 1 .. AttemptLimit
         /\ job[<<r, i>>].status \in {"PENDING", "LEASED"} =>
              run[r].status = "PENDING" /\ StartedJobs(job, r) = 1 .. (i - 1)
         /\ job[<<r, i>>].status \in ActiveExecutionStates =>
              run[r].status = "RUNNING" /\ StartedJobs(job, r) = 1 .. i
<1>1. RunRow(run, r) /\ RunAgrees(run, job, r)
  BY TypedRuns DEF SafeInv
<1>2. /\ run[r].status # "NONE" /\ i <= MaxAttempts[run[r].plan]
      /\ \A k \in 1 .. AttemptLimit : job[<<r, k>>].status = "NONE" <=> k > i
      /\ \A k \in 1 .. (i - 1) : job[<<r, k>>].status = "RETRY"
      /\ job[<<r, i>>].status \in {"PENDING", "LEASED"} => run[r].status = "PENDING"
      /\ job[<<r, i>>].status \in ActiveExecutionStates => run[r].status = "RUNNING"
  BY <1>1, LiveIsLast
<1>3. run[r] # NoRun
  BY <1>2 DEF NoRun
<1>4. RunLimit(r) = MaxAttempts[run[r].plan] /\ RunLimit(r) \in 1 .. AttemptLimit
  BY <1>1, <1>2, <1>3, LedgerAssumption DEF RunLimit, RunRow
<1>5. \A k \in 1 .. AttemptLimit : k # i => (job[<<r, k>>].status \in Started <=> k \in 1 .. (i - 1))
  <2> SUFFICES ASSUME NEW k \in 1 .. AttemptLimit, k # i
               PROVE  job[<<r, k>>].status \in Started <=> k \in 1 .. (i - 1)
    OBVIOUS
  <2>1. CASE k > i
    BY <1>2, <2>1, LedgerAssumption DEF Started
  <2>2. CASE k \in 1 .. (i - 1)
    BY <1>2, <2>2 DEF Started
  <2> QED BY <2>1, <2>2, LedgerAssumption
<1>6. CASE job[<<r, i>>].status \in {"PENDING", "LEASED"}
  <2>1. job[<<r, i>>].status \notin Started /\ job[<<r, i>>].status \notin ActiveExecutionStates
    BY <1>6 DEF Started, ActiveExecutionStates
  <2>2. StartedJobs(job, r) = 1 .. (i - 1)
    BY <1>5, <2>1, LedgerAssumption DEF StartedJobs
  <2> QED BY <1>2, <1>3, <1>4, <2>1, <2>2
<1>7. CASE job[<<r, i>>].status \in ActiveExecutionStates
  <2>1. job[<<r, i>>].status \in Started /\ job[<<r, i>>].status \notin {"PENDING", "LEASED"}
    BY <1>7 DEF Started, ActiveExecutionStates
  <2>2. StartedJobs(job, r) = 1 .. i
    BY <1>5, <2>1, LedgerAssumption DEF StartedJobs
  <2> QED BY <1>2, <1>3, <1>4, <2>1, <2>2
<1> QED BY <1>6, <1>7 DEF Live

\* Each step of the protocol is a step of the lifecycle, or none of it.
LEMMA SimulatesRequest ==
  ASSUME LifeInv, LifeInv', NEW m \in Leases, Request(m)
  PROVE  Lifecycle!Next \/ UNCHANGED Lifecycle!vars
<1>0. SafeInv /\ Active(m)
  BY RequestWrites DEF LifeInv
<1>a. PICK r \in Runs, i \in 1 .. AttemptLimit : JobOf(m) = <<r, i>>
  BY <1>0, HeldJob DEF Jobs
<1>b. RunOf(m) = r
  BY <1>a DEF RunOf, JobOf
<1>1. /\ [q \in Runs |-> StartedAttempts(q)] = StartedOf(job)
      /\ [q \in Runs |-> StartedAttempts(q)]' = StartedOf(job')
  BY Mapping
<1>2. JobOf(m) \in Jobs /\ job[<<r, i>>].status \in Live
  BY <1>0, <1>a, HeldJob
<1>3. /\ run[r] # NoRun /\ run'[r] # NoRun /\ run'[r].plan = run[r].plan
      /\ \A q \in Runs : q # r => run'[q] = run[q]
  BY <1>0, <1>b, RequestRun
<1>4. Phases' = [Phases EXCEPT ![r] = run'[r].status] /\ Limits' = Limits
  BY <1>2, <1>3, PhaseMoves
<1>5. /\ i <= RunLimit(r) /\ RunLimit(r) \in 1 .. AttemptLimit
      /\ job[<<r, i>>].status \in {"PENDING", "LEASED"} =>
           run[r].status = "PENDING" /\ StartedJobs(job, r) = 1 .. (i - 1)
      /\ job[<<r, i>>].status \in ActiveExecutionStates =>
           run[r].status = "RUNNING" /\ StartedJobs(job, r) = 1 .. i
  BY <1>0, <1>2, StartedSoFar
<1>6. /\ job'[<<r, i>>].status \in Started
      /\ \A j \in Jobs : j # <<r, i>> =>
           (job'[j].status \in Started <=> job[j].status \in Started)
  BY <1>0, <1>a, RequestJobs
<1>7. Phases[r] = run[r].status /\ Limits[r] = RunLimit(r)
      /\ StartedOf(job)[r] = StartedJobs(job, r)
  BY <1>2 DEF Phases, Limits, StartedOf
<1>8. CASE Start(m)
  <2>1. job[<<r, i>>].status = "LEASED" /\ run'[r].status = "RUNNING"
    BY <1>0, <1>a, <1>b, <1>8, RequestRun DEF Start
  <2>2. StartedJobs(job', r) = 1 .. i
    <3>1. \A k \in 1 .. AttemptLimit : k # i => <<r, k>> \in Jobs /\ <<r, k>> # <<r, i>>
      BY <1>2 DEF Jobs
    <3>2. \A k \in 1 .. AttemptLimit :
            k \in StartedJobs(job', r) <=> (k = i \/ k \in StartedJobs(job, r))
      BY <1>6, <3>1 DEF StartedJobs
    <3>3. StartedJobs(job, r) = 1 .. (i - 1)
      BY <1>5, <2>1
    <3>4. \A k \in 1 .. AttemptLimit : k \in StartedJobs(job', r) <=> k \in 1 .. i
      <4> QED BY <1>2, <3>2, <3>3, LedgerAssumption
    <3>5. StartedJobs(job', r) \subseteq 1 .. AttemptLimit /\ 1 .. i \subseteq 1 .. AttemptLimit
      BY <1>2, LedgerAssumption DEF StartedJobs
    <3> QED BY <3>4, <3>5
  <2>3. StartedOf(job') = [StartedOf(job) EXCEPT ![r] = 1 .. i]
    <3>1. \A q \in Runs : q # r => StartedJobs(job', q) = StartedJobs(job, q)
      BY <1>2, <1>6 DEF StartedJobs, Jobs
    <3> QED BY <2>2, <3>1 DEF StartedOf
  <2>4. i \in 1 .. Limits[r]
    BY <1>2, <1>5, <1>7, LedgerAssumption
  <2>5. Lifecycle!Execute(r)
    BY <1>1, <1>4, <1>5, <1>7, <2>1, <2>3, <2>4 DEF Lifecycle!Execute, Phases, Limits
  <2> QED BY <1>2, <2>5 DEF Lifecycle!Next
<1>9. CASE Executing(m)
  <2>1. job[<<r, i>>].status \in ActiveExecutionStates /\ job[<<r, i>>].status \in Started
    BY <1>0, <1>a, <1>9, ExecutingRun DEF Started, ActiveExecutionStates
  <2>2. StartedOf(job') = StartedOf(job)
    BY <1>6, <2>1, StartedStays
  <2>3. run[r].status = "RUNNING" /\ StartedJobs(job, r) = 1 .. i
    BY <1>5, <2>1
  <2>4. CASE run' = run
    <3>1. \A q \in Runs : RunLimit(q)' = RunLimit(q)
      BY <2>4 DEF RunLimit
    <3> QED BY <1>1, <2>2, <2>4, <3>1 DEF Lifecycle!vars
  <2>5. CASE run'[r].status = "COMPLETED"
    <3>1. Lifecycle!Complete(r)
      BY <1>1, <1>4, <1>7, <2>2, <2>3, <2>5 DEF Lifecycle!Complete, Phases, Limits
    <3> QED BY <1>2, <3>1 DEF Lifecycle!Next
  <2>6. CASE run'[r].status = "PENDING" /\ JobOf(m)[2] < MaxAttempts[PlanOf(JobOf(m))]
    <3>1. i < Limits[r]
      BY <1>3, <1>7, <1>a, <2>6 DEF RunLimit, PlanOf
    <3>2. Limits[r] \notin StartedOf(job)[r]
      BY <1>2, <1>5, <1>7, <2>3, <3>1, LedgerAssumption
    <3>3. Lifecycle!Retry(r)
      BY <1>1, <1>4, <1>7, <2>2, <2>3, <2>6, <3>2 DEF Lifecycle!Retry, Phases, Limits
    <3> QED BY <1>2, <3>3 DEF Lifecycle!Next
  <2>7. CASE run'[r].status = "FAILED"
    <3>1. Lifecycle!Fail({r})
      <4>1. Phases' = [q \in Runs |-> IF q \in {r} THEN "FAILED" ELSE Phases[q]]
        BY <1>4, <2>7 DEF Phases
      <4> QED BY <1>1, <1>2, <1>4, <1>7, <2>2, <2>3, <4>1 DEF Lifecycle!Fail, Phases, Limits
    <3>2. {r} \in SUBSET Runs
      BY <1>2
    <3> QED BY <3>1, <3>2 DEF Lifecycle!Next
  <2>8. ~Start(m)
    BY <1>9 DEF Start, Executing, ActiveExecutionStates, NoAttempt
  <2> QED
    BY <1>0, <1>b, <2>4, <2>5, <2>6, <2>7, <2>8, RequestRun DEF Request
<1> QED BY <1>0, <1>8, <1>9, RequestWrites

\* Dispatches and cancellations.
LEMMA SimulatesLedger ==
  ASSUME LifeInv, LifeInv', LedgerStep
  PROVE  Lifecycle!Next
<1>0. SafeInv
  BY DEF LifeInv
<1>1. /\ [q \in Runs |-> StartedAttempts(q)] = StartedOf(job)
      /\ [q \in Runs |-> StartedAttempts(q)]' = StartedOf(job')
  BY Mapping
<1>2. StartedOf(job') = StartedOf(job)
  BY <1>0, LedgerJobs, StartedStays
<1>3. run \in [Runs -> RunRecord \cup {NoRun}]
  BY <1>0 DEF SafeInv, TypeInv, TypeOK, RegistryTypeOK, LedgerTypeOK
<1>4. ASSUME NEW r \in Runs, NEW p \in Plans, NEW k, DispatchManual(r, p, k)
      PROVE  Lifecycle!Dispatch(r)
  <2>1. run[r] = NoRun /\ run' = [run EXCEPT ![r] = [status |-> "PENDING", plan |-> p, key |-> k]]
    BY <1>4 DEF DispatchManual, InsertRun
  <2>2. /\ run'[r].status = "PENDING" /\ run'[r].plan = p
        /\ \A q \in Runs : q # r => run'[q] = run[q]
    BY <1>3, <2>1
  <2>3. run'[r] # NoRun /\ Phases[r] = "NONE" /\ Phases' = [Phases EXCEPT ![r] = "PENDING"]
    <3>1. run[r].status = "NONE" /\ run'[r] # NoRun
      BY <2>1, <2>2 DEF NoRun
    <3> QED BY <2>2, <3>1 DEF Phases
  <2>4. RunLimit(r)' = MaxAttempts[p] /\ \A q \in Runs : q # r => RunLimit(q)' = RunLimit(q)
    BY <2>2, <2>3 DEF RunLimit
  <2>5. Limits' = [Limits EXCEPT ![r] = MaxAttempts[p]]
    BY <2>4 DEF Limits
  <2>6. MaxAttempts[p] \in 1 .. AttemptLimit
    BY LedgerAssumption
  <2> QED
    BY <1>1, <1>2, <2>3, <2>5, <2>6 DEF Lifecycle!Dispatch, Phases, Limits
<1>5. ASSUME NEW r \in Runs, Cancel(r)
      PROVE  Lifecycle!Cancel(r)
  <2>1. /\ run[r].status = "PENDING" /\ run' = [run EXCEPT ![r].status = "CANCELLED"]
        /\ \A j \in JobsOf(r) : job[j].status = "PENDING"
    BY <1>5 DEF Cancel
  <2>2. run[r] \in RunRecord
    BY <1>0, <2>1, Present DEF SafeInv, TypeInv
  <2>3. run'[r] = [run[r] EXCEPT !.status = "CANCELLED"]
    BY <1>3, <2>1
  <2>4. run'[r].status = "CANCELLED" /\ run'[r].plan = run[r].plan /\ run[r] # NoRun
    BY <2>1, <2>2, <2>3 DEF RunRecord, NoRun
  <2>5. run'[r] # NoRun /\ \A q \in Runs : q # r => run'[q] = run[q]
    BY <1>3, <2>1, <2>4 DEF NoRun
  <2>6. Phases' = [Phases EXCEPT ![r] = "CANCELLED"] /\ Limits' = Limits
    BY <2>4, <2>5, PhaseMoves
  <2>7. StartedJobs(job, r) = {}
    <3>1. ASSUME NEW n \in 1 .. AttemptLimit, job[<<r, n>>].status \in Started
          PROVE  FALSE
      <4>1. <<r, n>> \in Jobs /\ job[<<r, n>>] # NoJob
        BY <3>1 DEF Jobs, NoJob, Started
      <4>2. <<r, n>> \in JobsOf(r)
        BY <4>1 DEF JobsOf
      <4> QED BY <2>1, <3>1, <4>2 DEF Started
    <3> QED BY <3>1 DEF StartedJobs
  <2>8. Phases[r] = "PENDING" /\ StartedOf(job)[r] = {}
    BY <2>1, <2>7 DEF Phases, StartedOf
  <2> QED
    BY <1>1, <1>2, <2>6, <2>8 DEF Lifecycle!Cancel, Phases, Limits
<1> QED BY <1>4, <1>5 DEF LedgerStep, Lifecycle!Next

\* The executions given up together.
LEMMA SimulatesReconcile ==
  ASSUME LifeInv, LifeInv', ReconcileExpired
  PROVE  Lifecycle!Next
<1> DEFINE S == {q \in Runs : \E l \in Orphaned : RunOf(l) = q}
<1>0. SafeInv
  BY DEF LifeInv
<1>1. /\ [q \in Runs |-> StartedAttempts(q)] = StartedOf(job)
      /\ [q \in Runs |-> StartedAttempts(q)]' = StartedOf(job')
  BY Mapping
<1>2. StartedOf(job') = StartedOf(job)
  <2>1. ASSUME NEW j \in Jobs
        PROVE  job'[j].status \in Started <=> job[j].status \in Started
    <3>1. CASE \E l \in Orphaned : JobOf(l) = j
      <4>1. PICK l \in Orphaned : JobOf(l) = j
        BY <3>1
      <4>2. job[j].status \in ActiveExecutionStates
        BY <1>0, <4>1, ExecutingRun DEF Orphaned
      <4>3. job[j] \in JobRecord
        BY <1>0, <4>2, Present DEF SafeInv, TypeInv, ActiveExecutionStates
      <4>4. job'[j] = [job[j] EXCEPT !.status = "FAILED"]
        BY <3>1 DEF ReconcileExpired
      <4>5. job'[j].status = "FAILED"
        BY <4>3, <4>4 DEF JobRecord
      <4> QED BY <4>2, <4>5 DEF Started, ActiveExecutionStates
    <3>2. CASE ~\E l \in Orphaned : JobOf(l) = j
      BY <3>2 DEF ReconcileExpired
    <3> QED BY <3>1, <3>2
  <2> QED BY <2>1, StartedStays
<1>3. ASSUME NEW q \in S
      PROVE  /\ q \in Runs /\ run[q].status = "RUNNING" /\ run'[q].status = "FAILED"
             /\ RunLimit(q)' = RunLimit(q)
  <2>1. PICK l \in Orphaned : RunOf(l) = q
    OBVIOUS
  <2>2. run[q].status = "RUNNING"
    BY <1>0, <2>1, ExecutingRun DEF Orphaned
  <2>3. run[q] \in RunRecord
    BY <1>0, <2>2, Present DEF SafeInv, TypeInv
  <2>4. run'[q] = [run[q] EXCEPT !.status = "FAILED"]
    BY <2>1 DEF ReconcileExpired
  <2>5. run'[q].status = "FAILED" /\ run'[q].plan = run[q].plan
    BY <2>3, <2>4 DEF RunRecord
  <2>6. run[q] # NoRun /\ run'[q] # NoRun
    BY <2>2, <2>5 DEF NoRun
  <2> QED BY <2>2, <2>5, <2>6 DEF RunLimit
<1>4. ASSUME NEW q \in Runs, q \notin S
      PROVE  run'[q] = run[q] /\ RunLimit(q)' = RunLimit(q)
  <2>1. run'[q] = run[q]
    BY <1>4 DEF ReconcileExpired
  <2> QED BY <2>1 DEF RunLimit
<1>5. /\ Phases' = [q \in Runs |-> IF q \in S THEN "FAILED" ELSE Phases[q]]
      /\ \A q \in S : Phases[q] = "RUNNING"
      /\ Limits' = Limits
  <2> HIDE DEF S
  <2>1. \A q \in Runs : RunLimit(q)' = RunLimit(q)
    BY <1>3, <1>4
  <2> QED BY <1>3, <1>4, <2>1 DEF Phases, Limits
<1>6. PICK T \in SUBSET Runs : T = S
  OBVIOUS
<1> HIDE DEF S
<1>7. Lifecycle!Fail(T)
  BY <1>1, <1>2, <1>5, <1>6 DEF Lifecycle!Fail, Phases, Limits
<1> QED BY <1>7 DEF Lifecycle!Next

\* What leases and workers do between executions, a caller does not see.
LEMMA StuttersRegistry ==
  ASSUME LifeInv, LifeInv', RegistryStep \/ UNCHANGED vars
  PROVE  UNCHANGED Lifecycle!vars
<1>1. /\ [q \in Runs |-> StartedAttempts(q)] = StartedOf(job)
      /\ [q \in Runs |-> StartedAttempts(q)]' = StartedOf(job')
  BY Mapping
<1>2. run' = run
  BY DEF RegistryStep, UpdateWorker, Heartbeat, Claim, ClaimSpecific, RenewLease,
         ReleaseLease, ReapExpired, ClockTick, vars
<1>3. \A j \in Jobs : job'[j].status \in Started <=> job[j].status \in Started
  <2>1. CASE RegistryStep
    BY <2>1, RegistryJobs DEF LifeInv, Started
  <2>2. CASE UNCHANGED vars
    BY <2>2 DEF vars
  <2> QED BY <2>1, <2>2
<1>4. StartedOf(job') = StartedOf(job)
  BY <1>3, StartedStays
<1>5. \A q \in Runs : RunLimit(q)' = RunLimit(q)
  BY <1>2 DEF RunLimit
<1> QED BY <1>1, <1>2, <1>4, <1>5 DEF Lifecycle!vars

\* The protocol of leases, workers, retries and reconciliation implements what the
\* control plane promises the caller of a run: attempts in turn, each executed at
\* most once and never beyond the limit, no cancellation after the first execution,
\* and one final outcome.
THEOREM RunsFollowLifecycle == Spec => ImplementsLifecycle
<1>1. Init => Lifecycle!Init
  <2> SUFFICES ASSUME Init PROVE Lifecycle!Init
    OBVIOUS
  <2>1. \A r \in Runs : run[r] = NoRun /\ run[r].status = "NONE"
    BY DEF Init, RegistryInit, LedgerInit, NoRun
  <2>2. \A l \in Leases : attempt[l] = NoAttempt
    BY DEF Init
  <2>3. \A r \in Runs : RunLimit(r) = 0 /\ StartedAttempts(r) = {}
    BY <2>1, <2>2 DEF RunLimit, StartedAttempts
  <2> QED BY <2>1, <2>3 DEF Lifecycle!Init
<1>2. LifeInv /\ LifeInv' /\ [Next]_vars => [Lifecycle!Next]_(Lifecycle!vars)
  <2> SUFFICES ASSUME LifeInv, LifeInv', [Next]_vars
               PROVE  Lifecycle!Next \/ UNCHANGED Lifecycle!vars
    OBVIOUS
  <2>1. CASE LedgerStep
    BY <2>1, SimulatesLedger
  <2>2. CASE RegistryStep \/ UNCHANGED vars
    BY <2>2, StuttersRegistry
  <2>3. CASE ReconcileExpired
    BY <2>3, SimulatesReconcile
  <2>4. CASE \E m \in Leases : Request(m)
    BY <2>4, SimulatesRequest
  <2> QED BY <2>1, <2>2, <2>3, <2>4 DEF Next, ExecutionStep, Request
<1>3. Spec => []LifeInv
  BY LifeInit, LifeStep, PTL DEF Spec
<1> QED
  BY <1>1, <1>2, <1>3, PTL DEF Spec, ImplementsLifecycle, Lifecycle!Spec

-----------------------------------------------------------------------------
(* How many leases there are. *)

\* Only finitely many identities have been handed out, each by one claim.
FewLeases == IsFiniteSet({l \in Leases : lease[l] # NoLease})

LEMMA AtMost ==
  ASSUME NEW B, IsFiniteSet(B), NEW A, A \subseteq B
  PROVE  IsFiniteSet(A) /\ Cardinality(A) \in Nat /\ Cardinality(B) \in Nat
         /\ Cardinality(A) <= Cardinality(B)
BY FS_Subset, FS_CardinalityType

LEMMA AtMostOneMore ==
  ASSUME NEW B, IsFiniteSet(B), NEW x, NEW A, A \subseteq B \cup {x}
  PROVE  IsFiniteSet(A) /\ Cardinality(A) \in Nat /\ Cardinality(B) \in Nat
         /\ Cardinality(A) <= Cardinality(B) + 1
<1>0. Cardinality(B) \in Nat
  BY FS_CardinalityType
<1>1. IsFiniteSet(B \cup {x}) /\ Cardinality(B \cup {x}) <= Cardinality(B) + 1
  BY <1>0, FS_AddElement
<1>2. /\ IsFiniteSet(A) /\ Cardinality(A) \in Nat /\ Cardinality(B \cup {x}) \in Nat
      /\ Cardinality(A) <= Cardinality(B \cup {x})
  BY <1>1, AtMost
<1> QED BY <1>0, <1>1, <1>2

LEMMA FewStep == TypeInv /\ FewLeases /\ [Next]_vars => FewLeases'
<1> SUFFICES ASSUME TypeInv, FewLeases, [Next]_vars PROVE FewLeases'
  OBVIOUS
<1>1. CASE Kept(lease, lease')
  <2>1. {l \in Leases : lease'[l] # NoLease} = {l \in Leases : lease[l] # NoLease}
    BY <1>1 DEF Kept
  <2> QED BY <2>1 DEF FewLeases
<1>2. ASSUME NEW w \in Workers, NEW j \in Jobs, NEW n \in Leases, Claims(w, j, n)
      PROVE  FewLeases'
  <2>1. {l \in Leases : lease'[l] # NoLease} \subseteq {l \in Leases : lease[l] # NoLease} \cup {n}
    BY <1>2, ClaimedRows DEF Kept
  <2> QED BY <2>1, AtMostOneMore DEF FewLeases
<1> QED BY <1>1, <1>2, LeaseSteps

LEMMA FewInit == Init => FewLeases
<1> SUFFICES ASSUME Init PROVE FewLeases
  OBVIOUS
<1>1. {l \in Leases : lease[l] # NoLease} = {}
  BY DEF Init, RegistryInit
<1> QED BY <1>1, FS_EmptySet DEF FewLeases

\* No step takes a worker above its maxConcurrency: a claim counts the leases the
\* reap has left, in its own transaction, and nothing else adds one.
THEOREM CapacityIsRespected == Spec => CapacityRespected
<1> DEFINE Held(L, w) == {l \in Leases : L[l].status = "ACTIVE" /\ L[l].worker = w}
           Step == \A w \in Workers :
                     Cardinality(ActiveLeases(w))' <= Cardinality(ActiveLeases(w))
                       \/ Cardinality(ActiveLeases(w))' <= worker[w].maxConcurrency
           Inv == TypeInv /\ FewLeases
<1>1. Inv /\ [Next]_vars => Step
  <2> SUFFICES ASSUME TypeInv, FewLeases, [Next]_vars, NEW w \in Workers
               PROVE  \/ Cardinality(Held(lease', w)) <= Cardinality(Held(lease, w))
                      \/ Cardinality(Held(lease', w)) <= worker[w].maxConcurrency
    BY DEF ActiveLeases, Active
  <2>1. \A l \in Leases : lease[l].status = "ACTIVE" => lease[l] # NoLease
    BY DEF NoLease
  <2>2. IsFiniteSet(Held(lease, w))
    <3>1. Held(lease, w) \subseteq {l \in Leases : lease[l] # NoLease}
      BY <2>1
    <3> HIDE DEF Held
    <3> QED BY <3>1, AtMost DEF FewLeases
  <2>3. ASSUME NEW L, Kept(lease, L)
        PROVE  Held(L, w) \subseteq Held(lease, w)
    BY <2>1, <2>3 DEF Kept
  <2>4. CASE Kept(lease, lease')
    <3>1. Held(lease', w) \subseteq Held(lease, w)
      BY <2>3, <2>4
    <3> HIDE DEF Held
    <3> QED BY <2>2, <3>1, AtMost
  <2>5. ASSUME NEW v \in Workers, NEW j \in Jobs, NEW n \in Leases, Claims(v, j, n)
        PROVE  \/ Cardinality(Held(lease', w)) <= Cardinality(Held(lease, w))
               \/ Cardinality(Held(lease', w)) <= worker[w].maxConcurrency
    <3> DEFINE L == Closed(ExpiredLeases, "EXPIRED")
    <3>1. /\ Kept(lease, L) /\ lease'[n].worker = v
          /\ \A m \in Leases : m # n => lease'[m] = L[m]
      BY <2>5, ClaimedRows
    <3>2. v = w => Cardinality(Held(L, w)) < worker[w].maxConcurrency
      BY <2>5 DEF Claims, MayClaim
    <3> HIDE DEF L
    <3>3. Held(L, w) \subseteq Held(lease, w)
      BY <2>3, <3>1
    <3>4. CASE v # w
      <4>1. Held(lease', w) \subseteq Held(lease, w)
        BY <3>1, <3>3, <3>4
      <4> HIDE DEF Held
      <4> QED BY <2>2, <4>1, AtMost
    <3>5. CASE v = w
      <4>1. Held(lease', w) \subseteq Held(L, w) \cup {n}
        BY <3>1
      <4>2. worker[w].maxConcurrency \in Nat
        BY RegistryAssumption DEF TypeInv, TypeOK, RegistryTypeOK
      <4> HIDE DEF Held
      <4>3. IsFiniteSet(Held(L, w))
        BY <2>2, <3>3, AtMost
      <4>4. /\ Cardinality(Held(lease', w)) \in Nat /\ Cardinality(Held(L, w)) \in Nat
            /\ Cardinality(Held(lease', w)) <= Cardinality(Held(L, w)) + 1
        BY <4>1, <4>3, AtMostOneMore
      <4> QED BY <3>2, <3>5, <4>2, <4>4
    <3> QED BY <3>4, <3>5
  <2> QED BY <2>4, <2>5, LeaseSteps
<1>2. Init => Inv
  BY FewInit, TypeInit
<1>3. Inv /\ [Next]_vars => Inv'
  BY FewStep, TypeNext
<1>4. Inv /\ [Next]_vars => [Step]_vars
  BY <1>1
<1>5. Spec => [][Step]_vars
  BY <1>2, <1>3, <1>4, PTL DEF Spec
<1> QED BY <1>5 DEF CapacityRespected

\* The web domain of the lease in row l, and what counts towards its quota, in the
\* tables R and L.
DomainIn(R, L, l) == Domain[R[L[l].job[1]].plan]
ActiveIn(R, L, d) == {m \in Leases : /\ L[m] # NoLease /\ DomainIn(R, L, m) = d
                                     /\ L[m].status = "ACTIVE"}
RecentIn(R, L, d) == {m \in Leases : /\ L[m] # NoLease /\ DomainIn(R, L, m) = d
                                     /\ L[m].age <= RateWindow}

QuotaKept(R, L) ==
  \A l \in Leases : L[l] # NoLease /\ DomainIn(R, L, l) # NoDomain =>
    /\ Cardinality(ActiveIn(R, L, DomainIn(R, L, l))) <= MaxPerDomain
    /\ L[l].age <= RateWindow =>
         Cardinality(RecentIn(R, L, DomainIn(R, L, l))) <= RateLimit[R[L[l].job[1]].plan]

LEMMA QuotaSets ==
  /\ \A L, d : {m \in DomainLeases(L, d) : L[m].status = "ACTIVE"} = ActiveIn(run, L, d)
  /\ \A L, d : {m \in DomainLeases(L, d) : L[m].age <= RateWindow} = RecentIn(run, L, d)
BY DEF DomainLeases, PlanOf, DomainIn, ActiveIn, RecentIn

LEMMA QuotaTables == WebDomainQuotaKept <=> QuotaKept(run, lease)
<1>1. \A d : /\ {m \in DomainLeases(lease, d) : Active(m)} = ActiveIn(run, lease, d)
             /\ {m \in DomainLeases(lease, d) : lease[m].age <= RateWindow} = RecentIn(run, lease, d)
  BY QuotaSets DEF Active
<1>2. \A l \in Leases : lease[l] # NoLease =>
        (l \in RecentIn(run, lease, DomainIn(run, lease, l)) <=> lease[l].age <= RateWindow)
  BY DEF RecentIn
<1>3. \A l \in Leases : PlanOf(JobOf(l)) = run[lease[l].job[1]].plan
                        /\ Domain[PlanOf(JobOf(l))] = DomainIn(run, lease, l)
  BY DEF PlanOf, JobOf, DomainIn
<1> QED BY <1>1, <1>2, <1>3 DEF WebDomainQuotaKept, QuotaKept

\* No step changes the plan of a run.
LEMMA PlansStay ==
  ASSUME SafeInv, [Next]_vars, NEW r \in Runs, run[r] # NoRun
  PROVE  run'[r].plan = run[r].plan
<1>1. run[r] \in RunRecord /\ run \in [Runs -> RunRecord \cup {NoRun}]
  BY Present DEF SafeInv, TypeInv, TypeOK, RegistryTypeOK, LedgerTypeOK
<1>2. \A s : [run[r] EXCEPT !.status = s].plan = run[r].plan
  BY <1>1 DEF RunRecord
<1>3. CASE LedgerStep
  <2>1. ASSUME NEW q \in Runs, NEW p, NEW k, DispatchManual(q, p, k) PROVE run'[r] = run[r]
    BY <1>1, <2>1 DEF DispatchManual, InsertRun
  <2>2. ASSUME NEW q \in Runs, Cancel(q) PROVE run'[r].plan = run[r].plan
    <3>1. run'[r] = IF q = r THEN [run[r] EXCEPT !.status = "CANCELLED"] ELSE run[r]
      BY <1>1, <2>2 DEF Cancel
    <3> QED BY <1>2, <3>1
  <2> QED BY <1>3, <2>1, <2>2 DEF LedgerStep
<1>4. CASE RegistryStep \/ UNCHANGED vars
  BY <1>4 DEF RegistryStep, UpdateWorker, Heartbeat, Claim, ClaimSpecific, RenewLease,
              ReleaseLease, ReapExpired, ClockTick, vars
<1>5. CASE ReconcileExpired
  <2>1. run'[r] = run[r] \/ run'[r] = [run[r] EXCEPT !.status = "FAILED"]
    BY <1>5 DEF ReconcileExpired
  <2> QED BY <1>2, <2>1
<1>6. ASSUME NEW m \in Leases, Request(m) PROVE run'[r].plan = run[r].plan
  BY <1>6, RequestRun
<1> QED BY <1>3, <1>4, <1>5, <1>6 DEF Next, ExecutionStep, Request

\* Closing and ageing leases frees quota.
LEMMA KeptQuota ==
  ASSUME NEW R, NEW L, NEW RR, NEW LL, Kept(L, LL),
         IsFiniteSet({l \in Leases : L[l] # NoLease}),
         \A l \in Leases : L[l] # NoLease => /\ RR[L[l].job[1]].plan = R[L[l].job[1]].plan
                                             /\ R[L[l].job[1]].plan \in Plans
                                             /\ L[l].age \in Nat /\ LL[l].age \in Nat
  PROVE  /\ \A d : ActiveIn(RR, LL, d) \subseteq ActiveIn(R, L, d)
         /\ \A d : RecentIn(RR, LL, d) \subseteq RecentIn(R, L, d)
         /\ \A d : IsFiniteSet(ActiveIn(R, L, d)) /\ IsFiniteSet(RecentIn(R, L, d))
         /\ QuotaKept(R, L) => QuotaKept(RR, LL)
<1>1. \A l \in Leases : L[l] # NoLease =>
        /\ LL[l] # NoLease /\ LL[l].job = L[l].job /\ DomainIn(RR, LL, l) = DomainIn(R, L, l)
        /\ LL[l].age <= RateWindow => L[l].age <= RateWindow
  BY RegistryAssumption DEF Kept, DomainIn
<1>2. \A d : /\ ActiveIn(RR, LL, d) \subseteq ActiveIn(R, L, d)
             /\ RecentIn(RR, LL, d) \subseteq RecentIn(R, L, d)
  BY <1>1 DEF Kept, ActiveIn, RecentIn
<1>3. \A d : IsFiniteSet(ActiveIn(R, L, d)) /\ IsFiniteSet(RecentIn(R, L, d))
  <2>1. \A d : /\ ActiveIn(R, L, d) \subseteq {l \in Leases : L[l] # NoLease}
               /\ RecentIn(R, L, d) \subseteq {l \in Leases : L[l] # NoLease}
    BY DEF ActiveIn, RecentIn
  <2> QED BY <2>1, AtMost
<1>4. ASSUME QuotaKept(R, L), NEW l \in Leases, LL[l] # NoLease, DomainIn(RR, LL, l) # NoDomain
      PROVE  /\ Cardinality(ActiveIn(RR, LL, DomainIn(RR, LL, l))) <= MaxPerDomain
             /\ LL[l].age <= RateWindow =>
                  Cardinality(RecentIn(RR, LL, DomainIn(RR, LL, l))) <= RateLimit[RR[LL[l].job[1]].plan]
  <2> DEFINE d == DomainIn(R, L, l)
             rate == RateLimit[R[L[l].job[1]].plan]
  <2>1. L[l] # NoLease
    BY <1>4 DEF Kept
  <2>2. DomainIn(RR, LL, l) = d /\ RateLimit[RR[LL[l].job[1]].plan] = rate
        /\ (LL[l].age <= RateWindow => L[l].age <= RateWindow)
    BY <1>1, <2>1
  <2>3. /\ Cardinality(ActiveIn(R, L, d)) <= MaxPerDomain
        /\ L[l].age <= RateWindow => Cardinality(RecentIn(R, L, d)) <= rate
    BY <1>4, <2>1, <2>2 DEF QuotaKept
  <2>4. rate \in Nat /\ MaxPerDomain \in Nat
    BY <2>1, RegistryAssumption
  <2> HIDE DEF d, rate
  <2>5. /\ Cardinality(ActiveIn(RR, LL, d)) \in Nat /\ Cardinality(ActiveIn(R, L, d)) \in Nat
        /\ Cardinality(ActiveIn(RR, LL, d)) <= Cardinality(ActiveIn(R, L, d))
    BY <1>2, <1>3, AtMost
  <2>6. /\ Cardinality(RecentIn(RR, LL, d)) \in Nat /\ Cardinality(RecentIn(R, L, d)) \in Nat
        /\ Cardinality(RecentIn(RR, LL, d)) <= Cardinality(RecentIn(R, L, d))
    BY <1>2, <1>3, AtMost
  <2> QED BY <2>2, <2>3, <2>4, <2>5, <2>6
<1>5. QuotaKept(R, L) => QuotaKept(RR, LL)
  BY <1>4 DEF QuotaKept
<1> QED BY <1>2, <1>3, <1>5

\* A claim that webDomainQuotaAllows lets through adds one lease to a quota that has
\* room for it.
LEMMA ClaimQuota ==
  ASSUME NEW L, NEW LL, NEW j \in Jobs, NEW n \in Leases, L[n] = NoLease, LL[n] # NoLease,
         LL[n].status = "ACTIVE", LL[n].job = j, LL[n].age = 0,
         \A m \in Leases : m # n => LL[m] = L[m],
         run[j[1]].plan \in Plans,
         \A m \in Leases : L[m] # NoLease => run[L[m].job[1]].plan \in Plans,
         IsFiniteSet({m \in Leases : L[m] # NoLease}),
         QuotaKept(run, L), WebDomainQuotaAllows(L, j)
  PROVE  QuotaKept(run, LL)
<1> DEFINE d == Domain[PlanOf(j)]
           act == Cardinality(ActiveIn(run, L, d))
           rec == Cardinality(RecentIn(run, L, d))
<1>1. DomainIn(run, LL, n) = d /\ run[LL[n].job[1]].plan = PlanOf(j)
      /\ \A m \in Leases : m # n => DomainIn(run, LL, m) = DomainIn(run, L, m)
  BY DEF DomainIn, PlanOf
<1>2. \A e : /\ ActiveIn(run, LL, e) \subseteq ActiveIn(run, L, e) \cup {n}
             /\ RecentIn(run, LL, e) \subseteq RecentIn(run, L, e) \cup {n}
             /\ e # d => ActiveIn(run, LL, e) \subseteq ActiveIn(run, L, e)
             /\ e # d => RecentIn(run, LL, e) \subseteq RecentIn(run, L, e)
  <2> HIDE DEF d
  <2> QED BY <1>1 DEF ActiveIn, RecentIn
<1>3. \A e : IsFiniteSet(ActiveIn(run, L, e)) /\ IsFiniteSet(RecentIn(run, L, e))
  <2>1. \A e : /\ ActiveIn(run, L, e) \subseteq {l \in Leases : L[l] # NoLease}
               /\ RecentIn(run, L, e) \subseteq {l \in Leases : L[l] # NoLease}
    BY DEF ActiveIn, RecentIn
  <2> QED BY <2>1, AtMost
<1> SUFFICES ASSUME NEW l \in Leases, LL[l] # NoLease, DomainIn(run, LL, l) # NoDomain
             PROVE  /\ Cardinality(ActiveIn(run, LL, DomainIn(run, LL, l))) <= MaxPerDomain
                    /\ LL[l].age <= RateWindow =>
                         Cardinality(RecentIn(run, LL, DomainIn(run, LL, l)))
                           <= RateLimit[run[LL[l].job[1]].plan]
  BY DEF QuotaKept
<1> DEFINE e == DomainIn(run, LL, l)
           rate == RateLimit[run[LL[l].job[1]].plan]
<1>4. rate \in Nat \ {0} /\ MaxPerDomain \in Nat \ {0}
  <2>1. run[LL[l].job[1]].plan \in Plans
    OBVIOUS
  <2> QED BY <2>1, RegistryAssumption
<1>5. CASE e # d
  <2>1. l # n /\ L[l] # NoLease /\ LL[l] = L[l] /\ e = DomainIn(run, L, l)
    BY <1>1, <1>5
  <2>2. /\ Cardinality(ActiveIn(run, L, e)) <= MaxPerDomain
        /\ LL[l].age <= RateWindow => Cardinality(RecentIn(run, L, e)) <= rate
    BY <2>1 DEF QuotaKept
  <2> HIDE DEF e, d, rate
  <2>3. /\ Cardinality(ActiveIn(run, LL, e)) \in Nat /\ Cardinality(ActiveIn(run, L, e)) \in Nat
        /\ Cardinality(ActiveIn(run, LL, e)) <= Cardinality(ActiveIn(run, L, e))
    BY <1>2, <1>3, <1>5, AtMost
  <2>4. /\ Cardinality(RecentIn(run, LL, e)) \in Nat /\ Cardinality(RecentIn(run, L, e)) \in Nat
        /\ Cardinality(RecentIn(run, LL, e)) <= Cardinality(RecentIn(run, L, e))
    BY <1>2, <1>3, <1>5, AtMost
  <2> QED BY <1>4, <2>2, <2>3, <2>4 DEF e, rate
<1>6. CASE e = d
  <2>1. /\ Cardinality(ActiveIn(run, LL, d)) \in Nat /\ act \in Nat
        /\ Cardinality(ActiveIn(run, LL, d)) <= act + 1
    <3> HIDE DEF d
    <3> QED BY <1>2, <1>3, AtMostOneMore
  <2>2. /\ Cardinality(RecentIn(run, LL, d)) \in Nat /\ rec \in Nat
        /\ Cardinality(RecentIn(run, LL, d)) <= rec + 1
    <3> HIDE DEF d
    <3> QED BY <1>2, <1>3, AtMostOneMore
  <2>3. act < MaxPerDomain /\ (LL[l].age <= RateWindow => rec < rate)
    <3>1. CASE DomainLeases(L, d) = {}
      <4>1. ActiveIn(run, L, d) = {} /\ RecentIn(run, L, d) = {}
        BY <3>1, QuotaSets
      <4>2. act = 0 /\ rec = 0
        BY <4>1, FS_EmptySet
      <4> HIDE DEF act, rec, rate
      <4> QED BY <1>4, <4>2
    <3>2. CASE DomainLeases(L, d) # {}
      <4>1. /\ act < MaxPerDomain /\ rec < RateLimit[PlanOf(j)]
            /\ \A m \in DomainLeases(L, d) : rec < RateLimit[PlanOf(L[m].job)]
        BY <1>6, <3>2, QuotaSets DEF WebDomainQuotaAllows
      <4>2. CASE l = n
        BY <1>1, <4>1, <4>2
      <4>3. CASE l # n /\ LL[l].age <= RateWindow
        <5>1. LL[l] = L[l] /\ L[l] # NoLease /\ Domain[PlanOf(L[l].job)] = d
          BY <1>6, <4>3 DEF DomainIn, PlanOf
        <5>2. l \in DomainLeases(L, d)
          BY <4>3, <5>1 DEF DomainLeases
        <5> QED BY <4>1, <5>1, <5>2 DEF PlanOf
      <4> QED BY <4>1, <4>2, <4>3
    <3> QED BY <3>1, <3>2
  <2> HIDE DEF act, rec, rate, d
  <2> QED BY <1>4, <1>6, <2>1, <2>2, <2>3 DEF rate
<1> QED BY <1>5, <1>6

\* At any time a web domain has at most maxConcurrentWebLeasesPerDomain ACTIVE leases
\* and no more recent leases than the lowest rate limit of the plans among them,
\* however many workers claim at once and by whichever call.
THEOREM WebDomainQuotasKept == Spec => []WebDomainQuotaKept
<1> DEFINE Inv == SafeInv /\ FewLeases /\ QuotaKept(run, lease)
<1>1. Init => Inv
  BY SafeInit, FewInit DEF Init, RegistryInit, QuotaKept
<1>2. Inv /\ [Next]_vars => Inv'
  <2> SUFFICES ASSUME SafeInv, FewLeases, QuotaKept(run, lease), [Next]_vars
               PROVE  SafeInv' /\ FewLeases' /\ QuotaKept(run', lease')
    BY DEF QuotaKept, ActiveIn, RecentIn, DomainIn
  <2>1. SafeInv' /\ FewLeases' /\ TypeInv /\ TypeInv'
    BY SafeStep, FewStep DEF SafeInv
  <2>2. ASSUME NEW l \in Leases, lease[l] # NoLease
        PROVE  /\ run'[lease[l].job[1]].plan = run[lease[l].job[1]].plan
               /\ run[lease[l].job[1]].plan \in Plans
               /\ lease[l].age \in Nat
    <3>1. RunOf(l) \in Runs /\ run[RunOf(l)] \in RunRecord
      BY <2>1, <2>2, ContextRows DEF SafeInv
    <3>2. run[RunOf(l)] # NoRun
      BY <3>1, Absent
    <3>3. lease[l].age \in Nat
      BY <2>1, <2>2, Present, RegistryAssumption DEF TypeInv, LeaseRecord
    <3> QED BY <3>1, <3>2, <3>3, PlansStay DEF RunOf, JobOf, RunRecord
  <2>3. CASE Kept(lease, lease')
    <3>1. \A l \in Leases : lease[l] # NoLease => lease'[l].age \in Nat
      <4>1. \A l \in Leases : lease'[l] # NoLease => lease'[l].age \in Nat
        BY <2>1, RegistryAssumption DEF TypeInv, TypeOK, RegistryTypeOK, LeaseRecord
      <4> QED BY <2>3, <4>1 DEF Kept
    <3> QED BY <2>1, <2>2, <2>3, <3>1, KeptQuota DEF FewLeases
  <2>4. ASSUME NEW w \in Workers, NEW j \in Jobs, NEW n \in Leases, Claims(w, j, n)
        PROVE  QuotaKept(run', lease')
    <3> DEFINE L == Closed(ExpiredLeases, "EXPIRED")
    <3>1. /\ Kept(lease, L) /\ lease[n] = NoLease /\ lease'[n] # NoLease
          /\ lease'[n].status = "ACTIVE" /\ lease'[n].job = j /\ lease'[n].age = 0
          /\ \A m \in Leases : m # n => lease'[m] = L[m]
      BY <2>1, <2>4, ClaimedRows
    <3>2. run' = run /\ WebDomainQuotaAllows(L, j)
      BY <2>4 DEF Claims
    <3>3. \A l \in Leases : lease[l] # NoLease => L[l].age \in Nat
      <4>1. \A l \in Leases : lease[l] # NoLease => L[l].age = lease[l].age
        BY DEF Closed
      <4> QED BY <2>2, <4>1
    <3>4. run[j[1]].plan \in Plans
      <4>1. job[j].status # "NONE"
        BY <2>4 DEF Claims, ReturnedToPending
      <4>2. j = <<j[1], j[2]>> /\ j[1] \in Runs /\ j[2] \in 1 .. AttemptLimit
        BY DEF Jobs
      <4>3. run[j[1]].status # "NONE"
        BY <4>1, <4>2 DEF SafeInv, RunAgrees
      <4> QED BY <2>1, <4>2, <4>3, TypedRuns DEF RunRow
    <3> HIDE DEF L
    <3>5. QuotaKept(run, L)
      BY <2>2, <3>1, <3>2, <3>3, KeptQuota DEF FewLeases
    <3>6. L[n] = NoLease /\ \A m \in Leases : L[m] # NoLease => run[L[m].job[1]].plan \in Plans
      BY <2>2, <3>1 DEF Kept
    <3>7. {m \in Leases : L[m] # NoLease} = {m \in Leases : lease[m] # NoLease}
      BY <3>1 DEF Kept
    <3>8. QuotaKept(run, lease')
      BY <3>1, <3>2, <3>4, <3>5, <3>6, <3>7, ClaimQuota DEF FewLeases
    <3> QED BY <3>2, <3>8
  <2> QED BY <2>1, <2>3, <2>4, LeaseSteps
<1>3. Inv => WebDomainQuotaKept
  BY QuotaTables
<1> QED BY <1>1, <1>2, <1>3, PTL DEF Spec
=============================================================================

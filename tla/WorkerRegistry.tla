--------------------------- MODULE WorkerRegistry ----------------------------
(***************************************************************************)
(* Workers, heartbeats and job leases, as kept by                          *)
(* packages/persistence/src/worker-registry.ts behind the facade of        *)
(* safe-worker-registry.ts.                                                *)
(*                                                                         *)
(* A lease carries the ticks left until expires_at (ttl), the ticks left   *)
(* until its hard limit acquired_at + maxLeaseLifetime (life) and the      *)
(* ticks since acquired_at (age, counted as far as the rate window needs). *)
(* ttl and life are dropped to 0 when the lease closes: nothing reads them *)
(* afterwards.                                                             *)
(*                                                                         *)
(* Calls with a wrong credential, a wrong lease token or somebody else's   *)
(* lease are refused without a change and do not appear.                   *)
(***************************************************************************)
EXTENDS ExecutionLedger

CONSTANTS
  Workers,
  Health,             \* health values workers report; only ERROR matters
  WorkerDefinitions,  \* the definitions administrators give to workers
  Leases,             \* identities the lease id factory can hand out
  LeaseDuration,      \* leaseDurationMs
  MaxLeaseLifetime,   \* maxLeaseLifetimeMs
  HeartbeatFreshness, \* heartbeatFreshnessMs
  Priority,           \* Priority[p], 1 for CRITICAL up to 4 for LOW
  Domain,             \* Domain[p], the web domain of plan p's source
  NoDomain,           \* webDomainKey = null: not a web source
  RateLimit,          \* RateLimit[p], policy.rateLimitPerMinute
  RateWindow,         \* the 60 s window of the rate limit
  MaxPerDomain,       \* maxConcurrentWebLeasesPerDomain
  ClaimLimit          \* LIMIT 250 of the candidate query

ASSUME RegistryAssumption ==
  /\ \A d \in WorkerDefinitions :
       /\ d.desired \in {"ACTIVE", "DRAINING", "DISABLED"}
       /\ d.maxConcurrency \in Nat
       /\ d.canRun \subseteq Plans
  /\ LeaseDuration \in Nat \ {0}
  /\ MaxLeaseLifetime \in Nat /\ LeaseDuration <= MaxLeaseLifetime
  /\ HeartbeatFreshness \in Nat
  /\ RateLimit \in [Plans -> Nat \ {0}]
  /\ RateWindow \in Nat
  /\ MaxPerDomain \in Nat \ {0}
  /\ ClaimLimit \in Nat \ {0}

VARIABLES
  worker,       \* table worker_definitions
  heartbeat,    \* the latest row of worker_heartbeats, per worker
  lease         \* table job_leases

LeaseStatus == {"ACTIVE", "RELEASED", "EXPIRED", "REVOKED"}

LeaseRecord == [status : LeaseStatus, worker : Workers, job : Jobs,
                ttl : 0 .. LeaseDuration, life : 0 .. MaxLeaseLifetime,
                age : 0 .. (RateWindow + 1)]
NoLease == [status |-> "NONE"]

\* age counts the ticks since receivedAt; HeartbeatFreshness + 1 is stale, which
\* is also the state of a worker that never sent one.
HeartbeatRecord == [age : 0 .. (HeartbeatFreshness + 1), health : Health]

RegistryTypeOK ==
  /\ LedgerTypeOK
  /\ worker \in [Workers -> WorkerDefinitions]
  /\ heartbeat \in [Workers -> HeartbeatRecord]
  /\ lease \in [Leases -> LeaseRecord \cup {NoLease}]

RegistryInit ==
  /\ LedgerInit
  /\ worker \in [Workers -> {d \in WorkerDefinitions : d.desired = "ACTIVE"}]
  /\ heartbeat \in [Workers -> [age : {HeartbeatFreshness + 1}, health : Health \ {"ERROR"}]]
  /\ lease = [l \in Leases |-> NoLease]

Active(l) == lease[l].status = "ACTIVE"
ActiveLeases(w) == {l \in Leases : Active(l) /\ lease[l].worker = w}

\* expires_at <= now
Expired(l) == Active(l) /\ lease[l].ttl = 0

-----------------------------------------------------------------------------
(* The helpers every handler below writes with. *)

\* closeLease on each lease of S.
Closed(S, status) ==
  [l \in Leases |->
     IF l \in S
     THEN [status |-> status, worker |-> lease[l].worker, job |-> lease[l].job,
           ttl |-> 0, life |-> 0, age |-> lease[l].age]
     ELSE lease[l]]

\* A faulty returnJobToPending that does not look at the job's status.
ReturnedWhateverItDoes(S) ==
  [j \in Jobs |-> IF \E l \in S : lease[l].job = j
                  THEN [job[j] EXCEPT !.status = "PENDING"]
                  ELSE job[j]]

\* returnJobToPending for the job of each lease of S: only a LEASED job goes
\* back, one whose execution has started stays as it is.
ReturnedToPending(S) ==
  [j \in Jobs |-> IF job[j].status = "LEASED" /\ \E l \in S : lease[l].job = j
                  THEN [job[j] EXCEPT !.status = "PENDING"]
                  ELSE job[j]]

ExpiredLeases == {l \in Leases : Expired(l)}

\* reapExpiredInTransaction
Reap ==
  /\ lease' = Closed(ExpiredLeases, "EXPIRED")
  /\ job' = ReturnedToPending(ExpiredLeases)

-----------------------------------------------------------------------------
(* Administration and heartbeats. *)

\* A faulty update that disables a worker and forgets its leases.
UpdateWithoutRevoking(w, d) ==
  /\ worker' = [worker EXCEPT ![w] = d]
  /\ UNCHANGED <<run, job, heartbeat, lease>>

\* update: any definition may replace the current one; a DISABLED worker loses
\* its active leases in the same transaction.
UpdateWorker(w, d) ==
  /\ worker' = [worker EXCEPT ![w] = d]
  /\ LET revoked == IF d.desired = "DISABLED" THEN ActiveLeases(w) ELSE {}
     IN  /\ lease' = Closed(revoked, "REVOKED")
         /\ job' = ReturnedToPending(revoked)
  /\ UNCHANGED <<run, heartbeat>>

\* heartbeat: refused for a disabled worker, and when the worker reports a lease
\* that is not an active one of its own.
Heartbeat(w, health, reported) ==
  /\ worker[w].desired # "DISABLED"
  /\ reported \subseteq ActiveLeases(w)
  /\ heartbeat' = [heartbeat EXCEPT ![w] = [age |-> 0, health |-> health]]
  /\ UNCHANGED <<run, job, worker, lease>>

-----------------------------------------------------------------------------
(* Claiming. *)

\* Leases of domain d that are active or were acquired within the rate window,
\* in the lease table L.
DomainLeases(L, d) ==
  {l \in Leases : /\ L[l] # NoLease
                  /\ Domain[PlanOf(L[l].job)] = d
                  /\ L[l].status = "ACTIVE" \/ L[l].age <= RateWindow}

\* A faulty quota that counts active leases only.
QuotaOfActiveLeases(L, j) ==
  LET d == Domain[PlanOf(j)]
  IN  d = NoDomain \/
        Cardinality({l \in DomainLeases(L, d) : L[l].status = "ACTIVE"}) < MaxPerDomain

\* webDomainLeaseState and webDomainQuotaAllows: below the concurrency limit,
\* and fewer recent leases than the lowest rate limit of the plans involved.
WebDomainQuotaAllows(L, j) ==
  LET d      == Domain[PlanOf(j)]
      held   == DomainLeases(L, d)
      recent == Cardinality({l \in held : L[l].age <= RateWindow})
  IN  d = NoDomain \/ held = {} \/
        /\ Cardinality({l \in held : L[l].status = "ACTIVE"}) < MaxPerDomain
        /\ recent < RateLimit[PlanOf(j)]
        /\ \A l \in held : recent < RateLimit[PlanOf(L[l].job)]

\* status = 'PENDING' AND available_at <= now, in the job table J.
Available(J) == {j \in Jobs : J[j].status = "PENDING" /\ J[j].wait = 0}

\* What the candidate query may return: at most ClaimLimit available jobs, the
\* most urgent first.  Between jobs of equal priority the code orders by
\* timestamps and id, which is left open here.
CandidateSets(J) ==
  {S \in SUBSET Available(J) :
     /\ Cardinality(S) <= ClaimLimit
     /\ S # Available(J) => Cardinality(S) = ClaimLimit
     /\ \A j \in S, k \in Available(J) \ S : Priority[PlanOf(j)] <= Priority[PlanOf(k)]}

\* A faulty capacity check, off by one.
MayClaimOneMore(w, L) ==
  /\ worker[w].desired = "ACTIVE"
  /\ heartbeat[w].age <= HeartbeatFreshness
  /\ heartbeat[w].health # "ERROR"
  /\ Cardinality({l \in Leases : L[l].status = "ACTIVE" /\ L[l].worker = w})
       <= worker[w].maxConcurrency

\* The conditions on the worker that claim and claimSpecific share, after the
\* reap: ACTIVE, a fresh heartbeat without ERROR, and a free slot.
MayClaim(w, L) ==
  /\ worker[w].desired = "ACTIVE"
  /\ heartbeat[w].age <= HeartbeatFreshness
  /\ heartbeat[w].health # "ERROR"
  /\ Cardinality({l \in Leases : L[l].status = "ACTIVE" /\ L[l].worker = w})
       < worker[w].maxConcurrency

\* candidates.find(...): the jobs of S worker w can run now.
Runnable(w, L, S) ==
  {j \in S : PlanOf(j) \in worker[w].canRun /\ WebDomainQuotaAllows(L, j)}

\* A faulty claim that stores the run's id where the job's belongs.
ClaimJobOfRun(w, j, l, L, J) ==
  /\ lease[l] = NoLease
  /\ lease' = [L EXCEPT ![l] =
                 [status |-> "ACTIVE", worker |-> w, job |-> j[1], ttl |-> LeaseDuration,
                  life |-> MaxLeaseLifetime, age |-> 0]]
  /\ job' = [J EXCEPT ![j].status = "LEASED"]

\* claimJobInTransaction, on the tables L and J the reap has left.
ClaimJob(w, j, l, L, J) ==
  /\ lease[l] = NoLease
  /\ lease' = [L EXCEPT ![l] =
                 [status |-> "ACTIVE", worker |-> w, job |-> j, ttl |-> LeaseDuration,
                  life |-> MaxLeaseLifetime, age |-> 0]]
  /\ job' = [J EXCEPT ![j].status = "LEASED"]

\* claim: the most urgent runnable candidate, or nothing; what was reaped is
\* committed either way.
Claim(w) ==
  LET L == Closed(ExpiredLeases, "EXPIRED")
      J == ReturnedToPending(ExpiredLeases)
  IN  /\ MayClaim(w, L)
      /\ \E S \in CandidateSets(J) :
           \/ /\ Runnable(w, L, S) = {}
              /\ Reap
           \/ \E j \in Runnable(w, L, S), l \in Leases :
                /\ \A k \in Runnable(w, L, S) :
                     Priority[PlanOf(j)] <= Priority[PlanOf(k)]
                /\ ClaimJob(w, j, l, L, J)
      /\ UNCHANGED <<run, worker, heartbeat>>

\* claimSpecific: the named job or an error, which rolls the reap back.
ClaimSpecific(w, j) ==
  LET L == Closed(ExpiredLeases, "EXPIRED")
      J == ReturnedToPending(ExpiredLeases)
  IN  /\ MayClaim(w, L)
      /\ j \in Available(J)
      /\ j \in Runnable(w, L, {j})
      /\ \E l \in Leases : ClaimJob(w, j, l, L, J)
      /\ UNCHANGED <<run, worker, heartbeat>>

-----------------------------------------------------------------------------
(* Keeping and giving up a lease. *)

\* What a call by the owner of lease l with its token requires.
OwnedActiveLease(l) ==
  /\ Active(l)
  /\ worker[lease[l].worker].desired # "DISABLED"

Lesser(a, b) == IF a <= b THEN a ELSE b

\* A faulty renewal without the hard limit.
RenewWithoutHardLimit(l) ==
  /\ OwnedActiveLease(l)
  /\ lease[l].ttl > 0
  /\ lease' = [lease EXCEPT ![l].ttl = LeaseDuration]
  /\ UNCHANGED <<run, job, worker, heartbeat>>

\* renewLease: the expiry slides but never past the hard limit.  A renewal that
\* comes too late is rolled back, after which the facade reaps.
RenewLease(l) ==
  /\ OwnedActiveLease(l)
  /\ \/ /\ lease[l].ttl > 0 /\ lease[l].life > 0
        /\ lease' = [lease EXCEPT ![l].ttl = Lesser(LeaseDuration, lease[l].life)]
        /\ UNCHANGED job
     \/ /\ lease[l].ttl = 0 \/ lease[l].life = 0
        /\ Reap
  /\ UNCHANGED <<run, worker, heartbeat>>

\* A faulty release that leaves the job LEASED.
ReleaseWithoutJob(l) ==
  /\ OwnedActiveLease(l)
  /\ lease' = Closed({l}, "RELEASED")
  /\ UNCHANGED <<run, job, worker, heartbeat>>

\* releaseLease: no look at the expiry.
ReleaseLease(l) ==
  /\ OwnedActiveLease(l)
  /\ lease' = Closed({l}, "RELEASED")
  /\ job' = ReturnedToPending({l})
  /\ UNCHANGED <<run, worker, heartbeat>>

ReapExpired ==
  /\ ExpiredLeases # {}
  /\ Reap
  /\ UNCHANGED <<run, worker, heartbeat>>

-----------------------------------------------------------------------------
Before(n) == IF n = 0 THEN 0 ELSE n - 1

Aged(x) ==
  [status |-> x.status, worker |-> x.worker, job |-> x.job,
   ttl |-> Before(x.ttl), life |-> Before(x.life), age |-> Lesser(x.age + 1, RateWindow + 1)]

\* One tick of the clock every handler reads.
ClockTick ==
  /\ job' = [j \in Jobs |-> IF job[j] = NoJob THEN NoJob
                            ELSE [job[j] EXCEPT !.wait = Before(@)]]
  /\ lease' = [l \in Leases |-> IF lease[l] = NoLease THEN NoLease ELSE Aged(lease[l])]
  /\ heartbeat' = [w \in Workers |->
                     [heartbeat[w] EXCEPT !.age = Lesser(@ + 1, HeartbeatFreshness + 1)]]
  /\ UNCHANGED <<run, worker>>
=============================================================================

---------------------------- MODULE DetailEnrichment ----------------------------
(***************************************************************************)
(* The CNIPA detail enrichment: the durable queue and the request budget   *)
(* of its lane (cnipa-detail-enrichment-queue.ts), and the workers' runs   *)
(* over it (cnipa-detail-governed-run.ts, cnipa-detail-worker.ts).         *)
(*                                                                         *)
(* A worker has at most one claim it may still write for, so a lease is    *)
(* known by the worker it was given to: a worker that dies or throws       *)
(* leaves its lease behind and never uses its id again.                    *)
(***************************************************************************)
EXTENDS Naturals, FiniteSets

CONSTANTS
  Items,         \* detail pointers found in lists
  Workers,       \* processes that run over the queue
  NoWorker,      \* the lease of a row nobody holds
  MaxAttempts,   \* attempts are counted up to here
  MaxRequests,   \* requests a budget window admits
  Cap,           \* requests of one run
  Overlap,       \* whether a window may begin while runs of the last one go on
  MaxHolds       \* bound on the holds that operators release

EnrichmentAssumption ==
  /\ IsFiniteSet(Items) /\ NoWorker \notin Workers
  /\ MaxAttempts \in Nat /\ MaxRequests \in Nat \ {0} /\ Cap \in Nat \ {0}
  /\ Overlap \in BOOLEAN /\ MaxHolds \in Nat

VARIABLES
  queue,     \* Item -> its row; a row that was not admitted yet is as if new
  admitted,  \* the items that have a row
  earlier,   \* <<i, j>>: both rows' times of a next attempt have passed, i's before j's
  lane,      \* cnipa_detail_lane_governance: the window last used, its count, whether the interval passed
  window,    \* the budget window new runs use
  requests,  \* Window -> requests made to the source in it
  worker,    \* Worker -> where its run is
  stored,    \* the items with a raw artifact
  holds

vars == <<queue, admitted, earlier, lane, window, requests, worker, stored, holds>>

D == INSTANCE DetailItem WITH items <- queue

\* Three keys are enough to tell the current window, the last one used and a new one apart.
Window == 1 .. 3

Lane == [key: Window, count: 0 .. MaxRequests, paced: BOOLEAN]

\* The rows whose time of a next attempt has passed.
Due == {i \in Items: queue[i].lifecycle = "RETRYABLE" /\ queue[i].next = "DUE"}

Idle == [phase |-> "IDLE"]
WorkerState ==
  {Idle}
  \cup [phase: {"CLAIM"}, left: 1 .. Cap, window: Window]
  \cup [phase: {"REQUEST", "INGEST", "RECORD"}, left: 1 .. Cap, window: Window, item: Items]

Init ==
  /\ queue = [i \in Items |-> D!createCnipaDetailEnrichmentItem]
  /\ admitted = {}
  /\ earlier = {}
  /\ lane = [key |-> 1, count |-> 0, paced |-> TRUE]
  /\ window = 1
  /\ requests = [k \in Window |-> 0]
  /\ worker = [w \in Workers |-> Idle]
  /\ stored = {}
  /\ holds = 0

-----------------------------------------------------------------------------
(* Lists, operators and the clock. *)

\* An item that is seen again keeps everything but its provenance.
admit(i) ==
  /\ admitted' = admitted \cup {i}
  /\ UNCHANGED <<queue, earlier, lane, window, requests, worker, stored, holds>>

ReleasesAsRetryable(i) ==
  /\ queue[i].hold
  /\ holds < MaxHolds
  /\ holds' = holds + 1
  /\ queue' = [queue EXCEPT ![i].hold = FALSE, ![i].lifecycle = "RETRYABLE"]
  /\ UNCHANGED <<admitted, earlier, lane, window, requests, worker, stored>>

releaseAuthSecurityHold(i) ==
  /\ queue[i].hold
  /\ queue[i].lease = NoWorker
  /\ holds < MaxHolds
  /\ holds' = holds + 1
  /\ queue' = [queue EXCEPT ![i] = D!releaseCnipaDetailAuthSecurityHold(@)]
  /\ UNCHANGED <<admitted, earlier, lane, window, requests, worker, stored>>

RetryFallsDue(i) ==
  /\ queue[i].next = "LATER"
  /\ queue' = [queue EXCEPT ![i].next = "DUE"]
  /\ earlier' = earlier \cup Due \X {i}
  /\ UNCHANGED <<admitted, lane, window, requests, worker, stored, holds>>

LeaseExpires(i) ==
  /\ queue[i].lifecycle = "LEASED"
  /\ ~queue[i].expired
  /\ queue' = [queue EXCEPT ![i].expired = TRUE]
  /\ UNCHANGED <<admitted, earlier, lane, window, requests, worker, stored, holds>>

IntervalPasses ==
  /\ ~lane.paced
  /\ lane' = [lane EXCEPT !.paced = TRUE]
  /\ UNCHANGED <<queue, admitted, earlier, window, requests, worker, stored, holds>>

WindowBegins ==
  /\ Overlap \/ \A w \in Workers: worker[w] = Idle
  /\ requests[window] > 0
  /\ \E k \in Window \ {window, lane.key}:
       /\ window' = k
       /\ requests' = [requests EXCEPT ![k] = 0]
  /\ UNCHANGED <<queue, admitted, earlier, lane, worker, stored, holds>>

-----------------------------------------------------------------------------
(* Claims. *)

Expired == {i \in Items: queue[i].lifecycle = "LEASED" /\ queue[i].expired}

\* The queue and the order of its due rows once expired leases are taken back.
Reclaimed == [i \in Items |-> D!reclaimExpiredCnipaDetailLease(queue[i])]
DueReclaimed == earlier \cup Due \X Expired

Eligible == {i \in admitted: D!isCnipaDetailEligible(Reclaimed[i])}

HasNoTime(i) == Reclaimed[i].next = "NULL"

LatestDueFirst ==
  {i \in Eligible: \A j \in Eligible: (HasNoTime(j) => HasNoTime(i)) /\ <<i, j>> \notin DueReclaimed}

\* Rows with no time first, then the earliest.
NextCandidates ==
  {i \in Eligible: \A j \in Eligible: (HasNoTime(j) => HasNoTime(i)) /\ <<j, i>> \notin DueReclaimed}

NeverCounts(k) == 0

CountInWindow(k) == IF lane.key = k THEN lane.count ELSE 0

StartRun(w) ==
  /\ worker[w] = Idle
  /\ worker' = [worker EXCEPT ![w] = [phase |-> "CLAIM", left |-> Cap, window |-> window]]
  /\ UNCHANGED <<queue, admitted, earlier, lane, window, requests, stored, holds>>

\* The lane is paced, its budget is spent or no row is due: the run ends, but
\* leases that had expired were taken back.
ClaimRefused(w) ==
  /\ worker[w].phase = "CLAIM"
  /\ \/ ~lane.paced
     \/ CountInWindow(worker[w].window) >= MaxRequests
     \/ NextCandidates = {}
  /\ queue' = Reclaimed
  /\ earlier' = DueReclaimed
  /\ worker' = [worker EXCEPT ![w] = Idle]
  /\ UNCHANGED <<admitted, lane, window, requests, stored, holds>>

claimNextGoverned(w) ==
  /\ worker[w].phase = "CLAIM"
  /\ lane.paced
  /\ CountInWindow(worker[w].window) < MaxRequests
  /\ \E i \in NextCandidates:
       /\ queue' = [Reclaimed EXCEPT ![i] = D!leaseCnipaDetailEnrichmentItem(@, w)]
       /\ earlier' = {p \in DueReclaimed: i \notin {p[1], p[2]}}
       /\ worker' = [worker EXCEPT ![w] =
            [phase |-> "REQUEST", left |-> worker[w].left, window |-> worker[w].window, item |-> i]]
  /\ lane' = [key |-> worker[w].window, count |-> CountInWindow(worker[w].window) + 1, paced |-> FALSE]
  /\ requests' = [requests EXCEPT ![worker[w].window] = @ + 1]
  /\ UNCHANGED <<admitted, window, stored, holds>>

-----------------------------------------------------------------------------
(* Requests. *)

At(w, phase) == worker[w].phase = phase

\* Whether the lease a worker claimed with is still the row's.
Owns(w) == queue[worker[w].item].lifecycle = "LEASED" /\ queue[worker[w].item].lease = w

\* A run goes on after an outcome unless it used its requests up or was stopped.
AfterOutcome(w, outcome) ==
  IF outcome = "AUTH_SECURITY_HOLD" \/ worker[w].left = 1 THEN Idle
  ELSE [phase |-> "CLAIM", left |-> worker[w].left - 1, window |-> worker[w].window]

\* persistAttemptTransition; a worker whose lease was taken throws, which ends its run.
persistOutcome(w, outcome) ==
  LET i == worker[w].item
  IN  IF Owns(w)
      THEN /\ queue' = [queue EXCEPT ![i] = D!applyCnipaDetailAttemptOutcome(@, outcome)]
           /\ worker' = [worker EXCEPT ![w] = AfterOutcome(w, outcome)]
      ELSE /\ worker' = [worker EXCEPT ![w] = Idle]
           /\ UNCHANGED queue

\* The source answers with a failure the worker can classify.
Refused(w, outcome) ==
  /\ At(w, "REQUEST")
  /\ outcome # "FETCHED"
  /\ persistOutcome(w, outcome)
  /\ UNCHANGED <<admitted, earlier, lane, window, requests, stored, holds>>

\* A run dies with its process, or of a failure of the source or the artifact
\* store that is not classified; its lease stays.
Dies(w) ==
  /\ worker[w] # Idle
  /\ worker' = [worker EXCEPT ![w] = Idle]
  /\ UNCHANGED <<queue, admitted, earlier, lane, window, requests, stored, holds>>

RecordsFirst(w) ==
  /\ At(w, "REQUEST")
  /\ persistOutcome(w, "FETCHED")
  /\ UNCHANGED <<admitted, earlier, lane, window, requests, stored, holds>>

Answered(w) ==
  /\ At(w, "REQUEST")
  /\ worker' = [worker EXCEPT ![w].phase = "INGEST"]
  /\ UNCHANGED <<queue, admitted, earlier, lane, window, requests, stored, holds>>

ingestCnipaDetailAsRawArtifact(w) ==
  /\ At(w, "INGEST")
  /\ stored' = stored \cup {worker[w].item}
  /\ worker' = [worker EXCEPT ![w].phase = "RECORD"]
  /\ UNCHANGED <<queue, admitted, earlier, lane, window, requests, holds>>

Fetched(w) ==
  /\ At(w, "RECORD")
  /\ persistOutcome(w, "FETCHED")
  /\ UNCHANGED <<admitted, earlier, lane, window, requests, stored, holds>>

-----------------------------------------------------------------------------

WorkerStep(w) ==
  \/ ClaimRefused(w) \/ claimNextGoverned(w)
  \/ \E outcome \in D!Outcome: Refused(w, outcome)
  \/ Dies(w) \/ Answered(w) \/ ingestCnipaDetailAsRawArtifact(w) \/ Fetched(w)

Next ==
  \/ \E i \in Items: admit(i) \/ releaseAuthSecurityHold(i) \/ RetryFallsDue(i) \/ LeaseExpires(i)
  \/ \E w \in Workers: StartRun(w) \/ WorkerStep(w)
  \/ IntervalPasses
  \/ WindowBegins

Spec == Init /\ [][Next]_vars

(* Runs end, somebody goes on starting runs of which not every one dies    *)
(* before it claims, and time passes: delays, intervals, leases and        *)
(* windows come to their end.  Nothing is assumed of what the source       *)
(* answers.                                                                *)
Fairness ==
  /\ \A w \in Workers: WF_vars(WorkerStep(w))
  /\ \E w \in Workers: WF_vars(StartRun(w)) /\ SF_vars(claimNextGoverned(w))
  /\ \A i \in Items: WF_vars(RetryFallsDue(i)) /\ WF_vars(LeaseExpires(i))
  /\ WF_vars(IntervalPasses)
  /\ SF_vars(WindowBegins)

FairSpec == Spec /\ Fairness

-----------------------------------------------------------------------------
(* Properties. *)

TypeOK ==
  /\ queue \in [Items -> D!CnipaDetailEnrichmentItem]
  /\ admitted \subseteq Items
  /\ earlier \subseteq Due \X Due
  /\ \A i \in Due: <<i, i>> \notin earlier
  /\ \A i, j, k \in Due: <<i, j>> \in earlier /\ <<j, k>> \in earlier => <<i, k>> \in earlier
  /\ lane \in Lane
  /\ window \in Window
  /\ requests \in [Window -> Nat]
  /\ worker \in [Workers -> WorkerState]
  /\ stored \subseteq Items
  /\ holds \in 0 .. MaxHolds

\* The source sees no more requests in a budget window than the policy admits,
\* however many runs share the window and whatever becomes of them
\* (cnipa-detail-enrichment-queue.ts claimNextGoverned).
BudgetKept == \A k \in Window: requests[k] <= MaxRequests

\* A row that says its detail was fetched has it: the raw artifact was stored
\* before the row was written, by whichever worker wrote it
\* (cnipa-detail-worker.ts processNextCnipaDetail).
FetchedIsStored ==
  \A i \in Items: queue[i].lifecycle = "FETCHED" => queue[i].artifact /\ i \in stored

\* The statements of the queue are the state machine of the worker runtime
\* (cnipa-detail-enrichment-state.ts): every row lives a life it allows.
RowsFollowTheStateMachine == D!Spec

\* Every row waits for its turn only so long: it is asked for again, or held
\* for an operator, although other rows keep failing and leases keep expiring.
RowsGetTheirTurn ==
  \A i \in Items:
    (i \in admitted /\ queue[i].lifecycle \in {"PENDING", "RETRYABLE"}) ~>
      (queue[i].lifecycle \notin {"PENDING", "RETRYABLE"} \/ queue[i].hold)
=============================================================================

---------------------------- MODULE KnowledgeJobs ----------------------------
(***************************************************************************)
(* The durable queue of AI knowledge jobs (apps/worker/src/                 *)
(* adk-knowledge-job-queue*.ts, adk-knowledge-job-worker.ts): one row per   *)
(* execution key, workers that claim the oldest queued job and call a paid  *)
(* provider, and the operator's recovery command, which lists the queue and *)
(* then rewrites it row by row.  Every write after the claim replaces the   *)
(* whole document under a compare-and-set on the status alone, so a writer  *)
(* may act on a document it read long ago.                                  *)
(*                                                                         *)
(* A provider is called directly or, if so configured, through the managed  *)
(* execution of another service, Core.  The managed adapters report some    *)
(* calls as retryable that Core may have taken, and these are called again, *)
(* under the same idempotency key; that Core runs a key once is assumed of  *)
(* it and not part of the model.                                            *)
(*                                                                         *)
(* A job's updatedAt is abstracted to whether it is older than the          *)
(* recovery's threshold.                                                    *)
(***************************************************************************)
EXTENDS Naturals, Sequences, FiniteSets

CONSTANTS Jobs,         \* execution keys
          Grounded,     \* the jobs in mode GROUNDED_PREPARED
          Managed,      \* the jobs that may be called through the managed adapters
          Workers,      \* queue worker processes
          None,         \* no job
          MaxAttempts,  \* maxAttempts of a LEGACY_PROVIDER job
          MaxLosses,    \* bound on the retryable losses of a job
          MaxCrashes    \* bound on process deaths

ASSUME JobsAssumption ==
    /\ Grounded \subseteq Jobs
    /\ Managed \subseteq Jobs
    /\ None \notin Jobs
    /\ MaxAttempts \in Nat \ {0}
    /\ MaxLosses \in Nat
    /\ MaxCrashes \in Nat

VARIABLES status,     \* status[j]: the row's status, "ABSENT" before it is enqueued
          attempts,   \* attempts[j]: the failures the row counts
          stale,      \* stale[j]: updatedAt lies before the threshold
          queue,      \* the rows by created_at
          pc,         \* pc[w]: where processNextAdkKnowledgeJob of w stands
          held,       \* held[w]: the job w works on
          read,       \* read[w]: attempts in the document w claimed
          scan,       \* the rest of the list the recovery command read
          flags,      \* the statuses that command was told to requeue
          delivered,  \* delivered[j]: the calls that were, or may have been, answered
          lost,       \* lost[j]: those among them that were reported as retryable
          stored,     \* stored[j]: the sink kept evidence of an answer
          crashes     \* process deaths so far

rows == <<status, attempts, stale>>
worker == <<pc, held, read>>
recovery == <<scan, flags>>
evidence == <<delivered, lost, stored>>
vars == <<rows, queue, worker, recovery, evidence, crashes>>

Statuses == {"QUEUED", "CLAIMED", "RUNNING", "SUCCEEDED", "FAILED",
             "RETRY_PENDING", "BLOCKED_CREDENTIAL", "BLOCKED_RECOVERY",
             "BLOCKED_EXECUTION"}

\* How the provider call of a running job may end.  "refused" and "retryable"
\* are errors without an answer, the failed checks before the call and HTTP
\* error statuses; "mismatched" is an answer for another assignment or provider,
\* "unusable" one the adapter throws away; "uncertain" is a timeout, a network
\* error or an ungoverned error; "lost" is an error of a managed adapter that is
\* retryable although Core may have taken the call or answered it.
Outcomes == {"acquired", "mismatched", "unusable", "refused", "retryable",
             "credential", "uncertain", "lost"}

\* The outcomes of a call that was, or may have been, answered.
Answered == {"acquired", "mismatched", "unusable", "uncertain", "lost"}

\* How the sink may end: both artifacts kept, an error before or after the
\* first one, or artifact ids that do not form a lineage.
SinkEnds == {"stored", "failed", "half stored", "conflicting"}

Rows == [job : Jobs, status : Statuses, attempts : Nat, stale : BOOLEAN]

\* The document is written whole if the row still has the expected status.
SaveIfStatus(j, expected, next, count) ==
    IF status[j] = expected
    THEN /\ status' = [status EXCEPT ![j] = next]
         /\ attempts' = [attempts EXCEPT ![j] = count]
         /\ stale' = [stale EXCEPT ![j] = FALSE]
    ELSE UNCHANGED rows

\* An unconditional write in place of the compare-and-set.
SaveWithoutCompare(j, expected, next, count) ==
    /\ status' = [status EXCEPT ![j] = next]
    /\ attempts' = [attempts EXCEPT ![j] = count]
    /\ stale' = [stale EXCEPT ![j] = FALSE]

Release(w) ==
    /\ pc' = [pc EXCEPT ![w] = "idle"]
    /\ held' = [held EXCEPT ![w] = None]
    /\ read' = [read EXCEPT ![w] = 0]

-----------------------------------------------------------------------------
Init ==
    /\ status = [j \in Jobs |-> "ABSENT"]
    /\ attempts = [j \in Jobs |-> 0]
    /\ stale = [j \in Jobs |-> FALSE]
    /\ queue = <<>>
    /\ pc = [w \in Workers |-> "idle"]
    /\ held = [w \in Workers |-> None]
    /\ read = [w \in Workers |-> 0]
    /\ scan = <<>>
    /\ flags = {}
    /\ delivered = [j \in Jobs |-> 0]
    /\ lost = [j \in Jobs |-> 0]
    /\ stored = [j \in Jobs |-> FALSE]
    /\ crashes = 0

\* put: a row for an execution key that has none.
Put(j) ==
    /\ status[j] = "ABSENT"
    /\ status' = [status EXCEPT ![j] = "QUEUED"]
    /\ queue' = Append(queue, j)
    /\ UNCHANGED <<attempts, stale, worker, recovery, evidence, crashes>>

\* enqueueAdkKnowledgeJobs and enqueueAdkGroundedPreparedExecution return a
\* row that exists as it is.
Enqueue(j) == j \notin Grounded /\ Put(j)
EnqueueGrounded(j) == j \in Grounded /\ Put(j)

\* store.claimNext, one immediate transaction: the oldest queued job.
ClaimNext(w) ==
    /\ pc[w] = "idle"
    /\ \E i \in DOMAIN queue :
          /\ status[queue[i]] = "QUEUED"
          /\ \A k \in 1 .. (i - 1) : status[queue[k]] # "QUEUED"
          /\ status' = [status EXCEPT ![queue[i]] = "CLAIMED"]
          /\ stale' = [stale EXCEPT ![queue[i]] = FALSE]
          /\ held' = [held EXCEPT ![w] = queue[i]]
          /\ read' = [read EXCEPT ![w] = attempts[queue[i]]]
    /\ pc' = [pc EXCEPT ![w] = "claimed"]
    /\ UNCHANGED <<attempts, queue, recovery, evidence, crashes>>

\* A grounded job is blocked before anything is run.
BlockGrounded(w) ==
    /\ pc[w] = "claimed"
    /\ held[w] \in Grounded
    /\ SaveIfStatus(held[w], "CLAIMED", "BLOCKED_EXECUTION", read[w])
    /\ Release(w)
    /\ UNCHANGED <<queue, recovery, evidence, crashes>>

\* The status that is written before the call is not compared.
MarkRunningAnyway(w) ==
    /\ pc[w] = "claimed"
    /\ held[w] \notin Grounded
    /\ SaveWithoutCompare(held[w], "CLAIMED", "RUNNING", read[w])
    /\ pc' = [pc EXCEPT ![w] = "calling"]
    /\ UNCHANGED <<held, read, queue, recovery, evidence, crashes>>

\* CLAIMED to RUNNING, and the call.  A worker that lost its claim returns.
MarkRunning(w) ==
    /\ pc[w] = "claimed"
    /\ held[w] \notin Grounded
    /\ SaveIfStatus(held[w], "CLAIMED", "RUNNING", read[w])
    /\ IF status[held[w]] = "CLAIMED"
       THEN /\ pc' = [pc EXCEPT ![w] = "calling"]
            /\ UNCHANGED <<held, read>>
       ELSE Release(w)
    /\ UNCHANGED <<queue, recovery, evidence, crashes>>

\* failJob: the failure is counted, and is final when it is the last allowed.
FailJob(w, retryable) ==
    SaveIfStatus(held[w], "RUNNING",
                 IF retryable /\ read[w] + 1 < MaxAttempts
                 THEN "RETRY_PENDING" ELSE "FAILED",
                 read[w] + 1)

\* A timeout is taken for a failure like the others that may be retried.
SettleTimeoutAsFailure(w, outcome) ==
    IF outcome = "credential"
    THEN SaveIfStatus(held[w], "RUNNING", "BLOCKED_CREDENTIAL", read[w])
    ELSE FailJob(w, outcome \in {"retryable", "lost", "uncertain"})

\* What the queue is told of a call that did not end in an acquisition.
SettleCall(w, outcome) ==
    CASE outcome = "credential" ->
           SaveIfStatus(held[w], "RUNNING", "BLOCKED_CREDENTIAL", read[w])
      [] outcome = "uncertain" ->
           SaveIfStatus(held[w], "RUNNING", "BLOCKED_RECOVERY", read[w])
      [] OTHER -> FailJob(w, outcome \in {"retryable", "lost"})

CallEnds(w, outcome) ==
    /\ pc[w] = "calling"
    /\ outcome = "lost" => held[w] \in Managed /\ lost[held[w]] < MaxLosses
    /\ delivered' = IF outcome \in Answered
                    THEN [delivered EXCEPT ![held[w]] = @ + 1] ELSE delivered
    /\ lost' = IF outcome = "lost" THEN [lost EXCEPT ![held[w]] = @ + 1] ELSE lost
    /\ IF outcome = "acquired"
       THEN /\ pc' = [pc EXCEPT ![w] = "storing"]
            /\ UNCHANGED <<rows, held, read>>
       ELSE SettleCall(w, outcome) /\ Release(w)
    /\ UNCHANGED <<queue, recovery, stored, crashes>>

\* An error of the sink is not noticed.
SinkEndUnnoticed(w, end) ==
    /\ pc[w] = "storing"
    /\ stored' = [stored EXCEPT ![held[w]] = @ \/ end # "failed"]
    /\ SaveIfStatus(held[w], "RUNNING",
                    IF end # "conflicting" THEN "SUCCEEDED" ELSE "BLOCKED_RECOVERY",
                    read[w])
    /\ Release(w)
    /\ UNCHANGED <<queue, recovery, delivered, lost, crashes>>

\* The answer is completed whatever became of the row meanwhile.
CompleteAnyway(w, end) ==
    /\ pc[w] = "storing"
    /\ stored' = [stored EXCEPT ![held[w]] = @ \/ end # "failed"]
    /\ SaveWithoutCompare(held[w], "RUNNING",
                          IF end = "stored" THEN "SUCCEEDED" ELSE "BLOCKED_RECOVERY",
                          read[w])
    /\ Release(w)
    /\ UNCHANGED <<queue, recovery, delivered, lost, crashes>>

\* The sink registers the raw response and its Markdown; after that an error
\* is never a reason to call the provider again.
SinkEnd(w, end) ==
    /\ pc[w] = "storing"
    /\ stored' = [stored EXCEPT ![held[w]] = @ \/ end # "failed"]
    /\ SaveIfStatus(held[w], "RUNNING",
                    IF end = "stored" THEN "SUCCEEDED" ELSE "BLOCKED_RECOVERY",
                    read[w])
    /\ Release(w)
    /\ UNCHANGED <<queue, recovery, delivered, lost, crashes>>

-----------------------------------------------------------------------------
\* recoverAdkKnowledgeJobs reads the whole list, with the flags it was given.
StartRecovery(requeued) ==
    /\ scan = <<>>
    /\ queue # <<>>
    /\ scan' = [i \in 1 .. Len(queue) |->
                   [job |-> queue[i], status |-> status[queue[i]],
                    attempts |-> attempts[queue[i]], stale |-> stale[queue[i]]]]
    /\ flags' = requeued
    /\ UNCHANGED <<rows, queue, worker, evidence, crashes>>

\* Stale running jobs are queued again.
RecoveredByReplay(row, requeued) ==
    CASE row.status \in requeued              -> "QUEUED"
      [] row.status \in {"CLAIMED", "RUNNING"} /\ row.stale -> "QUEUED"
      [] OTHER                                -> row.status

\* Stale claims are left alone.
RecoveredWithoutClaims(row, requeued) ==
    CASE row.status \in requeued              -> "QUEUED"
      [] row.status = "RUNNING" /\ row.stale  -> "BLOCKED_RECOVERY"
      [] OTHER                                -> row.status

\* What the command writes for a row it read, given the statuses to requeue.
Recovered(row, requeued) ==
    CASE row.status \in requeued              -> "QUEUED"
      [] row.status = "CLAIMED" /\ row.stale  -> "QUEUED"
      [] row.status = "RUNNING" /\ row.stale  -> "BLOCKED_RECOVERY"
      [] OTHER                                -> row.status

RecoverNext ==
    /\ scan # <<>>
    /\ LET row == Head(scan)
           next == Recovered(row, flags)
       IN  IF next = row.status
           THEN UNCHANGED rows
           ELSE SaveIfStatus(row.job, row.status, next, row.attempts)
    /\ scan' = Tail(scan)
    /\ flags' = IF Len(scan) = 1 THEN {} ELSE flags
    /\ UNCHANGED <<queue, worker, evidence, crashes>>

\* Time passes until the row's updatedAt lies before the threshold.
GrowStale(j) ==
    /\ status[j] \in {"CLAIMED", "RUNNING"}
    /\ ~stale[j]
    /\ stale' = [stale EXCEPT ![j] = TRUE]
    /\ UNCHANGED <<status, attempts, queue, worker, recovery, evidence, crashes>>

\* A worker process dies; what its call did is not known.
Crash(w) ==
    /\ crashes < MaxCrashes
    /\ pc[w] # "idle"
    /\ crashes' = crashes + 1
    /\ delivered' = IF pc[w] = "calling"
                    THEN [delivered EXCEPT ![held[w]] = @ + 1] ELSE delivered
    /\ Release(w)
    /\ UNCHANGED <<rows, queue, recovery, lost, stored>>

CrashRecovery ==
    /\ crashes < MaxCrashes
    /\ scan # <<>>
    /\ crashes' = crashes + 1
    /\ scan' = <<>>
    /\ flags' = {}
    /\ UNCHANGED <<rows, queue, worker, evidence>>

Next ==
    \/ \E j \in Jobs : Enqueue(j) \/ EnqueueGrounded(j) \/ GrowStale(j)
    \/ \E w \in Workers :
          \/ ClaimNext(w) \/ BlockGrounded(w) \/ MarkRunning(w) \/ Crash(w)
          \/ \E outcome \in Outcomes : CallEnds(w, outcome)
          \/ \E end \in SinkEnds : SinkEnd(w, end)
    \/ \E requeued \in SUBSET {"RETRY_PENDING", "BLOCKED_CREDENTIAL"} :
          StartRecovery(requeued)
    \/ RecoverNext
    \/ CrashRecovery

Spec == Init /\ [][Next]_vars

\* Time passes, and the operator runs the recovery command again and again.
Fairness ==
    /\ \A j \in Jobs : WF_vars(GrowStale(j))
    /\ WF_vars(\E requeued \in SUBSET {"RETRY_PENDING", "BLOCKED_CREDENTIAL"} :
                  StartRecovery(requeued))
    /\ WF_vars(RecoverNext)

FairSpec == Spec /\ Fairness

-----------------------------------------------------------------------------
TypeOK ==
    /\ status \in [Jobs -> Statuses \cup {"ABSENT"}]
    /\ attempts \in [Jobs -> Nat]
    /\ stale \in [Jobs -> BOOLEAN]
    /\ queue \in Seq(Jobs)
    /\ pc \in [Workers -> {"idle", "claimed", "calling", "storing"}]
    /\ held \in [Workers -> Jobs \cup {None}]
    /\ \A w \in Workers : pc[w] # "idle" => held[w] \in Jobs
    /\ read \in [Workers -> Nat]
    /\ scan \in Seq(Rows)
    /\ flags \subseteq {"RETRY_PENDING", "BLOCKED_CREDENTIAL"}
    /\ delivered \in [Jobs -> Nat]
    /\ lost \in [Jobs -> Nat]
    /\ stored \in [Jobs -> BOOLEAN]
    /\ crashes \in 0 .. MaxCrashes

Busy(w) == pc[w] \in {"calling", "storing"}

\* At most one worker is between the call of a job's provider and the end of
\* its sink, also after the recovery command took a stale claim or a stale
\* run away from a worker that is still at work; a grounded job has none.
OneCallAtATime ==
    \A w \in Workers : Busy(w) =>
        /\ held[w] \notin Grounded
        /\ \A v \in Workers : Busy(v) /\ held[v] = held[w] => v = w

\* However recovery, retries and late workers interleave, a job is called again
\* after a call that was or may have been answered only if a managed adapter
\* reported that call as retryable (persistFailure of processNextAdkKnowledgeJob):
\* a direct call that was answered, timed out or died with its worker is the last
\* one of its job.
RepeatedOnlyIfLost ==
    \A j \in Jobs :
        /\ delivered[j] <= 1 + lost[j]
        /\ delivered[j] > lost[j] =>
              status[j] \in {"RUNNING", "SUCCEEDED", "FAILED", "BLOCKED_RECOVERY"}
        /\ lost[j] > 0 => j \in Managed

\* Evidence in the sink belongs to a job that is still running, succeeded or
\* waits for reconciliation, and a job that succeeded has its evidence.
EvidenceSettles ==
    \A j \in Jobs :
        /\ stored[j] => status[j] \in {"RUNNING", "SUCCEEDED", "BLOCKED_RECOVERY"}
        /\ status[j] = "SUCCEEDED" => stored[j]

\* Every paid call is accounted for: all of the above.
CallsAccounted == TypeOK /\ OneCallAtATime /\ RepeatedOnlyIfLost /\ EvidenceSettles

\* A step leaves a quarantined job in quarantine: neither the recovery command
\* nor a worker that answers late may move it.
QuarantineIsFinal ==
    \A j \in Jobs : status[j] = "BLOCKED_RECOVERY" => status'[j] = "BLOCKED_RECOVERY"

\* A job a worker claimed or runs does not stay with it for ever, even when
\* the worker died.
HeldJobsComeBack ==
    \A j \in Jobs : []<>(status[j] \notin {"CLAIMED", "RUNNING"})
=============================================================================

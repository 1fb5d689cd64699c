------------------------- MODULE KnowledgeJobsProofs -------------------------
(***************************************************************************)
(* Theorems about KnowledgeJobs, for every number of jobs and workers and  *)
(* every bound on attempts and crashes.  The queue compares the status     *)
(* alone when it writes, and the recovery command writes from a list it    *)
(* read long ago; what makes this safe is where a status may come from.    *)
(***************************************************************************)
EXTENDS KnowledgeJobs, TLAPS

\* At most one call of a job was answered and not reported as retryable; such a
\* job is not called again, its evidence is of that answer, and it succeeded only
\* with evidence.
Settled(j) == delivered[j] = lost[j] + 1

JobInv(j) ==
  /\ delivered[j] = lost[j] \/ Settled(j)
  /\ Settled(j) => status[j] \in {"RUNNING", "SUCCEEDED", "FAILED", "BLOCKED_RECOVERY"}
  /\ stored[j] => status[j] \in {"RUNNING", "SUCCEEDED", "BLOCKED_RECOVERY"}
  /\ status[j] = "SUCCEEDED" => stored[j]
  /\ stored[j] => Settled(j)
  /\ lost[j] > 0 => j \in Managed

\* What the properties rest on: the job of a worker that is at the provider or
\* at the sink runs or was quarantined, because recovery takes nothing else away
\* from it, so no second claim can have followed; and every answer that came before
\* the one that is being waited for was reported as lost.
WorkerInv(w) ==
  Busy(w) =>
    /\ held[w] \notin Grounded
    /\ status[held[w]] \in {"RUNNING", "BLOCKED_RECOVERY"}
    /\ pc[w] = "calling" => ~Settled(held[w])
    /\ pc[w] = "storing" => Settled(held[w])
    /\ \A v \in Workers : Busy(v) /\ held[v] = held[w] => v = w

Each == (\A j \in Jobs : JobInv(j)) /\ (\A w \in Workers : WorkerInv(w))

\* Every row of the list has been enqueued: what the recovery command reads of
\* it is a status.
QueueHasRows == \A i \in DOMAIN queue : status[queue[i]] # "ABSENT"

Inv == TypeOK /\ QueueHasRows /\ Each

\* The statuses a row may have after each status.
Moves(from) ==
  CASE from = "ABSENT"  -> {"QUEUED"}
    [] from = "QUEUED"  -> {"CLAIMED"}
    [] from = "CLAIMED" -> {"RUNNING", "BLOCKED_EXECUTION", "QUEUED"}
    [] from = "RUNNING" -> {"SUCCEEDED", "FAILED", "RETRY_PENDING", "BLOCKED_CREDENTIAL",
                            "BLOCKED_RECOVERY"}
    [] from \in {"RETRY_PENDING", "BLOCKED_CREDENTIAL"} -> {"QUEUED"}
    [] OTHER -> {}

RowsMove == \A j \in Jobs : status'[j] = status[j] \/ status'[j] \in Moves(status[j])

-----------------------------------------------------------------------------
(* What the writes do. *)

\* A worker that lets go of its job holds none, and the others are as before.
LEMMA ReleaseType ==
  ASSUME TypeOK, NEW w \in Workers, Release(w)
  PROVE  /\ pc' \in [Workers -> {"idle", "claimed", "calling", "storing"}]
         /\ held' \in [Workers -> Jobs \cup {None}]
         /\ read' \in [Workers -> Nat]
         /\ pc'[w] = "idle"
         /\ \A v \in Workers \ {w} : pc'[v] = pc[v] /\ held'[v] = held[v]
BY DEF TypeOK, Release

\* The compare-and-set writes one row, and only one that has the status that is
\* expected of it.
LEMMA SaveType ==
  ASSUME TypeOK, NEW j \in Jobs, NEW expected, NEW next \in Statuses, NEW count \in Nat,
         SaveIfStatus(j, expected, next, count)
  PROVE  /\ status' \in [Jobs -> Statuses \cup {"ABSENT"}]
         /\ attempts' \in [Jobs -> Nat]
         /\ stale' \in [Jobs -> BOOLEAN]
         /\ \A k \in Jobs \ {j} : status'[k] = status[k]
         /\ status[j] = expected => status'[j] = next
         /\ status[j] # expected => status'[j] = status[j]
<1>1. CASE status[j] = expected
  <2>1. /\ status' = [status EXCEPT ![j] = next]
        /\ attempts' = [attempts EXCEPT ![j] = count]
        /\ stale' = [stale EXCEPT ![j] = FALSE]
    BY <1>1 DEF SaveIfStatus
  <2>2. status \in [Jobs -> Statuses \cup {"ABSENT"}] /\ attempts \in [Jobs -> Nat]
    BY DEF TypeOK
  <2>3. stale' \in [Jobs -> BOOLEAN]
    BY <2>1, Zenon DEF TypeOK
  <2> QED  BY <1>1, <2>1, <2>2, <2>3
<1>2. CASE status[j] # expected
  <2>1. status' = status /\ attempts' = attempts /\ stale' = stale
    BY <1>2 DEF SaveIfStatus, rows
  <2> QED  BY <1>2, <2>1 DEF TypeOK
<1> QED  BY <1>1, <1>2

\* What a call is told to the queue as: it leaves the job of the call to one of
\* the statuses in which nobody works on it, and to one in which it may be
\* called again only if no answer came or a managed adapter lost the call.
LEMMA SettledCall ==
  ASSUME TypeOK, JobsAssumption, NEW w \in Workers, pc[w] = "calling",
         NEW outcome \in Outcomes, SettleCall(w, outcome)
  PROVE  /\ status' \in [Jobs -> Statuses \cup {"ABSENT"}]
         /\ attempts' \in [Jobs -> Nat]
         /\ stale' \in [Jobs -> BOOLEAN]
         /\ \A k \in Jobs \ {held[w]} : status'[k] = status[k]
         /\ status[held[w]] # "RUNNING" => status'[held[w]] = status[held[w]]
         /\ status[held[w]] = "RUNNING" =>
              /\ status'[held[w]] \in {"RETRY_PENDING", "FAILED", "BLOCKED_CREDENTIAL",
                                       "BLOCKED_RECOVERY"}
              /\ outcome \in Answered \ {"lost"} =>
                   status'[held[w]] \in {"FAILED", "BLOCKED_RECOVERY"}
<1>1. held[w] \in Jobs /\ read[w] \in Nat /\ read[w] + 1 \in Nat
  BY DEF TypeOK
<1>2. CASE outcome = "credential"
  <2>1. SaveIfStatus(held[w], "RUNNING", "BLOCKED_CREDENTIAL", read[w])
    BY <1>2 DEF SettleCall
  <2> QED  BY <1>1, <1>2, <2>1, SaveType DEF Statuses, Answered
<1>3. CASE outcome = "uncertain"
  <2>1. SaveIfStatus(held[w], "RUNNING", "BLOCKED_RECOVERY", read[w])
    BY <1>3 DEF SettleCall
  <2> QED  BY <1>1, <1>3, <2>1, SaveType DEF Statuses
<1>4. CASE outcome \notin {"credential", "uncertain"}
  <2> DEFINE next == IF outcome \in {"retryable", "lost"} /\ read[w] + 1 < MaxAttempts
                     THEN "RETRY_PENDING" ELSE "FAILED"
  <2>1. SaveIfStatus(held[w], "RUNNING", next, read[w] + 1)
    BY <1>4 DEF SettleCall, FailJob
  <2>2. next \in Statuses /\ next \in {"RETRY_PENDING", "FAILED"}
    BY DEF Statuses
  <2>3. outcome \in Answered \ {"lost"} => next = "FAILED"
    BY DEF Answered
  <2> HIDE DEF next
  <2>4. /\ status' \in [Jobs -> Statuses \cup {"ABSENT"}]
        /\ attempts' \in [Jobs -> Nat]
        /\ stale' \in [Jobs -> BOOLEAN]
        /\ \A k \in Jobs \ {held[w]} : status'[k] = status[k]
        /\ status[held[w]] = "RUNNING" => status'[held[w]] = next
        /\ status[held[w]] # "RUNNING" => status'[held[w]] = status[held[w]]
    BY <1>1, <2>1, <2>2, SaveType
  <2> QED  BY <1>4, <2>2, <2>3, <2>4
<1> QED  BY <1>2, <1>3, <1>4

\* The recovery command moves a row, if at all, from a status in which its
\* worker has not called yet to the queue, or from RUNNING to the quarantine.
LEMMA RecoveredRow ==
  ASSUME TypeOK, RecoverNext
  PROVE  /\ status' \in [Jobs -> Statuses \cup {"ABSENT"}]
         /\ attempts' \in [Jobs -> Nat]
         /\ stale' \in [Jobs -> BOOLEAN]
         /\ \A j \in Jobs :
              \/ status'[j] = status[j]
              \/ /\ status[j] \in {"RETRY_PENDING", "BLOCKED_CREDENTIAL", "CLAIMED"}
                 /\ status'[j] = "QUEUED"
              \/ status[j] = "RUNNING" /\ status'[j] = "BLOCKED_RECOVERY"
<1> DEFINE row == Head(scan)
           next == Recovered(row, flags)
<1>1. row \in Rows
  BY DEF TypeOK, RecoverNext
<1>2. row.job \in Jobs /\ row.status \in Statuses /\ row.attempts \in Nat
  BY <1>1 DEF Rows
<1>3. \/ next = row.status
      \/ /\ row.status \in {"RETRY_PENDING", "BLOCKED_CREDENTIAL", "CLAIMED"}
         /\ next = "QUEUED"
      \/ row.status = "RUNNING" /\ next = "BLOCKED_RECOVERY"
  BY DEF TypeOK, Recovered
<1>4. next \in Statuses
  BY <1>2, <1>3 DEF Statuses
<1>5. \/ UNCHANGED rows
      \/ next # row.status /\ SaveIfStatus(row.job, row.status, next, row.attempts)
  BY DEF RecoverNext
<1> HIDE DEF row, next
<1>6. CASE UNCHANGED rows
  BY <1>6 DEF rows, TypeOK
<1>7. CASE next # row.status /\ SaveIfStatus(row.job, row.status, next, row.attempts)
  <2>1. /\ status' \in [Jobs -> Statuses \cup {"ABSENT"}]
        /\ attempts' \in [Jobs -> Nat]
        /\ stale' \in [Jobs -> BOOLEAN]
        /\ \A k \in Jobs \ {row.job} : status'[k] = status[k]
        /\ status[row.job] = row.status => status'[row.job] = next
        /\ status[row.job] # row.status => status'[row.job] = status[row.job]
    BY <1>2, <1>4, <1>7, SaveType
  <2> QED  BY <1>3, <1>7, <2>1
<1> QED  BY <1>5, <1>6, <1>7

\* A flag that is set for one job is set for it and as before for the others.
LEMMA OrAt ==
  ASSUME NEW f \in [Jobs -> BOOLEAN], NEW j \in Jobs, NEW b \in BOOLEAN,
         NEW g, g = [f EXCEPT ![j] = @ \/ b]
  PROVE  /\ g[j] <=> f[j] \/ b
         /\ \A k \in Jobs \ {j} : g[k] <=> f[k]
BY Zenon

\* A count that is raised for one job is raised for it and as before for the others.
LEMMA CountAt ==
  ASSUME NEW f \in [Jobs -> Nat], NEW j \in Jobs, NEW b \in BOOLEAN,
         NEW g, g = IF b THEN [f EXCEPT ![j] = @ + 1] ELSE f
  PROVE  /\ g \in [Jobs -> Nat]
         /\ g[j] = IF b THEN f[j] + 1 ELSE f[j]
         /\ \A k \in Jobs \ {j} : g[k] = f[k]
OBVIOUS

-----------------------------------------------------------------------------
(* Types. *)

\* What an action must keep of the rows, of the workers and of the evidence.
RowsTyped ==
  /\ status \in [Jobs -> Statuses \cup {"ABSENT"}]
  /\ attempts \in [Jobs -> Nat]
  /\ stale \in [Jobs -> BOOLEAN]

WorkersTyped ==
  /\ pc \in [Workers -> {"idle", "claimed", "calling", "storing"}]
  /\ held \in [Workers -> Jobs \cup {None}]
  /\ \A w \in Workers : pc[w] # "idle" => held[w] \in Jobs
  /\ read \in [Workers -> Nat]

RestTyped ==
  /\ queue \in Seq(Jobs)
  /\ scan \in Seq(Rows)
  /\ flags \subseteq {"RETRY_PENDING", "BLOCKED_CREDENTIAL"}
  /\ delivered \in [Jobs -> Nat]
  /\ lost \in [Jobs -> Nat]
  /\ stored \in [Jobs -> BOOLEAN]
  /\ crashes \in 0 .. MaxCrashes

LEMMA TypeParts == TypeOK <=> RowsTyped /\ WorkersTyped /\ RestTyped
BY DEF TypeOK, RowsTyped, WorkersTyped, RestTyped

LEMMA SameRows == RowsTyped /\ UNCHANGED rows => RowsTyped'
BY DEF RowsTyped, rows

LEMMA SameWorkers == WorkersTyped /\ UNCHANGED worker => WorkersTyped'
BY DEF WorkersTyped, worker

LEMMA ReleasedTyped ==
  ASSUME TypeOK, NEW w \in Workers, Release(w)
  PROVE  WorkersTyped'
BY DEF TypeOK, Release, WorkersTyped

LEMMA SavedTyped ==
  ASSUME TypeOK, NEW j \in Jobs, NEW expected, NEW next \in Statuses, NEW count \in Nat,
         SaveIfStatus(j, expected, next, count)
  PROVE  RowsTyped'
BY SaveType DEF RowsTyped

LEMMA SameRest ==
  RestTyped /\ UNCHANGED <<queue, recovery, evidence, crashes>> => RestTyped'
BY DEF RestTyped, recovery, evidence

\* Every action keeps the types.
LEMMA TypeStep == ASSUME TypeOK, QueueHasRows, [Next]_vars PROVE TypeOK'
<1> USE JobsAssumption
<1>0. RowsTyped /\ WorkersTyped /\ RestTyped
  BY TypeParts
<1>1. ASSUME NEW j \in Jobs, Put(j)
      PROVE  RowsTyped' /\ WorkersTyped' /\ RestTyped'
  <2>1. RowsTyped'  BY <1>0, <1>1 DEF RowsTyped, Put, Statuses
  <2>2. WorkersTyped'  BY <1>0, <1>1, SameWorkers DEF Put
  <2>3. RestTyped'  BY <1>0, <1>1 DEF RestTyped, Put, recovery, evidence
  <2> QED  BY <2>1, <2>2, <2>3
<1>2. ASSUME NEW j \in Jobs, GrowStale(j)
      PROVE  RowsTyped' /\ WorkersTyped' /\ RestTyped'
  <2>1. stale' \in [Jobs -> BOOLEAN]  BY <1>0, <1>2, Zenon DEF RowsTyped, GrowStale
  <2>2. RowsTyped'  BY <1>0, <1>2, <2>1 DEF RowsTyped, GrowStale
  <2> QED  BY <1>0, <1>2, <2>2, SameWorkers, SameRest DEF GrowStale
<1>3. ASSUME NEW w \in Workers, ClaimNext(w)
      PROVE  RowsTyped' /\ WorkersTyped' /\ RestTyped'
  <2>1. PICK i \in DOMAIN queue :
              /\ status' = [status EXCEPT ![queue[i]] = "CLAIMED"]
              /\ stale' = [stale EXCEPT ![queue[i]] = FALSE]
              /\ held' = [held EXCEPT ![w] = queue[i]]
              /\ read' = [read EXCEPT ![w] = attempts[queue[i]]]
    BY <1>3 DEF ClaimNext
  <2>2. queue[i] \in Jobs  BY <1>0, <2>1 DEF RestTyped
  <2>3. stale' \in [Jobs -> BOOLEAN]  BY <1>0, <2>1, Zenon DEF RowsTyped
  <2>4. RowsTyped'
    BY <1>0, <1>3, <2>1, <2>3 DEF RowsTyped, ClaimNext, Statuses
  <2>5. WorkersTyped'
    BY <1>0, <1>3, <2>1, <2>2 DEF WorkersTyped, RowsTyped, ClaimNext
  <2> QED  BY <1>0, <1>3, <2>4, <2>5, SameRest DEF ClaimNext
<1>4. ASSUME NEW w \in Workers, BlockGrounded(w)
      PROVE  RowsTyped' /\ WorkersTyped' /\ RestTyped'
  <2>1. held[w] \in Jobs /\ read[w] \in Nat  BY <1>0, <1>4 DEF WorkersTyped, BlockGrounded
  <2>2. RowsTyped'  BY <1>4, <2>1, SavedTyped DEF BlockGrounded, Statuses
  <2> QED  BY <1>0, <1>4, <2>2, ReleasedTyped, SameRest DEF BlockGrounded
<1>5. ASSUME NEW w \in Workers, MarkRunning(w)
      PROVE  RowsTyped' /\ WorkersTyped' /\ RestTyped'
  <2>1. held[w] \in Jobs /\ read[w] \in Nat  BY <1>0, <1>5 DEF WorkersTyped, MarkRunning
  <2>2. RowsTyped'  BY <1>5, <2>1, SavedTyped DEF MarkRunning, Statuses
  <2>3. WorkersTyped'
    <3>1. CASE Release(w)  BY <3>1, ReleasedTyped
    <3>2. CASE pc' = [pc EXCEPT ![w] = "calling"] /\ UNCHANGED <<held, read>>
      BY <1>0, <2>1, <3>2 DEF WorkersTyped
    <3> QED  BY <1>5, <3>1, <3>2 DEF MarkRunning
  <2> QED  BY <1>0, <1>5, <2>2, <2>3, SameRest DEF MarkRunning
<1>6. ASSUME NEW w \in Workers, NEW outcome \in Outcomes, CallEnds(w, outcome)
      PROVE  RowsTyped' /\ WorkersTyped' /\ RestTyped'
  <2>1. held[w] \in Jobs /\ pc[w] = "calling"  BY <1>0, <1>6 DEF WorkersTyped, CallEnds
  <2>2. delivered' \in [Jobs -> Nat] /\ lost' \in [Jobs -> Nat]
    BY <1>0, <1>6, <2>1, CountAt DEF RestTyped, CallEnds
  <2>3. RestTyped'  BY <1>0, <1>6, <2>2 DEF CallEnds, RestTyped, recovery
  <2>4. CASE outcome = "acquired"
    <3>1. UNCHANGED rows /\ UNCHANGED <<held, read>> /\ pc' = [pc EXCEPT ![w] = "storing"]
      BY <1>6, <2>4 DEF CallEnds
    <3>2. WorkersTyped'  BY <1>0, <2>1, <3>1 DEF WorkersTyped
    <3> QED  BY <1>0, <2>3, <3>1, <3>2, SameRows
  <2>5. CASE outcome # "acquired"
    <3>1. SettleCall(w, outcome) /\ Release(w)  BY <1>6, <2>5 DEF CallEnds
    <3>2. RowsTyped'  BY <2>1, <3>1, SettledCall DEF RowsTyped
    <3> QED  BY <2>3, <3>1, <3>2, ReleasedTyped
  <2> QED  BY <2>4, <2>5
<1>7. ASSUME NEW w \in Workers, NEW end \in SinkEnds, SinkEnd(w, end)
      PROVE  RowsTyped' /\ WorkersTyped' /\ RestTyped'
  <2>1. held[w] \in Jobs /\ read[w] \in Nat  BY <1>0, <1>7 DEF WorkersTyped, SinkEnd
  <2>2. stored' \in [Jobs -> BOOLEAN]
    <3>1. stored' = [stored EXCEPT ![held[w]] = @ \/ end # "failed"]  BY <1>7 DEF SinkEnd
    <3> QED  BY <1>0, <2>1, <3>1, Zenon DEF RestTyped
  <2>3. RestTyped'  BY <1>0, <1>7, <2>2 DEF SinkEnd, RestTyped, recovery
  <2>4. RowsTyped'
    <3> DEFINE next == IF end = "stored" THEN "SUCCEEDED" ELSE "BLOCKED_RECOVERY"
    <3>1. SaveIfStatus(held[w], "RUNNING", next, read[w]) /\ next \in Statuses
      BY <1>7 DEF SinkEnd, Statuses
    <3> HIDE DEF next
    <3> QED  BY <2>1, <3>1, SavedTyped
  <2> QED  BY <1>7, <2>3, <2>4, ReleasedTyped DEF SinkEnd
<1>8. ASSUME NEW requeued \in SUBSET {"RETRY_PENDING", "BLOCKED_CREDENTIAL"},
             StartRecovery(requeued)
      PROVE  RowsTyped' /\ WorkersTyped' /\ RestTyped'
  <2>1. \A i \in 1 .. Len(queue) :
          [job |-> queue[i], status |-> status[queue[i]],
           attempts |-> attempts[queue[i]], stale |-> stale[queue[i]]] \in Rows
    <3> TAKE i \in 1 .. Len(queue)
    <3>1. queue[i] \in Jobs /\ status[queue[i]] # "ABSENT"
      BY <1>0 DEF RestTyped, QueueHasRows
    <3>2. stale[queue[i]] \in BOOLEAN  BY <1>0, <3>1 DEF RowsTyped
    <3> QED  BY <1>0, <3>1, <3>2 DEF RowsTyped, Rows
  <2>2. scan' \in Seq(Rows)
    <3>1. Len(queue) \in Nat  BY <1>0 DEF RestTyped
    <3>2. scan' \in [1 .. Len(queue) -> Rows]  BY <1>8, <2>1 DEF StartRecovery
    <3> QED  BY <3>1, <3>2
  <2>3. RestTyped'  BY <1>0, <1>8, <2>2 DEF RestTyped, StartRecovery, evidence
  <2> QED  BY <1>0, <1>8, <2>3, SameRows, SameWorkers DEF StartRecovery
<1>9. ASSUME RecoverNext
      PROVE  RowsTyped' /\ WorkersTyped' /\ RestTyped'
  <2>1. RowsTyped'  BY <1>9, RecoveredRow DEF RowsTyped
  <2>2. RestTyped'
    <3>1. scan \in Seq(Rows) /\ scan # <<>> /\ scan' = Tail(scan)
      BY <1>0, <1>9 DEF RestTyped, RecoverNext
    <3>2. scan' \in Seq(Rows)  BY <3>1
    <3>3. flags' \subseteq {"RETRY_PENDING", "BLOCKED_CREDENTIAL"}
      BY <1>0, <1>9 DEF RestTyped, RecoverNext
    <3> QED  BY <1>0, <1>9, <3>2, <3>3 DEF RestTyped, RecoverNext, evidence
  <2> QED  BY <1>0, <1>9, <2>1, <2>2, SameWorkers DEF RecoverNext
<1>10. ASSUME NEW w \in Workers, Crash(w)
      PROVE  RowsTyped' /\ WorkersTyped' /\ RestTyped'
  <2>1. delivered' \in [Jobs -> Nat]
    BY <1>0, <1>10, CountAt DEF Crash, RestTyped, WorkersTyped
  <2>2. crashes' \in 0 .. MaxCrashes  BY <1>0, <1>10 DEF Crash, RestTyped, JobsAssumption
  <2>3. RestTyped'  BY <1>0, <1>10, <2>1, <2>2 DEF RestTyped, Crash, recovery
  <2> QED  BY <1>0, <1>10, <2>3, SameRows, ReleasedTyped DEF Crash
<1>11. ASSUME CrashRecovery
      PROVE  RowsTyped' /\ WorkersTyped' /\ RestTyped'
  <2>1. crashes' \in 0 .. MaxCrashes
    BY <1>0, <1>11 DEF CrashRecovery, RestTyped, JobsAssumption
  <2>2. RestTyped'  BY <1>0, <1>11, <2>1 DEF RestTyped, CrashRecovery, evidence
  <2> QED  BY <1>0, <1>11, <2>2, SameRows, SameWorkers DEF CrashRecovery
<1>12. ASSUME UNCHANGED vars PROVE RowsTyped' /\ WorkersTyped' /\ RestTyped'
  <2>1. UNCHANGED rows /\ UNCHANGED worker /\ UNCHANGED <<queue, recovery, evidence, crashes>>
    BY <1>12 DEF vars
  <2> QED  BY <1>0, <2>1, SameRows, SameWorkers, SameRest
<1>13. ASSUME Next PROVE RowsTyped' /\ WorkersTyped' /\ RestTyped'
  BY <1>1, <1>2, <1>3, <1>4, <1>5, <1>6, <1>7, <1>8, <1>9, <1>10, <1>11, <1>13
     DEF Next, Enqueue, EnqueueGrounded
<1>14. RowsTyped' /\ WorkersTyped' /\ RestTyped' => TypeOK'
  BY DEF TypeOK, RowsTyped, WorkersTyped, RestTyped
<1> QED  BY <1>12, <1>13, <1>14

-----------------------------------------------------------------------------
(* The state machine of a row. *)

\* No step, of whichever process, moves a row otherwise than Moves says.
LEMMA MoveStep == ASSUME TypeOK, [Next]_vars PROVE RowsMove
<1> USE JobsAssumption
<1>0. RowsTyped /\ WorkersTyped /\ RestTyped
  BY TypeParts
<1>1. ASSUME NEW j \in Jobs, Put(j) PROVE RowsMove
  BY <1>0, <1>1 DEF Put, RowsMove, Moves, RowsTyped
<1>2. ASSUME UNCHANGED status PROVE RowsMove
  BY <1>2 DEF RowsMove
<1>3. ASSUME NEW w \in Workers, ClaimNext(w) PROVE RowsMove
  <2>1. PICK i \in DOMAIN queue :
              /\ status[queue[i]] = "QUEUED"
              /\ status' = [status EXCEPT ![queue[i]] = "CLAIMED"]
    BY <1>3 DEF ClaimNext
  <2> QED  BY <1>0, <2>1 DEF RowsMove, Moves, RowsTyped
<1>4. ASSUME NEW w \in Workers, BlockGrounded(w) PROVE RowsMove
  <2>1. held[w] \in Jobs /\ read[w] \in Nat  BY <1>0, <1>4 DEF WorkersTyped, BlockGrounded
  <2>2. SaveIfStatus(held[w], "CLAIMED", "BLOCKED_EXECUTION", read[w])
    BY <1>4 DEF BlockGrounded
  <2>3. /\ \A k \in Jobs \ {held[w]} : status'[k] = status[k]
        /\ status[held[w]] = "CLAIMED" => status'[held[w]] = "BLOCKED_EXECUTION"
        /\ status[held[w]] # "CLAIMED" => status'[held[w]] = status[held[w]]
    BY <2>1, <2>2, SaveType DEF Statuses
  <2> QED  BY <2>3 DEF RowsMove, Moves
<1>5. ASSUME NEW w \in Workers, MarkRunning(w) PROVE RowsMove
  <2>1. held[w] \in Jobs /\ read[w] \in Nat  BY <1>0, <1>5 DEF WorkersTyped, MarkRunning
  <2>2. SaveIfStatus(held[w], "CLAIMED", "RUNNING", read[w])
    BY <1>5 DEF MarkRunning
  <2>3. /\ \A k \in Jobs \ {held[w]} : status'[k] = status[k]
        /\ status[held[w]] = "CLAIMED" => status'[held[w]] = "RUNNING"
        /\ status[held[w]] # "CLAIMED" => status'[held[w]] = status[held[w]]
    BY <2>1, <2>2, SaveType DEF Statuses
  <2> QED  BY <2>3 DEF RowsMove, Moves
<1>6. ASSUME NEW w \in Workers, NEW outcome \in Outcomes, CallEnds(w, outcome)
      PROVE  RowsMove
  <2>1. CASE outcome = "acquired"
    BY <1>2, <1>6, <2>1 DEF CallEnds, rows
  <2>2. CASE outcome # "acquired"
    <3>1. pc[w] = "calling" /\ SettleCall(w, outcome)  BY <1>6, <2>2 DEF CallEnds
    <3> QED  BY <3>1, SettledCall DEF RowsMove, Moves
  <2> QED  BY <2>1, <2>2
<1>7. ASSUME NEW w \in Workers, NEW end \in SinkEnds, SinkEnd(w, end)
      PROVE  RowsMove
  <2>1. held[w] \in Jobs /\ read[w] \in Nat  BY <1>0, <1>7 DEF WorkersTyped, SinkEnd
  <2>2. CASE end = "stored"
    <3>1. SaveIfStatus(held[w], "RUNNING", "SUCCEEDED", read[w])  BY <1>7, <2>2 DEF SinkEnd
    <3>2. /\ \A k \in Jobs \ {held[w]} : status'[k] = status[k]
          /\ status[held[w]] = "RUNNING" => status'[held[w]] = "SUCCEEDED"
          /\ status[held[w]] # "RUNNING" => status'[held[w]] = status[held[w]]
      BY <2>1, <3>1, SaveType DEF Statuses
    <3> QED  BY <3>2 DEF RowsMove, Moves
  <2>3. CASE end # "stored"
    <3>1. SaveIfStatus(held[w], "RUNNING", "BLOCKED_RECOVERY", read[w])
      BY <1>7, <2>3 DEF SinkEnd
    <3>2. /\ \A k \in Jobs \ {held[w]} : status'[k] = status[k]
          /\ status[held[w]] = "RUNNING" => status'[held[w]] = "BLOCKED_RECOVERY"
          /\ status[held[w]] # "RUNNING" => status'[held[w]] = status[held[w]]
      BY <2>1, <3>1, SaveType DEF Statuses
    <3> QED  BY <3>2 DEF RowsMove, Moves
  <2> QED  BY <2>2, <2>3
<1>8. ASSUME RecoverNext PROVE RowsMove
  BY <1>8, RecoveredRow DEF RowsMove, Moves
<1> QED
  BY <1>1, <1>2, <1>3, <1>4, <1>5, <1>6, <1>7, <1>8
     DEF Next, Enqueue, EnqueueGrounded, GrowStale, StartRecovery, Crash, CrashRecovery,
         vars, rows

LEMMA QueueStep == ASSUME TypeOK, QueueHasRows, [Next]_vars PROVE QueueHasRows'
<1>1. \A j \in Jobs : status[j] # "ABSENT" => status'[j] # "ABSENT"
  BY MoveStep DEF RowsMove, Moves
<1>2. ASSUME NEW j \in Jobs, Put(j) PROVE QueueHasRows'
  <2>1. queue' = Append(queue, j) /\ status'[j] = "QUEUED"  BY <1>2 DEF Put, TypeOK
  <2> QED  BY <1>1, <2>1 DEF QueueHasRows, TypeOK
<1>3. ASSUME UNCHANGED queue PROVE QueueHasRows'
  BY <1>1, <1>3 DEF QueueHasRows, TypeOK
<1> QED
  BY <1>2, <1>3
     DEF Next, Enqueue, EnqueueGrounded, GrowStale, ClaimNext, BlockGrounded, MarkRunning,
         CallEnds, SinkEnd, StartRecovery, RecoverNext, Crash, CrashRecovery, vars

-----------------------------------------------------------------------------
(* The inductive invariant. *)

\* Initially nothing is enqueued and nobody works.
LEMMA InvInit == Init => Inv
<1> SUFFICES ASSUME Init PROVE Inv
  OBVIOUS
<1> USE JobsAssumption
<1>1. TypeOK  BY DEF Init, TypeOK
<1>2. QueueHasRows  BY DEF Init, QueueHasRows
<1>3. Each  BY DEF Init, Each, JobInv, Settled, WorkerInv, Busy
<1> QED  BY <1>1, <1>2, <1>3 DEF Inv

\* The invariant implies the property.
LEMMA InvIsEnough == Inv => CallsAccounted
BY DEF Inv, Each, JobInv, WorkerInv, Settled, TypeOK, CallsAccounted, OneCallAtATime,
       RepeatedOnlyIfLost, EvidenceSettles, Busy

\* A step in which no worker begins, a job that somebody works on keeps running
\* or is quarantined, and the evidence stays, keeps the invariant.
LEMMA QuietStep ==
  ASSUME Inv, TypeOK', RowsMove, UNCHANGED <<delivered, lost, stored>>,
         \A j \in Jobs : status[j] = "RUNNING" => status'[j] \in {"RUNNING", "BLOCKED_RECOVERY"},
         \A w \in Workers : pc'[w] \in {"calling", "storing"} =>
                              pc'[w] = pc[w] /\ held'[w] = held[w]
  PROVE  Each'
<1>1. \A j \in Jobs : JobInv(j)'
  BY DEF Inv, Each, JobInv, Settled, RowsMove, Moves
<1>2. ASSUME NEW w \in Workers, Busy(w)'
      PROVE  /\ (held[w] \notin Grounded)'
             /\ (status[held[w]] \in {"RUNNING", "BLOCKED_RECOVERY"})'
             /\ (pc[w] = "calling" => ~Settled(held[w]))'
             /\ (pc[w] = "storing" => Settled(held[w]))'
             /\ (\A v \in Workers : Busy(v) /\ held[v] = held[w] => v = w)'
  <2>1. Busy(w) /\ held[w] \in Jobs /\ pc'[w] = pc[w] /\ held'[w] = held[w]
    BY <1>2 DEF Busy, Inv, TypeOK
  <2>2. WorkerInv(w)  BY DEF Inv, Each
  <2>3. status'[held[w]] \in {"RUNNING", "BLOCKED_RECOVERY"}
    BY <2>1, <2>2 DEF WorkerInv, RowsMove, Moves
  <2>4. \A v \in Workers : Busy(v)' => Busy(v) /\ held'[v] = held[v]
    BY DEF Busy
  <2> QED  BY <2>1, <2>2, <2>3, <2>4 DEF WorkerInv, Settled
<1>3. \A w \in Workers : WorkerInv(w)'
  BY <1>2 DEF WorkerInv
<1> QED  BY <1>1, <1>3 DEF Each

\* A worker lets go of its job, whose row and evidence change with it; nobody
\* else is at that job.
LEMMA ReleaseStep ==
  ASSUME Inv, TypeOK', NEW w \in Workers, Busy(w), Release(w),
         NEW j \in Jobs, j = held[w], JobInv(j)',
         \A k \in Jobs \ {j} : /\ status'[k] = status[k]
                               /\ delivered'[k] = delivered[k] /\ lost'[k] = lost[k]
                               /\ stored'[k] <=> stored[k]
  PROVE  Each'
<1>1. \A k \in Jobs : JobInv(k)'
  BY DEF Inv, Each, JobInv, Settled
<1>2. ASSUME NEW v \in Workers, Busy(v)'
      PROVE  WorkerInv(v)'
  <2>1. /\ v # w /\ Busy(v) /\ pc'[v] = pc[v] /\ held'[v] = held[v]
        /\ \A u \in Workers : Busy(u)' => Busy(u) /\ held'[u] = held[u]
    BY <1>2, ReleaseType DEF Busy, Inv
  <2>2. WorkerInv(v) /\ WorkerInv(w)  BY DEF Inv, Each
  <2>3. held[v] \in Jobs \ {j}
    BY <2>1, <2>2 DEF WorkerInv, Inv, TypeOK, Busy
  <2> QED  BY <2>1, <2>2, <2>3 DEF WorkerInv, Settled
<1>3. \A v \in Workers : WorkerInv(v)'
  BY <1>2 DEF WorkerInv
<1> QED  BY <1>1, <1>3 DEF Each

\* The inductive invariant is kept by every step of every process.
LEMMA InvStep == ASSUME Inv, [Next]_vars PROVE Inv'
<1> USE JobsAssumption
<1>0. TypeOK /\ QueueHasRows /\ Each /\ TypeOK' /\ QueueHasRows' /\ RowsMove
  BY TypeStep, QueueStep, MoveStep DEF Inv
<1>1. ASSUME NEW j \in Jobs, Put(j) \/ GrowStale(j) PROVE Each'
  <2>1. UNCHANGED <<delivered, lost, stored, pc, held>>
    BY <1>1 DEF Put, GrowStale, evidence, worker
  <2>2. \A k \in Jobs : status[k] = "RUNNING" => status'[k] = "RUNNING"
    BY <1>0, <1>1 DEF Put, GrowStale, TypeOK
  <2> QED  BY <1>0, <2>1, <2>2, QuietStep
<1>2. ASSUME NEW w \in Workers, ClaimNext(w) PROVE Each'
  <2>1. PICK i \in DOMAIN queue :
              /\ status[queue[i]] = "QUEUED"
              /\ status' = [status EXCEPT ![queue[i]] = "CLAIMED"]
    BY <1>2 DEF ClaimNext
  <2>2. \A k \in Jobs : status[k] = "RUNNING" => status'[k] = "RUNNING"
    BY <1>0, <2>1 DEF TypeOK
  <2>3. UNCHANGED <<delivered, lost, stored>>
    BY <1>2 DEF ClaimNext, evidence
  <2>4. \A v \in Workers : pc'[v] \in {"calling", "storing"} =>
                               pc'[v] = pc[v] /\ held'[v] = held[v]
    BY <1>0, <1>2 DEF ClaimNext, TypeOK
  <2> QED  BY <1>0, <2>2, <2>3, <2>4, QuietStep
<1>3. ASSUME NEW w \in Workers, BlockGrounded(w) PROVE Each'
  <2>1. held[w] \in Jobs /\ read[w] \in Nat  BY <1>0, <1>3 DEF TypeOK, BlockGrounded
  <2>2. \A k \in Jobs : status[k] = "RUNNING" => status'[k] = "RUNNING"
    <3>1. SaveIfStatus(held[w], "CLAIMED", "BLOCKED_EXECUTION", read[w])
      BY <1>3 DEF BlockGrounded
    <3> QED  BY <1>0, <2>1, <3>1, SaveType DEF Statuses
  <2>3. UNCHANGED <<delivered, lost, stored>>
    BY <1>3 DEF BlockGrounded, evidence
  <2>4. \A v \in Workers : pc'[v] \in {"calling", "storing"} =>
                               pc'[v] = pc[v] /\ held'[v] = held[v]
    BY <1>0, <1>3, ReleaseType DEF BlockGrounded
  <2> QED  BY <1>0, <2>2, <2>3, <2>4, QuietStep
<1>4. ASSUME NEW w \in Workers, MarkRunning(w), status[held[w]] # "CLAIMED" PROVE Each'
  <2>1. Release(w) /\ UNCHANGED rows  BY <1>4 DEF MarkRunning, SaveIfStatus
  <2>2. UNCHANGED <<delivered, lost, stored>> /\ UNCHANGED status
    BY <1>4, <2>1 DEF MarkRunning, evidence, rows
  <2>3. \A v \in Workers : pc'[v] \in {"calling", "storing"} =>
                               pc'[v] = pc[v] /\ held'[v] = held[v]
    BY <1>0, <2>1, ReleaseType
  <2> QED  BY <1>0, <2>2, <2>3, QuietStep
<1>5. ASSUME NEW w \in Workers, MarkRunning(w), status[held[w]] = "CLAIMED" PROVE Each'
  <2> DEFINE j == held[w]
  <2>1. /\ j \in Jobs \ Grounded /\ ~Busy(w)
        /\ status[j] = "CLAIMED" /\ status' = [status EXCEPT ![j] = "RUNNING"]
        /\ pc' = [pc EXCEPT ![w] = "calling"]
        /\ UNCHANGED <<held, delivered, lost, stored>>
    BY <1>0, <1>5 DEF MarkRunning, SaveIfStatus, TypeOK, Busy, evidence
  <2> HIDE DEF j
  <2>2. ~Settled(j) /\ ~stored[j]
    BY <1>0, <2>1 DEF Each, JobInv
  <2>3. \A v \in Workers : Busy(v) => held[v] \in Jobs \ {j}
    BY <1>0, <2>1 DEF Each, WorkerInv, TypeOK, Busy
  <2>4. /\ \A k \in Jobs \ {j} : status'[k] = status[k]
        /\ status'[j] = "RUNNING"
        /\ pc'[w] = "calling" /\ \A v \in Workers \ {w} : pc'[v] = pc[v]
    BY <1>0, <2>1 DEF TypeOK
  <2>5. \A k \in Jobs : JobInv(k)'
    BY <1>0, <2>1, <2>2, <2>4 DEF Each, JobInv, Settled
  <2>6. held[w] = j  BY DEF j
  <2>7. ASSUME NEW v \in Workers, Busy(v)' PROVE WorkerInv(v)'
    <3>1. CASE v = w
      BY <2>1, <2>2, <2>3, <2>4, <2>6, <3>1 DEF WorkerInv, Settled, Busy
    <3>2. CASE v # w
      <4>1. Busy(v) /\ held[v] \in Jobs \ {j} /\ pc'[v] = pc[v]
        BY <2>3, <2>4, <2>7, <3>2 DEF Busy
      <4>2. WorkerInv(v)  BY <1>0 DEF Each
      <4> QED  BY <2>1, <2>4, <2>6, <4>1, <4>2 DEF WorkerInv, Settled, Busy
    <3> QED  BY <3>1, <3>2
  <2> QED  BY <2>5, <2>7 DEF Each, WorkerInv
<1>6. ASSUME NEW w \in Workers, CallEnds(w, "acquired") PROVE Each'
  <2> DEFINE j == held[w]
  <2>1. /\ j \in Jobs /\ Busy(w) /\ pc[w] = "calling"
        /\ pc' = [pc EXCEPT ![w] = "storing"]
        /\ delivered' = [delivered EXCEPT ![j] = @ + 1]
        /\ UNCHANGED <<held, lost, stored, status>>
    BY <1>0, <1>6 DEF CallEnds, Answered, TypeOK, Busy, rows
  <2>2. /\ delivered'[j] = delivered[j] + 1
        /\ \A k \in Jobs \ {j} : delivered'[k] = delivered[k]
    BY <1>0, <2>1 DEF TypeOK
  <2> HIDE DEF j
  <2>3. held[w] = j  BY DEF j
  <2>4. WorkerInv(w)  BY <1>0 DEF Each
  <2>5. \A k \in Jobs : JobInv(k)'
    BY <1>0, <2>1, <2>2, <2>3, <2>4 DEF Each, JobInv, Settled, WorkerInv
  <2>6. \A v \in Workers : (Busy(v)' <=> Busy(v)) /\ (v # w => pc'[v] = pc[v])
    BY <1>0, <2>1 DEF TypeOK, Busy
  <2>7. ASSUME NEW v \in Workers, Busy(v)' PROVE WorkerInv(v)'
    <3>1. CASE v = w
      <4>1. pc'[w] = "storing"  BY <1>0, <2>1 DEF TypeOK
      <4> QED  BY <1>0, <2>1, <2>2, <2>3, <2>4, <2>6, <3>1, <4>1 DEF WorkerInv, Settled, Each, JobInv
    <3>2. CASE v # w
      <4>1. WorkerInv(v) /\ Busy(v)  BY <1>0, <2>6, <2>7 DEF Each
      <4>2. held[v] \in Jobs \ {j}
        BY <1>0, <2>1, <2>3, <2>4, <3>2, <4>1 DEF WorkerInv, TypeOK, Busy
      <4> QED  BY <2>1, <2>2, <2>6, <3>2, <4>1, <4>2 DEF WorkerInv, Settled
    <3> QED  BY <3>1, <3>2
  <2> QED  BY <2>5, <2>7 DEF Each, WorkerInv
<1>7. ASSUME NEW w \in Workers, NEW outcome \in Outcomes, outcome # "acquired",
             CallEnds(w, outcome)
      PROVE  Each'
  <2>0. PICK j \in Jobs : j = held[w]
    BY <1>0, <1>7 DEF CallEnds, TypeOK
  <2>1. /\ Busy(w) /\ pc[w] = "calling" /\ Release(w)
        /\ SettleCall(w, outcome)
        /\ delivered' = IF outcome \in Answered
                        THEN [delivered EXCEPT ![j] = @ + 1] ELSE delivered
        /\ lost' = IF outcome = "lost" THEN [lost EXCEPT ![j] = @ + 1] ELSE lost
        /\ outcome = "lost" => j \in Managed
        /\ UNCHANGED stored
    BY <1>0, <1>7, <2>0 DEF CallEnds, TypeOK, Busy
  <2>2. /\ delivered'[j] = IF outcome \in Answered THEN delivered[j] + 1 ELSE delivered[j]
        /\ lost'[j] = IF outcome = "lost" THEN lost[j] + 1 ELSE lost[j]
        /\ \A k \in Jobs \ {j} : delivered'[k] = delivered[k] /\ lost'[k] = lost[k]
    BY <1>0, <2>1, CountAt DEF TypeOK
  <2>3. WorkerInv(w) /\ JobInv(j)  BY <1>0 DEF Each
  <2>4. ~Settled(j) /\ delivered[j] = lost[j] /\ ~stored[j] /\ status[j] \in {"RUNNING", "BLOCKED_RECOVERY"}
    BY <2>0, <2>1, <2>3 DEF WorkerInv, JobInv
  <2>5. /\ \A k \in Jobs \ {j} : status'[k] = status[k]
        /\ status'[j] \in {"RETRY_PENDING", "FAILED", "BLOCKED_CREDENTIAL", "BLOCKED_RECOVERY"}
        /\ outcome \in Answered \ {"lost"} =>
             status'[j] \in {"FAILED", "BLOCKED_RECOVERY"}
    BY <1>0, <2>0, <2>1, <2>4, SettledCall
  <2>6. JobInv(j)'
    <3>1. delivered[j] \in Nat /\ lost[j] \in Nat  BY <1>0 DEF TypeOK
    <3>2. outcome = "lost" => outcome \in Answered  BY DEF Answered
    <3>3. Settled(j)' => outcome \in Answered \ {"lost"}
      BY <2>2, <2>4, <3>1, <3>2 DEF Settled
    <3>4. (delivered[j] = lost[j] \/ Settled(j))'
      BY <2>2, <2>4, <3>1, <3>2 DEF Settled
    <3>5. (lost[j] > 0 => j \in Managed)'
      BY <2>1, <2>2, <2>3, <3>1 DEF JobInv
    <3>6. ~stored'[j]  BY <2>1, <2>4
    <3> QED  BY <2>5, <3>3, <3>4, <3>5, <3>6 DEF JobInv
  <2> QED  BY <1>0, <2>0, <2>1, <2>2, <2>5, <2>6, ReleaseStep
<1>8. ASSUME NEW w \in Workers, NEW end \in SinkEnds, SinkEnd(w, end) PROVE Each'
  <2>0. PICK j \in Jobs : j = held[w]
    BY <1>0, <1>8 DEF SinkEnd, TypeOK
  <2>1. /\ Busy(w) /\ pc[w] = "storing" /\ Release(w) /\ read[w] \in Nat
        /\ stored' = [stored EXCEPT ![j] = @ \/ end # "failed"]
        /\ UNCHANGED <<delivered, lost>>
    BY <1>0, <1>8, <2>0 DEF SinkEnd, TypeOK, Busy
  <2>2. /\ stored'[j] <=> stored[j] \/ end # "failed"
        /\ \A k \in Jobs \ {j} : stored'[k] <=> stored[k]
    <3>1. (end # "failed") \in BOOLEAN  OBVIOUS
    <3>2. stored \in [Jobs -> BOOLEAN]  BY <1>0 DEF TypeOK
    <3> QED  BY <2>1, <3>1, <3>2, OrAt
  <2>3. WorkerInv(w) /\ JobInv(j)  BY <1>0 DEF Each
  <2>4. Settled(j) /\ status[j] \in {"RUNNING", "BLOCKED_RECOVERY"}
    BY <2>0, <2>1, <2>3 DEF WorkerInv
  <2>5. /\ \A k \in Jobs \ {j} : status'[k] = status[k]
        /\ status'[j] \in {"SUCCEEDED", "BLOCKED_RECOVERY"}
        /\ status'[j] = "SUCCEEDED" => end = "stored"
    <3>1. CASE end = "stored"
      <4>1. SaveIfStatus(j, "RUNNING", "SUCCEEDED", read[w])  BY <1>8, <2>0, <3>1 DEF SinkEnd
      <4> QED  BY <1>0, <2>1, <2>4, <3>1, <4>1, SaveType DEF Statuses
    <3>2. CASE end # "stored"
      <4>1. SaveIfStatus(j, "RUNNING", "BLOCKED_RECOVERY", read[w])  BY <1>8, <2>0, <3>2 DEF SinkEnd
      <4> QED  BY <1>0, <2>1, <2>4, <3>2, <4>1, SaveType DEF Statuses
    <3> QED  BY <3>1, <3>2
  <2>6. JobInv(j)'
    BY <2>1, <2>2, <2>3, <2>4, <2>5 DEF JobInv, Settled
  <2> QED  BY <1>0, <2>0, <2>1, <2>2, <2>5, <2>6, ReleaseStep
<1>9. ASSUME RecoverNext PROVE Each'
  <2>1. UNCHANGED <<delivered, lost, stored, pc, held>>
    BY <1>9 DEF RecoverNext, evidence, worker
  <2>2. \A k \in Jobs : status[k] = "RUNNING" => status'[k] \in {"RUNNING", "BLOCKED_RECOVERY"}
    BY <1>0, <1>9, RecoveredRow
  <2> QED  BY <1>0, <2>1, <2>2, QuietStep
<1>10. ASSUME UNCHANGED <<status, delivered, lost, stored, pc, held>> PROVE Each'
  BY <1>0, <1>10, QuietStep
<1>11. ASSUME NEW w \in Workers, Crash(w) PROVE Each'
  <2>0. PICK j \in Jobs : j = held[w]
    BY <1>0, <1>11 DEF Crash, TypeOK
  <2>1. /\ Release(w) /\ UNCHANGED <<status, lost, stored>>
        /\ delivered' = IF pc[w] = "calling" THEN [delivered EXCEPT ![j] = @ + 1] ELSE delivered
    BY <1>0, <1>11, <2>0 DEF Crash, TypeOK, rows
  <2>2. /\ delivered'[j] = IF pc[w] = "calling" THEN delivered[j] + 1 ELSE delivered[j]
        /\ \A k \in Jobs \ {j} : delivered'[k] = delivered[k]
    BY <1>0, <2>1, CountAt DEF TypeOK
  <2>3. CASE Busy(w)
    <3>1. WorkerInv(w) /\ JobInv(j)  BY <1>0, <2>1 DEF Each
    <3>2. delivered[j] \in Nat /\ lost[j] \in Nat  BY <1>0 DEF TypeOK
    <3>3. (pc[w] = "calling" => delivered[j] = lost[j]) /\ Settled(j)'
      BY <2>0, <2>1, <2>2, <2>3, <3>1, <3>2 DEF WorkerInv, JobInv, Settled, Busy
    <3>4. JobInv(j)'
      BY <2>0, <2>1, <2>2, <2>3, <3>1, <3>3 DEF WorkerInv, JobInv, Settled
    <3> QED  BY <1>0, <2>0, <2>1, <2>2, <2>3, <3>4, ReleaseStep
  <2>4. CASE ~Busy(w)
    <3>1. UNCHANGED delivered
      BY <2>1, <2>4 DEF Busy
    <3>2. \A v \in Workers : pc'[v] \in {"calling", "storing"} =>
                                 pc'[v] = pc[v] /\ held'[v] = held[v]
      BY <1>0, <2>1, ReleaseType
    <3> QED  BY <1>0, <2>1, <3>1, <3>2, QuietStep
  <2> QED  BY <2>3, <2>4
<1>12. ASSUME \/ \E requeued \in SUBSET {"RETRY_PENDING", "BLOCKED_CREDENTIAL"} :
                    StartRecovery(requeued)
              \/ CrashRecovery
              \/ UNCHANGED vars
       PROVE  Each'
  BY <1>10, <1>12 DEF StartRecovery, CrashRecovery, vars, rows, worker, evidence
<1>13. Each'
  BY <1>1, <1>2, <1>3, <1>4, <1>5, <1>6, <1>7, <1>8, <1>9, <1>11, <1>12
     DEF Next, Enqueue, EnqueueGrounded
<1> QED  BY <1>0, <1>13 DEF Inv

-----------------------------------------------------------------------------
(* The theorems. *)

LEMMA InvAlways == Spec => []Inv
BY InvInit, InvStep, PTL DEF Spec

\* Every paid call is accounted for: one worker at a time is at the provider or the
\* sink for a job; a job whose call was or may have been answered is called again
\* only if a managed adapter reported that call as retryable (persistFailure); and
\* evidence settles its job; although every write compares the status alone
\* (saveIfStatus) and recovery writes from a list it read before
\* (recoverAdkKnowledgeJobs).
THEOREM CallsStayAccounted == Spec => []CallsAccounted
BY InvAlways, InvIsEnough, PTL

\* A job that only the direct adapters call is called once: after a call that was
\* answered, timed out or died with its worker, it is claimed by nobody again.
DirectCalledOnce ==
  \A j \in Jobs \ Managed :
    /\ delivered[j] <= 1
    /\ delivered[j] = 1 => status[j] \in {"RUNNING", "SUCCEEDED", "FAILED", "BLOCKED_RECOVERY"}

\* No job of the direct adapters is called a second time after its provider may have
\* answered (DELIVERY_UNCERTAIN_PROVIDER_ERRORS, recoverAdkKnowledgeJobs), for any
\* number of workers, retries and crashes; no assumption about Core is needed.
THEOREM DirectJobsCalledOnce == Spec => []DirectCalledOnce
<1>1. CallsAccounted => DirectCalledOnce
  BY DEF CallsAccounted, TypeOK, RepeatedOnlyIfLost, DirectCalledOnce
<1> QED  BY <1>1, CallsStayAccounted, PTL

\* No step moves a job out of the quarantine BLOCKED_RECOVERY: not recovery with
\* any flags and however old a list, not a worker that answers late.
THEOREM QuarantineStays == Spec => [][QuarantineIsFinal]_vars
<1>1. TypeOK /\ [Next]_vars => [QuarantineIsFinal]_vars
  BY MoveStep DEF RowsMove, Moves, QuarantineIsFinal
<1>2. Inv => TypeOK  BY DEF Inv
<1> QED  BY <1>1, <1>2, InvAlways, PTL DEF Spec

\* The rows follow the queue's state machine, whoever writes them.
THEOREM RowsFollowMoves == Spec => [][RowsMove]_vars
<1>1. TypeOK /\ [Next]_vars => [RowsMove]_vars
  BY MoveStep
<1>2. Inv => TypeOK  BY DEF Inv
<1> QED  BY <1>1, <1>2, InvAlways, PTL DEF Spec
=============================================================================

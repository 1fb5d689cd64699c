----------------------------- MODULE OutputsProofs -----------------------------
(***************************************************************************)
(* Theorems about the components of Outputs, for every value of their      *)
(* constants: the live pilot, foundational actions, retention and exports. *)
(* KnowledgeJobsProofs has those about the queue of AI jobs.               *)
(***************************************************************************)
EXTENDS Outputs, FiniteSetTheorems, SequenceTheorems, TLAPS

\* What the properties rest on.  A cell that is worked on is the one in flight
\* and the next of the plan, a process between two cells has none in flight, and
\* the checkpoint is a prefix of the plan; what was paid for a
\* cell, beyond the answers that were thrown away, and registered of it is what the place of the process and the checkpoint say.
PilotInPlace ==
  /\ pilotPc \in {"calling", "storing", "recording"} => inFlight = cell
      /\ cell \in Pilot!Due(durable)
  /\ pilotPc = "looping" => inFlight = 0
  /\ \E n \in 0 .. CellCount : durable = 1 .. n
  /\ inFlight \notin durable
  /\ pilotPc = "calling" => paid[cell] = rejected[cell] /\ artifacts[cell] = 0
  /\ pilotPc = "storing" => paid[cell] = rejected[cell] + 1 /\ artifacts[cell] = 0
  /\ pilotPc = "recording" => paid[cell] = rejected[cell] + 1 /\ artifacts[cell] = 1

PilotAccounted ==
  /\ \A c \in Pilot!Cells :
        paid[c] \in {rejected[c], rejected[c] + 1} /\ artifacts[c] \in {0, 1}
  /\ \A c \in durable : paid[c] = rejected[c] + 1 /\ artifacts[c] = 1
  /\ \A c \in Pilot!Cells \ durable :
        c # inFlight => paid[c] = rejected[c] /\ artifacts[c] = 0
  /\ accepted => durable = Pilot!Cells

PilotInv == Pilot!TypeOK /\ PilotInPlace /\ PilotAccounted

\* A checkpoint that is a prefix of the plan leaves the cell that follows it.
LEMMA PilotDueIsNext ==
  ASSUME Pilot!PilotAssumption, NEW n \in 0 .. CellCount
  PROVE  Pilot!Due(1 .. n) = IF n = CellCount THEN {} ELSE {n + 1}
BY DEF Pilot!Due, Pilot!Cells, Pilot!PilotAssumption

LEMMA PilotInvInit == ASSUME Pilot!PilotAssumption, Pilot!Init PROVE PilotInv
<1>1. Pilot!TypeOK
  <2>1. accepted \in BOOLEAN  BY Zenon DEF Pilot!Init
  <2>2. deaths \in 0 .. MaxDeaths  BY DEF Pilot!Init, Pilot!PilotAssumption
  <2>3. /\ paid \in [Pilot!Cells -> Nat] /\ rejected \in [Pilot!Cells -> Nat]
        /\ artifacts \in [Pilot!Cells -> Nat]
    BY DEF Pilot!Init
  <2> QED  BY <2>1, <2>2, <2>3 DEF Pilot!Init, Pilot!TypeOK
<1>2. PilotInPlace
  <2>1. 0 \in 0 .. CellCount /\ {} = 1 .. 0  BY DEF Pilot!PilotAssumption
  <2> QED  BY <2>1 DEF Pilot!Init, PilotInPlace
<1>3. PilotAccounted  BY DEF Pilot!Init, PilotAccounted
<1> QED  BY <1>1, <1>2, <1>3 DEF PilotInv

\* The invariant implies the properties.
LEMMA PilotInvIsEnough ==
  ASSUME Pilot!PilotAssumption, PilotInv
  PROVE  PaymentsAccounted
BY DEF PaymentsAccounted, PilotInv, Pilot!TypeOK, PilotAccounted, Pilot!PaymentsAccounted,
    Pilot!CheckpointTellsEvidence, Pilot!AcceptedIsWhole

LEMMA PilotInvStep == ASSUME Pilot!PilotAssumption, PilotInv, [Pilot!Next]_(Pilot!vars)
    PROVE PilotInv'
<1> USE DEF PilotInv, Pilot!TypeOK, PilotInPlace, PilotAccounted
<1>1. CASE Pilot!Start  BY <1>1 DEF Pilot!Start, Pilot!checkpoint
<1>2. CASE Pilot!BeginCell
  <2>1. PICK c \in Pilot!Due(durable) : cell' = c /\ inFlight' = c  BY <1>2 DEF Pilot!BeginCell
  <2>2. c \in Pilot!Cells \ durable  BY DEF Pilot!Due
  <2>3. paid[c] = rejected[c] /\ artifacts[c] = 0  BY <1>2, <2>2 DEF Pilot!BeginCell, Pilot!Cells
  <2>4. PilotInPlace'  BY <1>2, <2>1, <2>2, <2>3 DEF Pilot!BeginCell
  <2>5. PilotAccounted'  BY <1>2, <2>1 DEF Pilot!BeginCell, Pilot!Cells
  <2>6. Pilot!TypeOK'  BY <1>2, <2>1, <2>2 DEF Pilot!BeginCell
  <2> QED  BY <2>4, <2>5, <2>6
<1>3. CASE Pilot!Unadapted  BY <1>3 DEF Pilot!Unadapted, Pilot!checkpoint
<1>4. CASE Pilot!Refused
  <2>1. cell \in Pilot!Cells \ durable /\ inFlight = cell /\ paid[cell] = rejected[cell]
        /\ artifacts[cell] = 0
    BY <1>4 DEF Pilot!Refused, Pilot!Due
  <2>2. PilotInPlace'  BY <1>4 DEF Pilot!Refused, Pilot!Cells
  <2>3. PilotAccounted'  BY <1>4, <2>1 DEF Pilot!Refused
  <2>4. Pilot!TypeOK'  BY <1>4 DEF Pilot!Refused
  <2> QED  BY <2>2, <2>3, <2>4
<1>5. CASE Pilot!Uncertain
  <2>1. PilotInPlace'  BY <1>5 DEF Pilot!Uncertain, Pilot!checkpoint
  <2>2. PilotAccounted'  BY <1>5 DEF Pilot!Uncertain, Pilot!checkpoint
  <2>3. Pilot!TypeOK'  BY <1>5 DEF Pilot!Uncertain, Pilot!checkpoint
  <2> QED  BY <2>1, <2>2, <2>3
<1>6. CASE Pilot!Answered
  <2>1. PilotInPlace'  BY <1>6 DEF Pilot!Answered, Pilot!checkpoint
  <2>2. PilotAccounted'  BY <1>6 DEF Pilot!Answered, Pilot!checkpoint
  <2>3. Pilot!TypeOK'  BY <1>6 DEF Pilot!Answered, Pilot!checkpoint
  <2> QED  BY <2>1, <2>2, <2>3
<1>7. CASE Pilot!PersistenceUncertain
  <2>1. cell \in Pilot!Cells \ durable /\ inFlight = cell  BY <1>7 DEF Pilot!PersistenceUncertain, Pilot!Due
  <2>2. artifacts' \in [Pilot!Cells -> Nat] /\ artifacts'[cell] \in {0, 1}
    BY <1>7, <2>1 DEF Pilot!PersistenceUncertain
  <2>3. \A c \in Pilot!Cells \ {cell} : artifacts'[c] = artifacts[c]
    BY <1>7 DEF Pilot!PersistenceUncertain
  <2>4. UNCHANGED <<durable, inFlight, cell, paid, rejected, accepted, deaths>> /\ pilotPc' = "stopped"
    BY <1>7 DEF Pilot!PersistenceUncertain, Pilot!checkpoint
  <2> HIDE DEF PilotInv
  <2>5. PilotInPlace' /\ Pilot!TypeOK'  BY <2>2, <2>4 DEF PilotInv
  <2>6. PilotAccounted'  BY <2>1, <2>2, <2>3, <2>4 DEF PilotInv
  <2> QED  BY <2>5, <2>6 DEF PilotInv
<1>8. CASE Pilot!Persisted
  <2>1. PilotInPlace'  BY <1>8 DEF Pilot!Persisted, Pilot!checkpoint
  <2>2. PilotAccounted'  BY <1>8 DEF Pilot!Persisted, Pilot!checkpoint
  <2>3. Pilot!TypeOK'  BY <1>8 DEF Pilot!Persisted, Pilot!checkpoint
  <2> QED  BY <2>1, <2>2, <2>3
<1>9. CASE Pilot!RecordCell
  <2>1. PICK n \in 0 .. CellCount : durable = 1 .. n  BY DEF PilotInPlace
  <2>2. cell = n + 1 /\ n + 1 \in 0 .. CellCount
    <3>1. cell \in Pilot!Due(1 .. n)  BY <1>9, <2>1 DEF Pilot!RecordCell
    <3>2. n # CellCount /\ cell = n + 1  BY <3>1, PilotDueIsNext
    <3> QED  BY <3>2 DEF Pilot!PilotAssumption
  <2>3. durable' = 1 .. (n + 1)  BY <1>9, <2>1, <2>2 DEF Pilot!RecordCell
  <2>4. cell \in Pilot!Cells /\ inFlight = cell /\ paid[cell] = rejected[cell] + 1
        /\ artifacts[cell] = 1
    BY <1>9 DEF Pilot!RecordCell
  <2>5. accepted => durable' = Pilot!Cells  BY <1>9, <2>4 DEF Pilot!RecordCell
  <2>6. PilotInPlace'
    BY <1>9, <2>2, <2>3 DEF Pilot!RecordCell
  <2>7. PilotAccounted' /\ Pilot!TypeOK'
    BY <1>9, <2>4, <2>5 DEF Pilot!RecordCell, Pilot!Cells
  <2> QED  BY <2>6, <2>7
<1>10. CASE Pilot!Accept
  <2>1. PICK n \in 0 .. CellCount : durable = 1 .. n  BY DEF PilotInPlace
  <2>2. durable = Pilot!Cells
    <3>1. Pilot!Due(1 .. n) = {}  BY <1>10, <2>1 DEF Pilot!Accept
    <3>2. n = CellCount  BY <3>1, PilotDueIsNext
    <3> QED  BY <2>1, <3>2 DEF Pilot!Cells
  <2> QED  BY <1>10, <2>2 DEF Pilot!Accept, Pilot!checkpoint
<1>11. CASE Pilot!Die
  <2>1. deaths' \in 0 .. MaxDeaths  BY <1>11 DEF Pilot!Die, Pilot!PilotAssumption
  <2>2. CASE paid' = paid  BY <1>11, <2>1, <2>2 DEF Pilot!Die, Pilot!checkpoint
  <2>3. CASE pilotPc = "calling" /\ paid' = [paid EXCEPT ![cell] = @ + 1]
    BY <1>11, <2>1, <2>3 DEF Pilot!Die, Pilot!checkpoint
  <2> QED  BY <1>11, <2>2, <2>3 DEF Pilot!Die
<1>12. CASE UNCHANGED Pilot!vars  BY <1>12 DEF Pilot!vars, Pilot!checkpoint
<1>13. CASE Pilot!AnswerRejected
  <2>1. cell \in Pilot!Cells \ durable /\ inFlight = cell /\ paid[cell] = rejected[cell]
        /\ artifacts[cell] = 0
    BY <1>13 DEF Pilot!AnswerRejected, Pilot!Due
  <2>2. paid'[cell] = paid[cell] + 1 /\ rejected'[cell] = rejected[cell] + 1
    BY <1>13, <2>1 DEF Pilot!AnswerRejected
  <2>3. \A c \in Pilot!Cells \ {cell} : paid'[c] = paid[c] /\ rejected'[c] = rejected[c]
    BY <1>13 DEF Pilot!AnswerRejected
  <2>4. Pilot!TypeOK'
    <3>1. paid' \in [Pilot!Cells -> Nat] /\ rejected' \in [Pilot!Cells -> Nat]
      BY <1>13, <2>1 DEF Pilot!AnswerRejected
    <3> QED  BY <1>13, <3>1 DEF Pilot!AnswerRejected
  <2>5. PilotInPlace'  BY <1>13 DEF Pilot!AnswerRejected, Pilot!Cells
  <2>6. PilotAccounted'
    <3>1. durable \subseteq Pilot!Cells \ {cell}  BY <2>1
    <3>2. inFlight' = 0 /\ UNCHANGED <<durable, artifacts, accepted>>
      BY <1>13 DEF Pilot!AnswerRejected
    <3> QED  BY <2>1, <2>2, <2>3, <3>1, <3>2
  <2> QED  BY <2>4, <2>5, <2>6
<1> QED
  BY <1>1, <1>2, <1>3, <1>4, <1>5, <1>6, <1>7, <1>8, <1>9, <1>10, <1>11, <1>12, <1>13
     DEF Pilot!Next

\* Wherever the process dies and however often it is started again, a cell is paid
\* for a second time only after its answer was thrown away (the governed errors of
\* executeResumableAdkLivePilot); the checkpoint names only cells whose evidence
\* exists, once; and a pilot that was accepted registered every cell, and paid for
\* nothing but that and the answers that were thrown away.
THEOREM PilotPaymentsAccounted ==
  ASSUME Pilot!PilotAssumption
  PROVE  Pilot!Spec => []PaymentsAccounted
<1>1. Pilot!Init => PilotInv  BY PilotInvInit
<1>2. PilotInv /\ [Pilot!Next]_(Pilot!vars) => PilotInv'  BY PilotInvStep
<1>3. PilotInv => PaymentsAccounted
  BY PilotInvIsEnough
<1> QED  BY <1>1, <1>2, <1>3, PTL DEF Pilot!Spec

\* Whoever approves is known: an execution copies the name.
ActionsConsented(row) == row.status = "APPROVED" => row.approvedBy \in Actors

ActionsWriteRequest == [at : {"write"}, intent : Intents, row : Actions!IntentRow]
ActionsExecuteRequest ==
  [at : {"dispatch", "link"}, intent : Intents, actor : Actors, key : Keys,
   approver : Actors, plan : Plans]

\* The run a request or an execution is about.
ActionsIsRunOf(n, r) ==
  runs[n].intent = r.intent /\ runs[n].actor = r.actor /\ runs[n].plan = r.plan

\* What the properties rest on.  A request that was dispatched has its run: the
\* run of its intent, for its actor and plan.
ActionsRequestsHold ==
  \A p \in Processes : request[p] # NoRequest =>
    \/ request[p] \in ActionsWriteRequest /\ ActionsConsented(request[p].row)
    \/ /\ request[p] \in ActionsExecuteRequest
       /\ request[p].at = "link" => \E n \in DOMAIN runs : ActionsIsRunOf(n, request[p])

ActionsTypeInv ==
  /\ intent \in [Intents -> Actions!IntentRow] /\ \A i \in Intents : ActionsConsented(intent[i])
  /\ runs \in Seq(Actions!Run)
  /\ acted \subseteq Actions!Execution
  /\ plan \in [Targets -> Plans]
  /\ request \in [Processes -> ActionsWriteRequest \cup ActionsExecuteRequest \cup {NoRequest}]

ActionsWorldTyped == collect \in [Targets -> BOOLEAN] /\ changes \in 0 .. MaxChanges

ActionsOneRun == \A m, n \in DOMAIN runs : runs[m].intent = runs[n].intent => m = n
ActionsOneLink == \A d, e \in acted : d.intent = e.intent \/ d.key = e.key => d = e

ActionsInv == ActionsTypeInv /\ ActionsWorldTyped /\ ActionsRequestsHold /\ ActionsOneRun
    /\ ActionsOneLink /\ Actions!LinksAreTrue

\* Two executions of one run are of one intent.
LEMMA ActionsInvIsEnough == ActionsInv => OneRunPerIntent
<1> SUFFICES ASSUME ActionsInv PROVE OneRunPerIntent
  OBVIOUS
<1>1. Actions!TypeOK
  BY DEF ActionsInv, ActionsTypeInv, ActionsWorldTyped, ActionsRequestsHold, Actions!TypeOK,
      ActionsWriteRequest, ActionsExecuteRequest
<1>2. Actions!OneRunPerIntent
  BY DEF ActionsInv, ActionsOneRun, ActionsOneLink, Actions!LinksAreTrue,
      Actions!OneRunPerIntent
<1> QED  BY <1>1, <1>2 DEF ActionsInv, OneRunPerIntent

LEMMA ActionsInvInit == ASSUME Actions!ActionsAssumption, Actions!Init PROVE ActionsInv
<1>1. ActionsTypeInv  BY DEF Actions!ActionsAssumption, Actions!Init, ActionsTypeInv,
    Actions!NoIntent, Actions!IntentRow, ActionsConsented
<1>2. collect \in [Targets -> BOOLEAN]  BY Zenon DEF Actions!Init
<1>3. changes \in 0 .. MaxChanges  BY DEF Actions!Init, Actions!ActionsAssumption
<1>4. ActionsRequestsHold /\ ActionsOneRun /\ ActionsOneLink /\ Actions!LinksAreTrue
  BY DEF Actions!Init, ActionsRequestsHold, ActionsOneRun, ActionsOneLink, Actions!LinksAreTrue
<1> QED  BY <1>1, <1>2, <1>3, <1>4 DEF ActionsInv, ActionsWorldTyped

\* A process takes up a request; nothing else changes.
LEMMA ActionsRequestStep ==
  ASSUME ActionsInv, NEW p \in Processes,
         NEW r \in ActionsWriteRequest \cup ActionsExecuteRequest \cup {NoRequest},
         \/ r = NoRequest
         \/ r \in ActionsWriteRequest /\ ActionsConsented(r.row)
         \/ r \in ActionsExecuteRequest /\ r.at = "dispatch",
         Actions!Goes(p, r), UNCHANGED <<intent, runs, acted, plan, collect>>,
         changes' \in 0 .. MaxChanges
  PROVE  ActionsInv'
<1>1. ActionsTypeInv' /\ ActionsWorldTyped'
  BY DEF ActionsInv, ActionsTypeInv, ActionsWorldTyped, Actions!Goes, ActionsConsented
<1>2. ActionsOneRun' /\ ActionsOneLink' /\ Actions!LinksAreTrue'
  BY DEF ActionsInv, ActionsOneRun, ActionsOneLink, Actions!LinksAreTrue
<1>3. ActionsRequestsHold'
  BY DEF ActionsInv, ActionsTypeInv, ActionsRequestsHold, Actions!Goes, ActionsConsented,
      ActionsExecuteRequest, ActionsIsRunOf
<1> QED  BY <1>1, <1>2, <1>3 DEF ActionsInv

\* A step that touches neither runs nor requests nor executions.
LEMMA ActionsLedgerStep ==
  ASSUME ActionsInv, UNCHANGED <<runs, acted, request>>,
         intent' \in [Intents -> Actions!IntentRow],
             \A i \in Intents : ActionsConsented(intent'[i]),
         plan' \in [Targets -> Plans], ActionsWorldTyped'
  PROVE  ActionsInv'
<1>1. ActionsTypeInv'  BY DEF ActionsInv, ActionsTypeInv
<1>2. ActionsOneRun' /\ ActionsOneLink' /\ Actions!LinksAreTrue' /\ ActionsRequestsHold'
  BY DEF ActionsInv, ActionsOneRun, ActionsOneLink, Actions!LinksAreTrue, ActionsRequestsHold,
      ActionsIsRunOf
<1> QED  BY <1>1, <1>2 DEF ActionsInv

LEMMA ActionsCreateStep ==
  ASSUME ActionsInv, NEW p \in Processes, NEW i \in Intents, Actions!Create(p, i)
      PROVE ActionsInv'
<1>1. intent' \in [Intents -> Actions!IntentRow]
  BY DEF Actions!Create, ActionsInv, ActionsTypeInv, Actions!IntentRow
<1>2. \A k \in Intents : ActionsConsented(intent'[k])
  BY DEF Actions!Create, ActionsInv, ActionsTypeInv, Actions!IntentRow, ActionsConsented
<1>3. ActionsWorldTyped'  BY DEF Actions!Create, ActionsInv, ActionsWorldTyped, Actions!world
<1> QED  BY <1>1, <1>2, <1>3, ActionsLedgerStep DEF Actions!Create, Actions!world, ActionsInv,
    ActionsTypeInv

LEMMA ActionsReadApproveStep ==
  ASSUME ActionsInv, NEW p \in Processes, NEW i \in Intents, NEW a \in Actors,
      Actions!ReadApprove(p, i, a)
  PROVE  ActionsInv'
<1> DEFINE r == [at |-> "write", intent |-> i,
                 row |-> [intent[i] EXCEPT !.status = "APPROVED", !.approvedBy = a]]
<1>1. r \in ActionsWriteRequest /\ ActionsConsented(r.row)
  BY DEF ActionsInv, ActionsTypeInv, Actions!IntentRow, ActionsWriteRequest, ActionsConsented
<1>2. Actions!Goes(p, r) /\ UNCHANGED <<intent, runs, acted, plan, collect, changes>>
  BY DEF Actions!ReadApprove, Actions!ledgers, Actions!world
<1>3. changes' \in 0 .. MaxChanges  BY <1>2 DEF ActionsInv, ActionsWorldTyped
<1> HIDE DEF r
<1> QED  BY <1>1, <1>2, <1>3, ActionsRequestStep

LEMMA ActionsReadCancelStep ==
  ASSUME ActionsInv, NEW p \in Processes, NEW i \in Intents, NEW a \in Actors,
      Actions!ReadCancel(p, i, a)
  PROVE  ActionsInv'
<1> DEFINE r == [at |-> "write", intent |-> i,
                 row |-> [intent[i] EXCEPT !.status = "CANCELED", !.canceledBy = a]]
<1>1. r \in ActionsWriteRequest /\ ActionsConsented(r.row)
  BY DEF ActionsInv, ActionsTypeInv, Actions!IntentRow, ActionsWriteRequest, ActionsConsented
<1>2. Actions!Goes(p, r) /\ UNCHANGED <<intent, runs, acted, plan, collect, changes>>
  BY DEF Actions!ReadCancel, Actions!ledgers, Actions!world
<1>3. changes' \in 0 .. MaxChanges  BY <1>2 DEF ActionsInv, ActionsWorldTyped
<1> HIDE DEF r
<1> QED  BY <1>1, <1>2, <1>3, ActionsRequestStep

LEMMA ActionsReadExecuteStep ==
  ASSUME Actions!ActionsAssumption, ActionsInv, NEW p \in Processes, NEW i \in Intents,
      NEW a \in Actors,
         NEW k \in Keys, Actions!ReadExecute(p, i, a, k)
  PROVE  ActionsInv'
<1> DEFINE r == [at |-> "dispatch", intent |-> i, actor |-> a, key |-> k,
                 approver |-> intent[i].approvedBy, plan |-> Actions!PreparedPlan(TargetOf[i])]
<1>1. r \in ActionsExecuteRequest /\ r.at = "dispatch"
  BY DEF ActionsInv, ActionsTypeInv, ActionsConsented, Actions!ReadExecute,
      ActionsExecuteRequest, Actions!PreparedPlan, Actions!ActionsAssumption
<1>2. Actions!Goes(p, r) /\ UNCHANGED <<intent, runs, acted, plan, collect, changes>>
  BY DEF Actions!ReadExecute, Actions!ledgers, Actions!world
<1>3. changes' \in 0 .. MaxChanges  BY <1>2 DEF ActionsInv, ActionsWorldTyped
<1> HIDE DEF r
<1> QED  BY <1>1, <1>2, <1>3, ActionsRequestStep

LEMMA ActionsCrashStep ==
  ASSUME Actions!ActionsAssumption, ActionsInv, NEW p \in Processes, Actions!Crash(p)
      PROVE ActionsInv'
<1>1. changes' \in 0 .. MaxChanges  BY DEF ActionsInv, ActionsWorldTyped, Actions!Crash,
    Actions!ActionsAssumption
<1> QED  BY <1>1, ActionsRequestStep DEF Actions!Crash, Actions!ledgers

LEMMA ActionsWriteStep == ASSUME ActionsInv, NEW p \in Processes, Actions!WriteIntent(p)
    PROVE ActionsInv'
<1>1. request[p] \in ActionsWriteRequest /\ ActionsConsented(request[p].row)
  BY DEF ActionsInv, ActionsRequestsHold, Actions!WriteIntent, ActionsExecuteRequest
<1>2. /\ intent' = [intent EXCEPT ![request[p].intent] = request[p].row]
      /\ request' = [request EXCEPT ![p] = NoRequest]
      /\ UNCHANGED <<runs, acted, plan, collect, changes>>
  BY DEF Actions!WriteIntent, Actions!Goes, Actions!world
<1>3. ActionsTypeInv'
  BY <1>1, <1>2 DEF ActionsInv, ActionsTypeInv, ActionsWriteRequest, ActionsConsented
<1>4. ActionsWorldTyped' /\ ActionsOneRun' /\ ActionsOneLink' /\ Actions!LinksAreTrue'
  BY <1>2 DEF ActionsInv, ActionsWorldTyped, ActionsOneRun, ActionsOneLink, Actions!LinksAreTrue
<1>5. ActionsRequestsHold'
  BY <1>2 DEF ActionsInv, ActionsTypeInv, ActionsRequestsHold, ActionsConsented, ActionsIsRunOf
<1> QED  BY <1>3, <1>4, <1>5 DEF ActionsInv

LEMMA ActionsTargetStep ==
  ASSUME Actions!ActionsAssumption, ActionsInv, NEW t \in Targets, Actions!TargetChanges(t)
      PROVE ActionsInv'
<1>1. changes' \in 0 .. MaxChanges  BY DEF ActionsInv, ActionsWorldTyped,
    Actions!TargetChanges, Actions!ActionsAssumption
<1>2. plan' \in [Targets -> Plans]
  BY DEF ActionsInv, ActionsTypeInv, Actions!TargetChanges
<1>3. collect' \in [Targets -> BOOLEAN]
  <2>1. collect \in [Targets -> BOOLEAN]  BY DEF ActionsInv, ActionsWorldTyped
  <2>2. collect' = collect \/ collect' = [collect EXCEPT ![t] = ~@]  BY
      DEF Actions!TargetChanges
  <2> QED  BY <2>1, <2>2, Zenon
<1> QED
  BY <1>1, <1>2, <1>3, ActionsLedgerStep DEF Actions!TargetChanges, Actions!ledgers,
      ActionsWorldTyped, ActionsInv, ActionsTypeInv

\* A run ends: it stays the run of its intent.
LEMMA ActionsEndStep ==
  ASSUME ActionsInv, NEW n \in DOMAIN runs, NEW ending \in {"COMPLETED", "FAILED", "CANCELLED"},
         Actions!RunEnds(n, ending)
  PROVE  ActionsInv'
<1>1. runs \in Seq(Actions!Run) /\ n \in 1 .. Len(runs) /\ runs[n] \in Actions!Run
  BY DEF ActionsInv, ActionsTypeInv
<1>2. runs' = [runs EXCEPT ![n] = [runs[n] EXCEPT !.status = ending]]
  BY DEF Actions!RunEnds
<1>3. [runs[n] EXCEPT !.status = ending] \in Actions!Run
  BY <1>1 DEF Actions!Run
<1>4. runs' \in Seq(Actions!Run) /\ DOMAIN runs' = DOMAIN runs
  BY <1>1, <1>2, <1>3
<1>5. \A m \in DOMAIN runs : /\ runs'[m].intent = runs[m].intent
                              /\ runs'[m].actor = runs[m].actor
                              /\ runs'[m].plan = runs[m].plan
  <2> TAKE m \in DOMAIN runs
  <2>1. CASE m = n  BY <1>1, <1>2, <2>1 DEF Actions!Run
  <2>2. CASE m # n  BY <1>1, <1>2, <2>2
  <2> QED  BY <2>1, <2>2
<1>6. UNCHANGED <<intent, acted, request, plan, collect, changes>>
  BY DEF Actions!RunEnds, Actions!world
<1>7. ActionsTypeInv' /\ ActionsWorldTyped'
  BY <1>4, <1>6 DEF ActionsInv, ActionsTypeInv, ActionsWorldTyped, ActionsConsented
<1>8. ActionsOneRun' /\ ActionsOneLink' /\ Actions!LinksAreTrue'
  BY <1>4, <1>5, <1>6 DEF ActionsInv, ActionsOneRun, ActionsOneLink, Actions!LinksAreTrue
<1>9. ActionsRequestsHold'
  BY <1>4, <1>5, <1>6 DEF ActionsInv, ActionsRequestsHold, ActionsIsRunOf, ActionsConsented
<1> QED  BY <1>7, <1>8, <1>9 DEF ActionsInv

\* A request whose run exists, or that inserts it, goes on to link it.
LEMMA ActionsDispatchStep ==
  ASSUME ActionsInv, NEW p \in Processes, NEW willing \in BOOLEAN,
         Actions!Dispatch(p, willing)
  PROVE  ActionsInv'
<1> DEFINE of == {n \in DOMAIN runs : runs[n].intent = request[p].intent}
<1>1. request[p] \in ActionsExecuteRequest
  BY DEF ActionsInv, ActionsRequestsHold, Actions!Dispatch, ActionsWriteRequest
<1>2. UNCHANGED <<intent, acted, plan, collect, changes>>
  BY DEF Actions!Dispatch, Actions!world
<1>3. CASE UNCHANGED runs /\ Actions!Goes(p, NoRequest)
  <2>1. changes' \in 0 .. MaxChanges  BY <1>2 DEF ActionsInv, ActionsWorldTyped
  <2> QED  BY <1>2, <1>3, <2>1, ActionsRequestStep
<1>4. CASE /\ \A n \in of : runs[n].plan = request[p].plan /\ runs[n].actor = request[p].actor
           /\ IF of = {} THEN runs' = Append(runs,
               Actions!NewRun(request[p])) ELSE UNCHANGED runs
           /\ Actions!Goes(p, [request[p] EXCEPT !.at = "link"])
  <2> DEFINE r == [request[p] EXCEPT !.at = "link"]
  <2>1. /\ r \in ActionsExecuteRequest /\ r.at = "link"
        /\ r.intent = request[p].intent /\ r.actor = request[p].actor
        /\ r.plan = request[p].plan
    BY <1>1 DEF ActionsExecuteRequest
  <2>2. /\ request' = [request EXCEPT ![p] = r]
        /\ request \in [Processes -> ActionsWriteRequest \cup ActionsExecuteRequest \cup {NoRequest}]
    BY <1>4 DEF Actions!Goes, ActionsInv, ActionsTypeInv
  <2> HIDE DEF r
  <2>3. runs \in Seq(Actions!Run)  BY DEF ActionsInv, ActionsTypeInv
  <2>4. CASE of # {}
    <3>1. UNCHANGED runs  BY <1>4, <2>4
    <3>2. \E n \in DOMAIN runs : ActionsIsRunOf(n, r)
      BY <1>4, <2>1, <2>4 DEF ActionsIsRunOf
    <3>3. ActionsTypeInv' /\ ActionsWorldTyped' /\ ActionsOneRun' /\ ActionsOneLink'
        /\ Actions!LinksAreTrue'
      BY <1>2, <2>1, <2>2, <3>1
         DEF ActionsInv, ActionsTypeInv, ActionsWorldTyped, ActionsOneRun, ActionsOneLink,
             Actions!LinksAreTrue, ActionsConsented
    <3>4. ActionsRequestsHold'
      BY <2>1, <2>2, <3>1, <3>2 DEF ActionsInv, ActionsRequestsHold, ActionsIsRunOf,
          ActionsConsented
    <3> QED  BY <3>3, <3>4 DEF ActionsInv
  <2>5. CASE of = {}
    <3> DEFINE new == Actions!NewRun(request[p])
    <3>1. /\ new \in Actions!Run
          /\ new.intent = r.intent /\ new.actor = r.actor /\ new.plan = r.plan
      BY <1>1, <2>1 DEF Actions!NewRun, Actions!Run, ActionsExecuteRequest
    <3>2. runs' = Append(runs, new)  BY <1>4, <2>5
    <3> HIDE DEF new
    <3>3. /\ runs' \in Seq(Actions!Run) /\ DOMAIN runs' = 1 .. (Len(runs) + 1)
          /\ DOMAIN runs = 1 .. Len(runs) /\ Len(runs) \in Nat
          /\ runs'[Len(runs) + 1] = new
          /\ \A n \in DOMAIN runs : n \in DOMAIN runs' /\ runs'[n] = runs[n]
      BY <2>3, <3>1, <3>2
    <3>4. \A n \in DOMAIN runs : runs[n].intent # r.intent
      BY <2>1, <2>5
    <3>5. ActionsOneRun'
      BY <3>1, <3>3, <3>4 DEF ActionsInv, ActionsOneRun
    <3>6. ActionsOneLink' /\ Actions!LinksAreTrue'
      BY <1>2, <3>3 DEF ActionsInv, ActionsOneLink, Actions!LinksAreTrue
    <3>7. ActionsTypeInv' /\ ActionsWorldTyped'
      BY <1>2, <2>1, <2>2, <3>3 DEF ActionsInv, ActionsTypeInv, ActionsWorldTyped,
          ActionsConsented
    <3>8. \E n \in DOMAIN runs' : /\ runs'[n].intent = r.intent
                                  /\ runs'[n].actor = r.actor /\ runs'[n].plan = r.plan
      BY <3>1, <3>3
    <3>9. ActionsRequestsHold'
      BY <2>1, <2>2, <3>3, <3>8 DEF ActionsInv, ActionsRequestsHold, ActionsIsRunOf,
          ActionsConsented
    <3> QED  BY <3>5, <3>6, <3>7, <3>9 DEF ActionsInv
  <2> QED  BY <2>4, <2>5
<1> QED  BY <1>3, <1>4 DEF Actions!Dispatch

\* The link names the run of the request's intent: there is one, and it is for
\* the request's actor and plan.
LEMMA ActionsLinkStep == ASSUME ActionsInv, NEW p \in Processes, Actions!Link(p)
    PROVE ActionsInv'
<1> DEFINE r == request[p]
           itsRun == CHOOSE n \in DOMAIN runs : runs[n].intent = r.intent
           new == [intent |-> r.intent, key |-> r.key, actor |-> r.actor,
                   approver |-> r.approver, plan |-> r.plan, run |-> itsRun]
<1>1. r \in ActionsExecuteRequest /\ \E n \in DOMAIN runs : ActionsIsRunOf(n, r)
  BY DEF ActionsInv, ActionsRequestsHold, Actions!Link, ActionsWriteRequest
<1>2. itsRun \in DOMAIN runs /\ ActionsIsRunOf(itsRun, r)
  BY <1>1 DEF ActionsInv, ActionsOneRun, ActionsIsRunOf
<1>3. Actions!Goes(p, NoRequest) /\ UNCHANGED <<intent, runs, plan, collect, changes>>
  BY DEF Actions!Link, Actions!world
<1>4. \/ acted' = acted
      \/ /\ acted' = acted \cup {new}
         /\ \A e \in acted : e.key # r.key /\ e.intent # r.intent
  BY DEF Actions!Link
<1>5. changes' \in 0 .. MaxChanges  BY <1>3 DEF ActionsInv, ActionsWorldTyped
<1>6. CASE acted' = acted
  BY <1>3, <1>5, <1>6, ActionsRequestStep
<1>7. CASE /\ acted' = acted \cup {new}
           /\ \A e \in acted : e.key # r.key /\ e.intent # r.intent
  <2>1. itsRun \in Nat  BY <1>2 DEF ActionsInv, ActionsTypeInv
  <2>2. new \in Actions!Execution  BY <1>1, <2>1 DEF Actions!Execution, ActionsExecuteRequest
  <2>3. /\ new.intent = r.intent /\ new.key = r.key /\ new.run = itsRun
        /\ new.actor = r.actor /\ new.plan = r.plan
    OBVIOUS
  <2> HIDE DEF new, itsRun
  <2>4. ActionsTypeInv' /\ ActionsWorldTyped'
    BY <1>3, <1>7, <2>2 DEF ActionsInv, ActionsTypeInv, ActionsWorldTyped, Actions!Goes,
        ActionsConsented
  <2>5. ActionsOneRun' /\ ActionsOneLink'
    BY <1>3, <1>7, <2>3 DEF ActionsInv, ActionsOneRun, ActionsOneLink
  <2>6. Actions!LinksAreTrue'
    BY <1>2, <1>3, <1>7, <2>3 DEF ActionsInv, Actions!LinksAreTrue, ActionsIsRunOf
  <2>7. ActionsRequestsHold'
    BY <1>3 DEF ActionsInv, ActionsTypeInv, ActionsRequestsHold, Actions!Goes, ActionsIsRunOf,
        ActionsConsented
  <2> QED  BY <2>4, <2>5, <2>6, <2>7 DEF ActionsInv
<1> QED  BY <1>4, <1>6, <1>7

LEMMA ActionsInvStep == ASSUME Actions!ActionsAssumption, ActionsInv,
    [Actions!Next]_(Actions!vars) PROVE ActionsInv'
<1>1. CASE UNCHANGED Actions!vars
  <2>1. UNCHANGED <<intent, runs, acted, request, plan, collect, changes>>
    BY <1>1 DEF Actions!vars, Actions!ledgers, Actions!world
  <2>2. ActionsWorldTyped'  BY <2>1 DEF ActionsInv, ActionsWorldTyped
  <2> QED  BY <2>1, <2>2, ActionsLedgerStep DEF ActionsInv, ActionsTypeInv
<1>2. CASE Actions!Next
  BY <1>2, ActionsCreateStep, ActionsReadApproveStep, ActionsReadCancelStep,
     ActionsReadExecuteStep, ActionsWriteStep, ActionsDispatchStep, ActionsLinkStep,
     ActionsCrashStep, ActionsEndStep, ActionsTargetStep
     DEF Actions!Next
<1> QED  BY <1>1, <1>2

\* An intent has one run and one execution, and the execution names the run,
\* actor and plan of what really happened: however many processes interleave the
\* check, the dispatch and the link (executeApprovedFoundationalCollectionIntent),
\* and wherever they end.
THEOREM IntentsRunOnce ==
  ASSUME Actions!ActionsAssumption
  PROVE  Actions!Spec => []OneRunPerIntent
<1>1. Actions!Init => ActionsInv  BY ActionsInvInit
<1>2. ActionsInv /\ [Actions!Next]_(Actions!vars) => ActionsInv'  BY ActionsInvStep
<1> QED  BY <1>1, <1>2, ActionsInvIsEnough, PTL DEF Actions!Spec

\* With one server process, nothing comes between the read of an intent and what
\* the request does with it: the row to be replaced is still not a canceled one,
\* and a run is dispatched while its intent is still approved.
OneServer == \A p, q \in Processes : p = q

ActionsUndisturbed ==
  \A p \in Processes : request[p] # NoRequest =>
    /\ request[p].at = "write" => intent[request[p].intent].status # "CANCELED"
    /\ request[p].at = "dispatch" => intent[request[p].intent].status = "APPROVED"

LEMMA UndisturbedStep ==
  ASSUME OneServer, ActionsInv, ActionsUndisturbed, [Actions!Next]_(Actions!vars)
  PROVE  ActionsUndisturbed'
<1>1. request \in [Processes -> ActionsWriteRequest \cup ActionsExecuteRequest \cup {NoRequest}]
  BY DEF ActionsInv, ActionsTypeInv
<1>2. ASSUME NEW p \in Processes, request' = [request EXCEPT ![p] = NoRequest]
      PROVE  ActionsUndisturbed'
  BY <1>1, <1>2 DEF OneServer, ActionsUndisturbed
<1>3. ASSUME UNCHANGED <<intent, request>> PROVE ActionsUndisturbed'
  BY <1>3 DEF ActionsUndisturbed
<1>4. ASSUME NEW p \in Processes, NEW i \in Intents, Actions!Create(p, i)
      PROVE  ActionsUndisturbed'
  BY <1>4 DEF Actions!Create, OneServer, ActionsUndisturbed
<1>5. ASSUME NEW p \in Processes, NEW i \in Intents, NEW a \in Actors,
             Actions!ReadApprove(p, i, a) \/ Actions!ReadCancel(p, i, a)
      PROVE  ActionsUndisturbed'
  <2> DEFINE r == request'[p]
  <2>1. /\ r.at = "write" /\ r.intent = i /\ intent[i].status # "CANCELED"
        /\ UNCHANGED intent
    BY <1>1, <1>5 DEF Actions!ReadApprove, Actions!ReadCancel, Actions!Goes, Actions!ledgers
  <2> QED  BY <2>1 DEF OneServer, ActionsUndisturbed
<1>6. ASSUME NEW p \in Processes, NEW i \in Intents, NEW a \in Actors, NEW k \in Keys,
             Actions!ReadExecute(p, i, a, k)
      PROVE  ActionsUndisturbed'
  <2> DEFINE r == request'[p]
  <2>1. /\ r.at = "dispatch" /\ r.intent = i /\ intent[i].status = "APPROVED"
        /\ UNCHANGED intent
    BY <1>1, <1>6 DEF Actions!ReadExecute, Actions!Goes, Actions!ledgers
  <2> QED  BY <2>1 DEF OneServer, ActionsUndisturbed
<1>7. ASSUME NEW p \in Processes, NEW willing \in BOOLEAN, Actions!Dispatch(p, willing)
      PROVE  ActionsUndisturbed'
  <2>1. request[p] \in ActionsExecuteRequest
    BY <1>7 DEF ActionsInv, ActionsRequestsHold, Actions!Dispatch, ActionsWriteRequest
  <2>2. CASE Actions!Goes(p, [request[p] EXCEPT !.at = "link"])
    <3>1. request'[p].at = "link"
      BY <1>1, <2>1, <2>2 DEF Actions!Goes, ActionsExecuteRequest
    <3> QED  BY <3>1 DEF OneServer, ActionsUndisturbed
  <2>3. CASE Actions!Goes(p, NoRequest)
    BY <1>2, <2>3 DEF Actions!Goes
  <2> QED  BY <1>7, <2>2, <2>3 DEF Actions!Dispatch
<1>8. ASSUME NEW p \in Processes,
             Actions!WriteIntent(p) \/ Actions!Link(p) \/ Actions!Crash(p)
      PROVE  ActionsUndisturbed'
  BY <1>2, <1>8 DEF Actions!WriteIntent, Actions!Link, Actions!Crash, Actions!Goes
<1>9. ASSUME NEW n \in DOMAIN runs, NEW ending \in {"COMPLETED", "FAILED", "CANCELLED"},
             Actions!RunEnds(n, ending)
      PROVE  ActionsUndisturbed'
  BY <1>3, <1>9 DEF Actions!RunEnds
<1>10. ASSUME NEW t \in Targets, Actions!TargetChanges(t) PROVE ActionsUndisturbed'
  BY <1>3, <1>10 DEF Actions!TargetChanges, Actions!ledgers
<1>11. ASSUME UNCHANGED Actions!vars PROVE ActionsUndisturbed'
  BY <1>3, <1>11 DEF Actions!vars, Actions!ledgers
<1> QED
  BY <1>4, <1>5, <1>6, <1>7, <1>8, <1>9, <1>10, <1>11 DEF Actions!Next

LEMMA UndisturbedActs ==
  ASSUME ActionsInv, ActionsUndisturbed, [Actions!Next]_(Actions!vars)
  PROVE  Actions!CanceledIsFinal /\ Actions!DispatchIsApproved
<1>1. /\ intent \in [Intents -> Actions!IntentRow] /\ runs \in Seq(Actions!Run)
      /\ DOMAIN runs = 1 .. Len(runs)
  BY DEF ActionsInv, ActionsTypeInv
<1>2. ASSUME UNCHANGED <<intent, runs>>
      PROVE  Actions!CanceledIsFinal /\ Actions!DispatchIsApproved
  BY <1>2 DEF Actions!CanceledIsFinal, Actions!DispatchIsApproved
<1>3. ASSUME NEW p \in Processes, NEW i \in Intents, Actions!Create(p, i)
      PROVE  Actions!CanceledIsFinal /\ Actions!DispatchIsApproved
  <2>1. intent[i].status = "NONE" /\ UNCHANGED runs
        /\ \A k \in Intents : k # i => intent'[k] = intent[k]
    BY <1>1, <1>3 DEF Actions!Create, Actions!NoIntent
  <2> QED  BY <2>1 DEF Actions!CanceledIsFinal, Actions!DispatchIsApproved
<1>4. ASSUME NEW p \in Processes, Actions!WriteIntent(p)
      PROVE  Actions!CanceledIsFinal /\ Actions!DispatchIsApproved
  <2>1. /\ intent[request[p].intent].status # "CANCELED" /\ UNCHANGED runs
        /\ \A k \in Intents : k # request[p].intent => intent'[k] = intent[k]
    BY <1>1, <1>4 DEF Actions!WriteIntent, ActionsUndisturbed
  <2> QED  BY <2>1 DEF Actions!CanceledIsFinal, Actions!DispatchIsApproved
<1>5. ASSUME NEW p \in Processes, NEW willing \in BOOLEAN, Actions!Dispatch(p, willing)
      PROVE  Actions!CanceledIsFinal /\ Actions!DispatchIsApproved
  <2>1. /\ UNCHANGED intent /\ request[p] \in ActionsExecuteRequest
        /\ intent[request[p].intent].status = "APPROVED"
    BY <1>5
       DEF Actions!Dispatch, ActionsUndisturbed, ActionsInv, ActionsRequestsHold,
           ActionsWriteRequest
  <2>2. UNCHANGED runs \/ runs' = Append(runs, Actions!NewRun(request[p]))
    BY <1>5 DEF Actions!Dispatch
  <2>3. CASE runs' = Append(runs, Actions!NewRun(request[p]))
    <3> DEFINE new == Actions!NewRun(request[p])
    <3>1. new.intent = request[p].intent /\ new \in Actions!Run
      BY <2>1 DEF Actions!NewRun, Actions!Run, ActionsExecuteRequest
    <3>2. runs' = Append(runs, new)  BY <2>3
    <3> HIDE DEF new
    <3>3. \A n \in DOMAIN runs' : n \notin DOMAIN runs => runs'[n] = new
      BY <1>1, <3>1, <3>2
    <3> QED  BY <2>1, <3>1, <3>3 DEF Actions!CanceledIsFinal, Actions!DispatchIsApproved
  <2> QED  BY <1>2, <2>1, <2>2, <2>3
<1>6. ASSUME NEW n \in DOMAIN runs, NEW ending \in {"COMPLETED", "FAILED", "CANCELLED"},
             Actions!RunEnds(n, ending)
      PROVE  Actions!CanceledIsFinal /\ Actions!DispatchIsApproved
  <2>1. UNCHANGED intent /\ DOMAIN runs' = DOMAIN runs
    BY <1>1, <1>6 DEF Actions!RunEnds
  <2> QED  BY <2>1 DEF Actions!CanceledIsFinal, Actions!DispatchIsApproved
<1>7. ASSUME NEW p \in Processes, NEW i \in Intents, NEW a \in Actors,
             \/ Actions!ReadApprove(p, i, a)
             \/ Actions!ReadCancel(p, i, a)
             \/ \E k \in Keys : Actions!ReadExecute(p, i, a, k)
      PROVE  UNCHANGED <<intent, runs>>
  BY <1>7 DEF Actions!ReadApprove, Actions!ReadCancel, Actions!ReadExecute, Actions!ledgers
<1>8. ASSUME NEW p \in Processes, Actions!Link(p) \/ Actions!Crash(p)
      PROVE  UNCHANGED <<intent, runs>>
  BY <1>8 DEF Actions!Link, Actions!Crash, Actions!ledgers
<1>9. ASSUME (\E t \in Targets : Actions!TargetChanges(t)) \/ UNCHANGED Actions!vars
      PROVE  UNCHANGED <<intent, runs>>
  BY <1>9 DEF Actions!TargetChanges, Actions!vars, Actions!ledgers
<1> QED
  BY <1>2, <1>3, <1>4, <1>5, <1>6, <1>7, <1>8, <1>9 DEF Actions!Next

\* With one server process, wherever it ends: a canceled intent is never approved or
\* changed, and a run is dispatched only for an intent that is approved then,
\* although the row is read in one transaction and written or used in another
\* (foundational-action-intent-ledger.ts transition).
THEOREM ConsentHolds ==
  ASSUME Actions!ActionsAssumption, OneServer
  PROVE  Actions!Spec =>
           [][Actions!CanceledIsFinal /\ Actions!DispatchIsApproved]_(Actions!vars)
<1>1. Actions!Init => ActionsInv /\ ActionsUndisturbed
  BY ActionsInvInit DEF Actions!Init, ActionsUndisturbed
<1>2. ActionsInv /\ ActionsUndisturbed /\ [Actions!Next]_(Actions!vars)
        => ActionsInv' /\ ActionsUndisturbed'
  BY ActionsInvStep, UndisturbedStep
<1>3. ActionsInv /\ ActionsUndisturbed /\ [Actions!Next]_(Actions!vars)
        => [Actions!CanceledIsFinal /\ Actions!DispatchIsApproved]_(Actions!vars)
  BY UndisturbedActs
<1> QED  BY <1>1, <1>2, <1>3, PTL DEF Actions!Spec

-----------------------------------------------------------------------------
(* Retention *)

\* What the properties rest on: a document that exists has a run, so that none is
\* dispatched for it later, and only documents that exist grow old.
RetainedInv ==
  /\ Retained!TypeOK /\ Retained!ArchivedIsUnused
  /\ \A r \in Conversions : doc[r] # "NONE" => run[r] # "NONE"
  /\ outdated \subseteq Retained!Staged

LEMMA RetainedInvInit == ASSUME Retained!RetentionAssumption, Retained!Init PROVE RetainedInv
<1> USE DEF Retained!Init
<1>1. Retained!Staged = {}  BY DEF Retained!Staged
<1>2. /\ raw \in [Artifacts -> Retained!RawStatus]
      /\ run \in [Conversions -> Retained!RunStatus]
      /\ doc \in [Conversions -> Retained!DocStatus]
  BY DEF Retained!RawStatus, Retained!RunStatus, Retained!DocStatus
<1>3. Retained!TypeOK  BY <1>1, <1>2 DEF Retained!TypeOK
<1>4. Retained!ArchivedIsUnused
  <2>1. \A a \in Artifacts : raw[a] # "ARCHIVED"  OBVIOUS
  <2>2. \A r \in Conversions : doc[r] # "ARCHIVED"  OBVIOUS
  <2> QED  BY <2>1, <2>2 DEF Retained!ArchivedIsUnused
<1> QED  BY <1>1, <1>3, <1>4 DEF RetainedInv

\* Documents that are updated, new ones among them, are the last in the order.
LEMMA TouchKeepsOrder ==
  ASSUME RetainedInv, NEW S \in SUBSET Conversions, Retained!Touch(S),
         Retained!Staged' = Retained!Staged \cup S,
         S \subseteq Retained!Staged \/ \E r : S = {r}
  PROVE  /\ before' \subseteq Retained!Staged' \X Retained!Staged'
         /\ \A q, r \in Retained!Staged' :
              <<q, r>> \in before' <=> q # r /\ <<r, q>> \notin before'
         /\ \A p, q, r \in Retained!Staged' :
              <<p, q>> \in before' /\ <<q, r>> \in before' => <<p, r>> \in before'
         /\ outdated' \subseteq Retained!Staged'
<1> DEFINE D == Retained!Staged
<1>1. /\ before \subseteq D \X D
      /\ \A q, r \in D : <<q, r>> \in before <=> q # r /\ <<r, q>> \notin before
      /\ \A p, q, r \in D : <<p, q>> \in before /\ <<q, r>> \in before => <<p, r>> \in before
  BY DEF RetainedInv, Retained!TypeOK
<1>2. /\ before' = {p \in before : p[1] \in S => p[2] \in S} \cup (D \ S) \X S
      /\ outdated' = outdated \ S
  BY DEF Retained!Touch
<1>3. Retained!Staged' = D \cup S /\ outdated \subseteq D  BY DEF RetainedInv
<1>4. S \subseteq D \/ \E r : S = {r}  OBVIOUS
<1> HIDE DEF D
<1>5. \A q, r : <<q, r>> \in before' <=>
        \/ <<q, r>> \in before /\ (q \in S => r \in S)
        \/ q \in D \ S /\ r \in S
  BY <1>1, <1>2
<1>6. before' \subseteq (D \cup S) \X (D \cup S)  BY <1>1, <1>2
<1>7. ASSUME NEW q \in D \cup S, NEW r \in D \cup S
      PROVE  <<q, r>> \in before' <=> q # r /\ <<r, q>> \notin before'
  <2>1. CASE q \in D /\ r \in D  BY <1>1, <1>5, <2>1
  <2>2. CASE q \notin D \/ r \notin D  BY <1>1, <1>4, <1>5, <2>2
  <2> QED  BY <2>1, <2>2
<1>8. ASSUME NEW p \in D \cup S, NEW q \in D \cup S, NEW r \in D \cup S,
             <<p, q>> \in before', <<q, r>> \in before'
      PROVE  <<p, r>> \in before'
  <2>1. <<p, q>> \in before => p \in D /\ q \in D  BY <1>1
  <2>2. <<q, r>> \in before => q \in D /\ r \in D  BY <1>1
  <2> QED  BY <1>1, <1>5, <1>8, <2>1, <2>2
<1> QED  BY <1>2, <1>3, <1>6, <1>7, <1>8

\* A step that writes neither artifacts nor documents nor their order.
LEMMA WorkStep ==
  ASSUME RetainedInv, UNCHANGED <<raw, doc, outdated, before>>,
         old' \subseteq Artifacts, run' \in [Conversions -> Retained!RunStatus],
         packaged' \subseteq Conversions, indexed' \subseteq packaged', cited' \subseteq indexed',
         \A r \in Conversions :
           /\ doc[r] # "NONE" => run'[r] # "NONE"
           /\ run'[r] \notin Retained!Ended =>
                doc[r] # "ARCHIVED" /\ raw[ArtifactOf[r]] # "ARCHIVED"
           /\ doc[r] = "ARCHIVED" => r \notin packaged' \cup cited'
  PROVE  RetainedInv'
<1>1. Retained!TypeOK'
  BY DEF RetainedInv, Retained!TypeOK, Retained!Staged
<1>2. Retained!ArchivedIsUnused'
  <2>1. \A a \in Artifacts : raw'[a] = "ARCHIVED" =>
          \A r \in Retained!RunsOf(a) :
            run'[r] \in Retained!Ended /\ doc'[r] \in {"NONE", "ARCHIVED"}
    BY DEF RetainedInv, Retained!ArchivedIsUnused, Retained!RunsOf
  <2>2. \A r \in Conversions : doc'[r] = "ARCHIVED" =>
          run'[r] \in Retained!Ended /\ r \notin packaged' \cup Retained!current' \cup cited'
    BY DEF Retained!current
  <2> QED  BY <2>1, <2>2 DEF Retained!ArchivedIsUnused, Retained!RunsOf, Retained!Ended
<1> QED  BY <1>1, <1>2 DEF RetainedInv, Retained!Staged

\* A step that writes the documents of S and says that they are updated.
LEMMA DocumentStep ==
  ASSUME RetainedInv, NEW S \in SUBSET Conversions, Retained!Touch(S),
         S \subseteq Retained!Staged \/ \E r : S = {r},
         raw' \in [Artifacts -> Retained!RawStatus],
         doc' \in [Conversions -> Retained!DocStatus],
         \A r \in Conversions : doc'[r] # "NONE" <=> doc[r] # "NONE" \/ r \in S,
         \A r \in Conversions : doc'[r] # "NONE" => run[r] # "NONE",
         UNCHANGED <<run, packaged, indexed, cited, old>>,
         \A a \in Artifacts : raw'[a] = "ARCHIVED" =>
           \A r \in Retained!RunsOf(a) :
             run[r] \in Retained!Ended /\ doc'[r] \in {"NONE", "ARCHIVED"},
         \A r \in Conversions : doc'[r] = "ARCHIVED" =>
           run[r] \in Retained!Ended /\ r \notin packaged \cup Retained!current \cup cited
  PROVE  RetainedInv'
<1>1. Retained!Staged' = Retained!Staged \cup S  BY DEF Retained!Staged
<1>2. Retained!TypeOK' /\ outdated' \subseteq Retained!Staged'
  <2>1. outdated' \subseteq Conversions  BY DEF Retained!Touch, RetainedInv, Retained!TypeOK
  <2> QED  BY <1>1, <2>1, TouchKeepsOrder DEF RetainedInv, Retained!TypeOK
<1>3. Retained!ArchivedIsUnused'
  BY DEF Retained!ArchivedIsUnused, Retained!RunsOf, Retained!current, Retained!Ended
<1> QED  BY <1>2, <1>3 DEF RetainedInv

\* The invariant, run by run.
LEMMA RetainedRuns ==
  ASSUME Retained!RetentionAssumption, RetainedInv
  PROVE  /\ raw \in [Artifacts -> Retained!RawStatus]
         /\ run \in [Conversions -> Retained!RunStatus]
         /\ doc \in [Conversions -> Retained!DocStatus]
         /\ packaged \subseteq Conversions /\ indexed \subseteq packaged /\ cited \subseteq indexed
         /\ old \subseteq Artifacts /\ outdated \subseteq Retained!Staged
         /\ \A r \in Conversions :
              /\ ArtifactOf[r] \in Artifacts
              /\ doc[r] # "NONE" => run[r] # "NONE"
              /\ run[r] \notin Retained!Ended =>
                   doc[r] # "ARCHIVED" /\ raw[ArtifactOf[r]] # "ARCHIVED"
              /\ doc[r] = "ARCHIVED" =>
                   run[r] \in Retained!Ended /\ r \notin packaged \cup Retained!current \cup cited
              /\ raw[ArtifactOf[r]] = "ARCHIVED" =>
                   run[r] \in Retained!Ended /\ doc[r] \in {"NONE", "ARCHIVED"}
BY DEF RetainedInv, Retained!TypeOK, Retained!RetentionAssumption,
       Retained!ArchivedIsUnused, Retained!RunsOf

LEMMA RetainedInvStep ==
  ASSUME Retained!RetentionAssumption, RetainedInv, [Retained!Next]_(Retained!vars)
  PROVE  RetainedInv'
<1> USE RetainedRuns
<1>1. ASSUME NEW a \in Artifacts, Retained!Register(a)  PROVE RetainedInv'
  <2>1. /\ raw[a] = "NONE" /\ raw' = [raw EXCEPT ![a] = "READY_FOR_CONVERSION"]
        /\ UNCHANGED <<doc, old, outdated, before, run, packaged, indexed, cited>>
    BY <1>1 DEF Retained!Register, Retained!workVars
  <2>2. \A b \in Artifacts : raw'[b] = "ARCHIVED" => raw[b] = "ARCHIVED"  BY <2>1
  <2>3. raw' \in [Artifacts -> Retained!RawStatus]  BY <2>1 DEF Retained!RawStatus
  <2> QED
    BY <2>1, <2>2, <2>3
       DEF RetainedInv, Retained!TypeOK, Retained!ArchivedIsUnused, Retained!Staged,
           Retained!current
<1>2. ASSUME NEW a \in Artifacts, Retained!ArtifactAges(a)  PROVE RetainedInv'
  BY <1>2, WorkStep DEF Retained!ArtifactAges, Retained!workVars
<1>3. ASSUME NEW r \in Conversions, Retained!dispatch(r)  PROVE RetainedInv'
  <2>1. /\ raw[ArtifactOf[r]] = "READY_FOR_CONVERSION" /\ run[r] = "NONE"
        /\ run' = [run EXCEPT ![r] = "LIVE"]
        /\ UNCHANGED <<raw, doc, packaged, indexed, cited, old, outdated, before>>
    BY <1>3 DEF Retained!dispatch
  <2>2. run' \in [Conversions -> Retained!RunStatus]  BY <2>1 DEF Retained!RunStatus
  <2> QED  BY <2>1, <2>2, WorkStep
<1>4. ASSUME NEW r \in Conversions, Retained!finalize(r)  PROVE RetainedInv'
  <2>1. /\ run[r] = "LIVE"
        /\ run' = [run EXCEPT ![r] = "COMPLETED"] \/ run' = [run EXCEPT ![r] = "FAILED"]
        /\ UNCHANGED <<raw, doc, packaged, indexed, cited, old, outdated, before>>
    BY <1>4 DEF Retained!finalize
  <2>2. run' \in [Conversions -> Retained!RunStatus]  BY <2>1 DEF Retained!RunStatus
  <2>3. \A q \in Conversions : q # r => run'[q] = run[q]  BY <2>1
  <2>4. run'[r] \in Retained!Ended /\ run'[r] # "NONE"  BY <2>1 DEF Retained!Ended
  <2> QED  BY <2>1, <2>2, <2>3, <2>4, WorkStep
<1>5. ASSUME NEW r \in Conversions, Retained!createVerified(r)  PROVE RetainedInv'
  BY <1>5, WorkStep DEF Retained!createVerified
<1>6. ASSUME NEW r \in Conversions, Retained!indexVerified(r)  PROVE RetainedInv'
  BY <1>6, WorkStep DEF Retained!indexVerified
<1>7. ASSUME NEW r \in Conversions, Retained!cite(r)  PROVE RetainedInv'
  BY <1>7, WorkStep DEF Retained!cite
<1>8. ASSUME NEW r \in Conversions, Retained!DocumentAges(r)  PROVE RetainedInv'
  BY <1>8
     DEF Retained!DocumentAges, Retained!workVars, RetainedInv, Retained!TypeOK,
         Retained!ArchivedIsUnused, Retained!Staged, Retained!current
<1>9. ASSUME NEW r \in Conversions, Retained!registerStaging(r)  PROVE RetainedInv'
  <2>1. /\ run[r] = "LIVE" /\ doc' = [doc EXCEPT ![r] = "GENERATED"]
        /\ Retained!Touch({r})
        /\ UNCHANGED <<raw, run, packaged, indexed, cited, old>>
    BY <1>9 DEF Retained!registerStaging, Retained!workVars
  <2>2. doc' \in [Conversions -> Retained!DocStatus]  BY <2>1 DEF Retained!DocStatus
  <2>3. "LIVE" \notin Retained!Ended  BY DEF Retained!Ended
  <2> QED  BY <2>1, <2>2, <2>3, DocumentStep DEF Retained!RunsOf
<1>10. ASSUME NEW r \in Conversions, NEW outcome \in {"READY", "BLOCKED"},
              Retained!verify(r, outcome)
       PROVE  RetainedInv'
  <2>1. /\ run[r] = "LIVE" /\ doc' = [doc EXCEPT ![r] = outcome]
        /\ Retained!Touch({r})
        /\ UNCHANGED <<raw, run, packaged, indexed, cited, old>>
    BY <1>10 DEF Retained!verify, Retained!workVars
  <2>2. doc' \in [Conversions -> Retained!DocStatus]  BY <2>1 DEF Retained!DocStatus
  <2>3. "LIVE" \notin Retained!Ended  BY DEF Retained!Ended
  <2> QED  BY <2>1, <2>2, <2>3, DocumentStep DEF Retained!RunsOf
<1>11. CASE Retained!executeRetentionPolicy
  <2> DEFINE S == {r \in Conversions : doc[r] # Retained!archiveStagingDocument(r)}
  <2>1. /\ raw' = [a \in Artifacts |-> Retained!archiveRawArtifact(a)]
        /\ doc' = [r \in Conversions |-> Retained!archiveStagingDocument(r)]
        /\ Retained!Touch(S)
        /\ UNCHANGED <<run, packaged, indexed, cited, old>>
    BY <1>11 DEF Retained!executeRetentionPolicy, Retained!workVars
  <2>2. \A r \in Conversions :
          \/ doc'[r] = doc[r] /\ r \notin S
          \/ doc'[r] = "ARCHIVED" /\ r \in S /\ r \in outdated /\ ~Retained!stagingHolds(r)
    BY <2>1 DEF Retained!archiveStagingDocument, Retained!stagingCandidates
  <2>3. \A a \in Artifacts :
          \/ raw'[a] = raw[a]
          \/ raw'[a] = "ARCHIVED" /\ ~Retained!rawHolds(a)
    BY <2>1 DEF Retained!archiveRawArtifact
  <2>4. raw' \in [Artifacts -> Retained!RawStatus]  BY <2>1, <2>3 DEF Retained!RawStatus
  <2>5. doc' \in [Conversions -> Retained!DocStatus]  BY <2>1, <2>2 DEF Retained!DocStatus
  <2>6. S \subseteq Retained!Staged
    BY <2>2 DEF Retained!Staged
  <2> HIDE DEF S
  <2>7. \A a \in Artifacts : raw'[a] = "ARCHIVED" =>
          \A r \in Retained!RunsOf(a) :
            run[r] \in Retained!Ended /\ doc'[r] \in {"NONE", "ARCHIVED"}
    BY <2>2, <2>3 DEF Retained!rawHolds, Retained!RunsOf
  <2>8. \A r \in Conversions : doc'[r] = "ARCHIVED" =>
          run[r] \in Retained!Ended /\ r \notin packaged \cup Retained!current \cup cited
    BY <2>2 DEF Retained!stagingHolds
  <2>9. \A r \in Conversions :
          /\ doc'[r] # "NONE" <=> doc[r] # "NONE" \/ r \in S
          /\ doc'[r] # "NONE" => run[r] # "NONE"
    BY <2>2, <2>6 DEF Retained!Staged
  <2>10. S \in SUBSET Conversions  BY <2>6 DEF Retained!Staged
  <2> QED  BY <2>1, <2>4, <2>5, <2>6, <2>7, <2>8, <2>9, <2>10, DocumentStep
<1>12. CASE UNCHANGED Retained!vars
  BY <1>12
     DEF Retained!vars, RetainedInv, Retained!TypeOK, Retained!ArchivedIsUnused,
         Retained!Staged, Retained!current
<1> QED
  BY <1>1, <1>2, <1>3, <1>4, <1>5, <1>6, <1>7, <1>8, <1>9, <1>10, <1>11, <1>12
     DEF Retained!Next

\* Nothing in use is archived, whenever its use began: executeRetentionPolicy sees
\* every hold that anything can still exercise.
THEOREM ArchivedStaysUnused ==
  ASSUME Retained!RetentionAssumption
  PROVE  Retained!Spec => []ArchivedIsUnused
<1>1. Retained!Init => RetainedInv  BY RetainedInvInit
<1>2. RetainedInv /\ [Retained!Next]_(Retained!vars) => RetainedInv'  BY RetainedInvStep
<1>3. RetainedInv => ArchivedIsUnused  BY DEF RetainedInv, ArchivedIsUnused
<1> QED  BY <1>1, <1>2, <1>3, PTL DEF Retained!Spec

\* No step removes evidence or takes back an archiving: executeRetentionPolicy
\* updates the rows of what it archives.
THEOREM RetentionKeepsEvidence ==
  ASSUME Retained!RetentionAssumption
  PROVE  Retained!Spec => [][Retained!EvidenceIsKept]_(Retained!vars)
<1>1. ASSUME RetainedInv, Retained!Next  PROVE Retained!EvidenceIsKept
  <2> USE RetainedRuns, <1>1
  <2>1. CASE Retained!executeRetentionPolicy
    BY <2>1
       DEF Retained!executeRetentionPolicy, Retained!archiveRawArtifact,
           Retained!archiveStagingDocument, Retained!EvidenceIsKept
  <2>2. CASE \E a \in Artifacts : Retained!Register(a) \/ Retained!ArtifactAges(a)
    BY <2>2 DEF Retained!Register, Retained!ArtifactAges, Retained!EvidenceIsKept
  <2>3. CASE \E r \in Conversions : Retained!registerStaging(r)
    BY <2>3 DEF Retained!registerStaging, Retained!EvidenceIsKept
  <2>4. CASE \E r \in Conversions, outcome \in {"READY", "BLOCKED"} :
               Retained!verify(r, outcome)
    BY <2>4 DEF Retained!verify, Retained!EvidenceIsKept
  <2>5. CASE \E r \in Conversions :
               \/ Retained!dispatch(r) \/ Retained!finalize(r) \/ Retained!createVerified(r)
               \/ Retained!indexVerified(r) \/ Retained!cite(r) \/ Retained!DocumentAges(r)
    BY <2>5
       DEF Retained!dispatch, Retained!finalize, Retained!createVerified,
           Retained!indexVerified, Retained!cite, Retained!DocumentAges,
           Retained!EvidenceIsKept
  <2> QED  BY <2>1, <2>2, <2>3, <2>4, <2>5 DEF Retained!Next
<1>2. RetainedInv /\ [Retained!Next]_(Retained!vars) =>
        RetainedInv' /\ [Retained!EvidenceIsKept]_(Retained!vars)
  BY <1>1, RetainedInvStep
<1>3. Retained!Init => RetainedInv  BY RetainedInvInit
<1> QED  BY <1>2, <1>3, PTL DEF Retained!Spec

-----------------------------------------------------------------------------
(* Exports to the Vault *)

ExportCall ==
  [at : {"IDLE", "CONTINUE", "PROJECT", "WRITE", "RECORD", "FINALIZE"}, item : Nat,
   found : {"NONE", "WRITTEN", "ALREADY_PRESENT"}]

ExportsTyped ==
  /\ binding \in Exports!Binding
  /\ binding.status # "NONE" => binding.root \in Roots /\ binding.revision \in 1 .. MaxRevisions
  /\ files \in [Exports!Path -> Contents \cup {None}]
  /\ holds \subseteq Exports!Path \X Contents
  /\ ready \subseteq Documents
  /\ exports \in Seq(Exports!Export)
  /\ export \in ExportCall
  /\ export.at # "IDLE" => export.item \in 1 .. Len(exports)
  /\ edits \in 0 .. MaxEdits /\ ends \in 0 .. MaxEnds

\* Of the files that are there the history knows the contents.
FilesAreHeld == \A f \in Exports!Path : files[f] # None => <<f, files[f]>> \in holds

OnePendingRun ==
  \A i, j \in 1 .. Len(exports) :
    /\ exports[i].document = exports[j].document
    /\ exports[i].state = "PENDING" /\ exports[j].state = "PENDING"
    => i = j

OneRunPerKey ==
  \A i, j \in 1 .. Len(exports) :
    /\ exports[i].document = exports[j].document
    /\ exports[i].root = exports[j].root /\ exports[i].revision = exports[j].revision
    => i = j

\* How far the request in progress is, the run and the Vault agree: it writes under
\* the binding of its run, records what is in the Vault and finalizes a receipt.
CallAgrees ==
  /\ export.at \in {"PROJECT", "WRITE"} => Exports!bindingMatchesRun(export.item)
  /\ export.at = "RECORD" =>
       /\ export.found # "NONE"
       /\ <<Exports!Destination(export.item), Exports!Expected(export.item)>> \in holds
  /\ export.at = "FINALIZE" => exports[export.item].receipt # "NONE"

ExportsInv ==
  /\ ExportsTyped /\ FilesAreHeld /\ OnePendingRun /\ OneRunPerKey
  /\ Exports!SucceededReachedTheVault /\ CallAgrees

LEMMA ExportsInvIsEnough ==
  ASSUME Exports!VaultAssumption, ExportsInv PROVE OneUnresolvedDestination
<1>1. Exports!ExportTypeOK
  BY DEF ExportsInv, ExportsTyped, Exports!ExportTypeOK
<1>2. \A d \in Documents : \A i, j \in Exports!Pending(d) : i = j
  BY DEF Exports!Pending, ExportsInv, OnePendingRun
<1> QED
  BY <1>1, <1>2
     DEF ExportsInv, OneRunPerKey, OneUnresolvedDestination, Exports!OneUnresolvedDestination

LEMMA ExportsInvInit ==
  ASSUME Exports!VaultAssumption, Exports!ExportInit PROVE ExportsInv
<1> USE DEF Exports!VaultAssumption, Exports!ExportInit
<1>1. ExportsTyped
  <2>1. binding \in Exports!Binding  BY DEF Exports!Binding
  <2>2. export \in ExportCall /\ export.at = "IDLE"  BY DEF ExportCall, Exports!Idle
  <2>3. files \in [Exports!Path -> Contents \cup {None}]  OBVIOUS
  <2> QED  BY <2>1, <2>2, <2>3 DEF ExportsTyped
<1>2. FilesAreHeld /\ OnePendingRun /\ OneRunPerKey /\ Exports!SucceededReachedTheVault
  BY DEF FilesAreHeld, OnePendingRun, OneRunPerKey, Exports!SucceededReachedTheVault
<1>3. CallAgrees  BY DEF CallAgrees, Exports!Idle
<1> QED  BY <1>1, <1>2, <1>3 DEF ExportsInv

\* Where a run goes and what it writes there.
LEMMA RunsHavePlaces ==
  ASSUME Exports!VaultAssumption, ExportsTyped, NEW i \in 1 .. Len(exports)
  PROVE  /\ exports[i] \in Exports!Export
         /\ Exports!Destination(i) \in Exports!Path
         /\ Exports!Expected(i) \in Contents /\ Exports!Expected(i) # None
<1>1. exports[i] \in Exports!Export  BY DEF ExportsTyped
<1>2. exports[i].document \in Documents /\ exports[i].root \in Roots
  BY <1>1 DEF Exports!Export
<1> QED
  BY <1>1, <1>2
     DEF Exports!VaultAssumption, Exports!Destination, Exports!Expected, Exports!Path

\* A step that adds no run and changes none: only where the request is, the binding
\* while none is in progress, and the files may differ.
LEMMA PlaceStep ==
  ASSUME ExportsInv, UNCHANGED exports, ExportsTyped', FilesAreHeld', CallAgrees',
         holds \subseteq holds'
  PROVE  ExportsInv'
<1>1. OnePendingRun' /\ OneRunPerKey'
  BY DEF ExportsInv, OnePendingRun, OneRunPerKey
<1>2. Exports!SucceededReachedTheVault'
  BY DEF ExportsInv, Exports!SucceededReachedTheVault, Exports!Destination, Exports!Expected
<1> QED  BY <1>1, <1>2 DEF ExportsInv

LEMMA SubmitStep ==
  ASSUME Exports!VaultAssumption, ExportsInv, NEW d \in Documents, Exports!submit(d)
  PROVE  ExportsInv'
<1>1. export.at = "IDLE" /\ UNCHANGED <<binding, files, holds, ready, edits, ends>>
  BY DEF Exports!submit, Exports!Resting
<1>2. CASE (\E i \in Exports!Pending(d) : Exports!Goes("CONTINUE", i)) /\ UNCHANGED exports
  <2>1. PICK i \in Exports!Pending(d) : export' = [at |-> "CONTINUE", item |-> i, found |-> "NONE"]
    BY <1>2 DEF Exports!Goes
  <2>2. i \in 1 .. Len(exports)  BY DEF Exports!Pending
  <2>3. export' \in ExportCall /\ export'.at = "CONTINUE" /\ export'.item = i
    BY <2>1, <2>2 DEF ExportCall, ExportsInv, ExportsTyped
  <2>4. ExportsTyped' /\ FilesAreHeld' /\ CallAgrees'
    BY <1>1, <1>2, <2>2, <2>3 DEF ExportsInv, ExportsTyped, FilesAreHeld, CallAgrees
  <2> QED  BY <1>1, <1>2, <2>4, PlaceStep
<1>3. CASE /\ Exports!Pending(d) = {}
           /\ binding.status = "ACTIVE"
           /\ ~ \E i \in 1 .. Len(exports) :
                  /\ exports[i].document = d
                  /\ exports[i].root = binding.root /\ exports[i].revision = binding.revision
           /\ exports' = Append(exports, [document |-> d, root |-> binding.root,
                                          revision |-> binding.revision,
                                          state |-> "PENDING", receipt |-> "NONE"])
           /\ Exports!Goes("CONTINUE", Len(exports) + 1)
  <2> DEFINE new == [document |-> d, root |-> binding.root, revision |-> binding.revision,
                     state |-> "PENDING", receipt |-> "NONE"]
             n == Len(exports)
  <2>1. new \in Exports!Export
    BY <1>3 DEF ExportsInv, ExportsTyped, Exports!Export
  <2>2. /\ new.document = d /\ new.root = binding.root /\ new.revision = binding.revision
        /\ new.state = "PENDING" /\ new.receipt = "NONE"
    OBVIOUS
  <2>3. exports' = Append(exports, new)  BY <1>3
  <2>4. export' = [at |-> "CONTINUE", item |-> n + 1, found |-> "NONE"]
    BY <1>3 DEF Exports!Goes
  <2>5. n \in Nat /\ exports \in Seq(Exports!Export)  BY DEF ExportsInv, ExportsTyped
  <2> HIDE DEF new, n
  <2>6. /\ exports' \in Seq(Exports!Export) /\ 1 .. Len(exports') = 1 .. n + 1
        /\ exports'[n + 1] = new
        /\ 1 .. Len(exports) = 1 .. n
        /\ \A i \in 1 .. n : i \in 1 .. Len(exports') /\ exports'[i] = exports[i]
    BY <2>1, <2>3, <2>5 DEF n
  <2>7. ExportsTyped'
    <3>1. export' \in ExportCall /\ export'.item = n + 1  BY <2>4, <2>5 DEF ExportCall
    <3>2. n + 1 \in 1 .. n + 1  BY <2>5
    <3> QED  BY <1>1, <2>6, <3>1, <3>2 DEF ExportsInv, ExportsTyped
  <2>8. OnePendingRun'
    <3>1. \A i \in 1 .. n : ~(exports[i].document = d /\ exports[i].state = "PENDING")
      BY <1>3, <2>6 DEF Exports!Pending
    <3> QED  BY <2>2, <2>5, <2>6, <3>1 DEF ExportsInv, OnePendingRun
  <2>9. OneRunPerKey'
    <3>1. \A i \in 1 .. n : ~ (/\ exports[i].document = d
                              /\ exports[i].root = binding.root
                              /\ exports[i].revision = binding.revision)
      BY <1>3, <2>6
    <3>2. ASSUME NEW i \in 1 .. n + 1, NEW j \in 1 .. n + 1,
                 exports'[i].document = exports'[j].document,
                 exports'[i].root = exports'[j].root,
                 exports'[i].revision = exports'[j].revision
          PROVE  i = j
      <4>1. CASE i \in 1 .. n /\ j \in 1 .. n
        BY <2>6, <3>2, <4>1 DEF ExportsInv, OneRunPerKey
      <4>2. CASE i = n + 1 /\ j \in 1 .. n  BY <2>2, <2>6, <3>1, <3>2, <4>2
      <4>3. CASE i \in 1 .. n /\ j = n + 1  BY <2>2, <2>6, <3>1, <3>2, <4>3
      <4> QED  BY <2>5, <4>1, <4>2, <4>3
    <3> QED  BY <2>6, <3>2 DEF OneRunPerKey
  <2>10. Exports!SucceededReachedTheVault'
    <3>1. \A i \in 1 .. n : /\ Exports!Destination(i)' = Exports!Destination(i)
                              /\ Exports!Expected(i)' = Exports!Expected(i)
      BY <2>6 DEF Exports!Destination, Exports!Expected
    <3>2. \A i \in 1 .. n + 1 : i \in 1 .. n \/ i = n + 1  BY <2>5
    <3> QED
      BY <1>1, <2>2, <2>6, <3>1, <3>2 DEF ExportsInv, Exports!SucceededReachedTheVault
  <2>11. FilesAreHeld' /\ CallAgrees'
    BY <1>1, <2>4 DEF ExportsInv, FilesAreHeld, CallAgrees
  <2> QED  BY <2>7, <2>8, <2>9, <2>10, <2>11 DEF ExportsInv
<1> QED  BY <1>2, <1>3 DEF Exports!submit

\* A run is updated in place: its receipt, or its state.
LEMMA UpdateStep ==
  ASSUME Exports!VaultAssumption, ExportsInv, NEW i \in 1 .. Len(exports), NEW row,
         exports' = [exports EXCEPT ![i] = row],
         row \in Exports!Export, row.document = exports[i].document,
         row.root = exports[i].root, row.revision = exports[i].revision,
         row.state = "PENDING" => exports[i].state = "PENDING",
         row.receipt # "NONE",
         <<Exports!Destination(i), Exports!Expected(i)>> \in holds,
         export' \in ExportCall,
         \/ export'.at = "IDLE"
         \/ export'.at = "FINALIZE" /\ export'.item = i,
         UNCHANGED <<binding, files, holds, ready, edits, ends>>
  PROVE  ExportsInv'
<1>1. /\ exports' \in Seq(Exports!Export) /\ Len(exports') = Len(exports)
      /\ exports'[i] = row /\ \A j \in 1 .. Len(exports) : j # i => exports'[j] = exports[j]
  BY DEF ExportsInv, ExportsTyped
<1>2. \A j \in 1 .. Len(exports) :
        /\ exports'[j].document = exports[j].document
        /\ exports'[j].root = exports[j].root /\ exports'[j].revision = exports[j].revision
        /\ exports'[j].state = "PENDING" => exports[j].state = "PENDING"
  BY <1>1
<1>3. ExportsTyped'  BY <1>1 DEF ExportsInv, ExportsTyped
<1>4. OnePendingRun' /\ OneRunPerKey'
  BY <1>1, <1>2 DEF ExportsInv, OnePendingRun, OneRunPerKey
<1>5. Exports!SucceededReachedTheVault'
  <2>1. \A j \in 1 .. Len(exports) : /\ Exports!Destination(j)' = Exports!Destination(j)
                                       /\ Exports!Expected(j)' = Exports!Expected(j)
    BY <1>2 DEF Exports!Destination, Exports!Expected
  <2> QED  BY <1>1, <2>1 DEF ExportsInv, Exports!SucceededReachedTheVault
<1>6. FilesAreHeld' /\ CallAgrees'
  BY <1>1 DEF ExportsInv, FilesAreHeld, CallAgrees
<1> QED  BY <1>3, <1>4, <1>5, <1>6 DEF ExportsInv

\* A step of the request in progress that only moves it.
LEMMA MoveStep ==
  ASSUME ExportsInv, export' \in ExportCall,
         export'.at # "IDLE" => export'.item \in 1 .. Len(exports),
         CallAgrees', UNCHANGED <<binding, files, holds, ready, exports, edits, ends>>
  PROVE  ExportsInv'
<1>1. ExportsTyped' /\ FilesAreHeld'  BY DEF ExportsInv, ExportsTyped, FilesAreHeld
<1> QED  BY <1>1, PlaceStep

LEMMA ContinueStep ==
  ASSUME Exports!VaultAssumption, ExportsInv, Exports!Continue PROVE ExportsInv'
<1> DEFINE i == export.item
           next == Exports!continuePending(i)
<1>1. /\ export.at = "CONTINUE"
      /\ export' = IF next.at = "IDLE" THEN Exports!Idle
                   ELSE [at |-> next.at, item |-> i, found |-> next.found]
      /\ UNCHANGED <<binding, files, holds, ready, exports, edits, ends>>
  BY DEF Exports!Continue
<1>2. i \in 1 .. Len(exports) /\ i \in Nat  BY <1>1 DEF ExportsInv, ExportsTyped
<1>3. \/ next = [at |-> "FINALIZE", found |-> "NONE"] /\ exports[i].receipt # "NONE"
      \/ next = [at |-> "IDLE", found |-> "NONE"]
      \/ /\ next = [at |-> "RECORD", found |-> "ALREADY_PRESENT"]
         /\ files[Exports!Destination(i)] = Exports!Expected(i)
      \/ next = [at |-> "PROJECT", found |-> "NONE"] /\ Exports!bindingMatchesRun(i)
  BY <1>2, RunsHavePlaces DEF Exports!continuePending, ExportsInv
<1>4. \/ export' = Exports!Idle
      \/ export' = [at |-> "FINALIZE", item |-> i, found |-> "NONE"] /\ exports[i].receipt # "NONE"
      \/ /\ export' = [at |-> "RECORD", item |-> i, found |-> "ALREADY_PRESENT"]
         /\ files[Exports!Destination(i)] = Exports!Expected(i)
      \/ /\ export' = [at |-> "PROJECT", item |-> i, found |-> "NONE"]
         /\ Exports!bindingMatchesRun(i)
  <2> HIDE DEF i, next
  <2> QED  BY <1>1, <1>3
<1>5. export' \in ExportCall /\ (export'.at # "IDLE" => export'.item = i)
  BY <1>2, <1>4 DEF ExportCall, Exports!Idle
<1>6. files[Exports!Destination(i)] = Exports!Expected(i) =>
        <<Exports!Destination(i), Exports!Expected(i)>> \in holds
  BY <1>2, RunsHavePlaces DEF ExportsInv, FilesAreHeld
<1>7. CallAgrees'
  <2>0. UNCHANGED <<binding, exports, holds>>  BY <1>1
  <2> HIDE DEF i, next
  <2>1. CASE export' = Exports!Idle  BY <2>1 DEF CallAgrees, Exports!Idle
  <2>2. CASE /\ export' = [at |-> "FINALIZE", item |-> i, found |-> "NONE"]
             /\ exports[i].receipt # "NONE"
    BY <2>0, <2>2 DEF CallAgrees
  <2>3. CASE /\ export' = [at |-> "RECORD", item |-> i, found |-> "ALREADY_PRESENT"]
             /\ files[Exports!Destination(i)] = Exports!Expected(i)
    BY <1>6, <2>0, <2>3 DEF CallAgrees, Exports!Destination, Exports!Expected
  <2>4. CASE /\ export' = [at |-> "PROJECT", item |-> i, found |-> "NONE"]
             /\ Exports!bindingMatchesRun(i)
    BY <2>0, <2>4 DEF CallAgrees, Exports!bindingMatchesRun
  <2> QED  BY <1>4, <2>1, <2>2, <2>3, <2>4
<1> QED  BY <1>1, <1>2, <1>5, <1>7, MoveStep

LEMMA ProjectStep ==
  ASSUME Exports!VaultAssumption, ExportsInv, Exports!project PROVE ExportsInv'
<1> DEFINE i == export.item
           file == files[Exports!Destination(i)]
<1>1. /\ export.at = "PROJECT"
      /\ \/ export' = [export EXCEPT !.at = "WRITE"]
         \/ /\ file = Exports!Expected(i)
            /\ export' = [export EXCEPT !.at = "RECORD", !.found = "ALREADY_PRESENT"]
         \/ export' = Exports!Idle
      /\ UNCHANGED <<binding, files, holds, ready, exports, edits, ends>>
  BY DEF Exports!project
<1>2. i \in 1 .. Len(exports) /\ export \in ExportCall  BY <1>1 DEF ExportsInv, ExportsTyped
<1>3. Exports!bindingMatchesRun(i)  BY <1>1 DEF ExportsInv, CallAgrees
<1>4. file = Exports!Expected(i) => <<Exports!Destination(i), Exports!Expected(i)>> \in holds
  BY <1>2, RunsHavePlaces DEF ExportsInv, FilesAreHeld
<1>5. export' \in ExportCall /\ (export'.at # "IDLE" => export'.item = i)
  <2>1. Exports!Idle \in ExportCall /\ Exports!Idle.at = "IDLE"
    BY DEF ExportCall, Exports!Idle
  <2>2. /\ [export EXCEPT !.at = "WRITE"] \in ExportCall
        /\ [export EXCEPT !.at = "WRITE"].item = i
    BY <1>2 DEF ExportCall
  <2>3. /\ [export EXCEPT !.at = "RECORD", !.found = "ALREADY_PRESENT"] \in ExportCall
        /\ [export EXCEPT !.at = "RECORD", !.found = "ALREADY_PRESENT"].item = i
    BY <1>2 DEF ExportCall
  <2> QED  BY <1>1, <2>1, <2>2, <2>3
<1>6. CallAgrees'
  <2>1. CASE export' = [export EXCEPT !.at = "WRITE"]
    BY <1>1, <1>2, <1>3, <2>1 DEF CallAgrees, ExportCall, Exports!bindingMatchesRun
  <2>2. CASE /\ file = Exports!Expected(i)
             /\ export' = [export EXCEPT !.at = "RECORD", !.found = "ALREADY_PRESENT"]
    BY <1>1, <1>2, <1>4, <2>2
       DEF CallAgrees, ExportCall, Exports!Destination, Exports!Expected
  <2>3. CASE export' = Exports!Idle  BY <2>3 DEF CallAgrees, Exports!Idle
  <2> QED  BY <1>1, <2>1, <2>2, <2>3
<1> QED  BY <1>1, <1>2, <1>5, <1>6, MoveStep

LEMMA WritesStep ==
  ASSUME Exports!VaultAssumption, ExportsInv, Exports!projectWrites PROVE ExportsInv'
<1> DEFINE i == export.item
           f == Exports!Destination(i)
           c == Exports!Expected(i)
<1>1. /\ export.at = "WRITE"
      /\ files' = [files EXCEPT ![f] = c] /\ holds' = holds \cup {<<f, c>>}
      /\ export' = [export EXCEPT !.at = "RECORD", !.found = "WRITTEN"]
      /\ UNCHANGED <<binding, ready, exports, edits, ends>>
  BY DEF Exports!projectWrites
<1>2. i \in 1 .. Len(exports) /\ export \in ExportCall  BY <1>1 DEF ExportsInv, ExportsTyped
<1>3. f \in Exports!Path /\ c \in Contents  BY <1>2, RunsHavePlaces DEF ExportsInv
<1>4. /\ export' \in ExportCall /\ export'.item = i /\ export'.at = "RECORD"
      /\ export'.found = "WRITTEN"
  BY <1>1, <1>2 DEF ExportCall
<1>6. CallAgrees'
  BY <1>1, <1>4 DEF CallAgrees, Exports!Destination, Exports!Expected
<1> HIDE DEF f, c
<1>7. ExportsTyped'
  BY <1>1, <1>2, <1>3, <1>4 DEF ExportsInv, ExportsTyped
<1>8. FilesAreHeld'
  BY <1>1, <1>3 DEF ExportsInv, ExportsTyped, FilesAreHeld
<1> QED  BY <1>1, <1>6, <1>7, <1>8, PlaceStep
LEMMA ExportsInvStep ==
  ASSUME Exports!VaultAssumption, ExportsInv,
         [Exports!ExportNext \/ Exports!Crash]_(Exports!exportVars)
  PROVE  ExportsInv'
<1>1. ASSUME NEW root \in Roots, Exports!configure(root) PROVE ExportsInv'
  <2>1. /\ export.at = "IDLE" /\ binding.revision < MaxRevisions
        /\ binding' = [status |-> IF binding.status = "NONE" THEN "ACTIVE" ELSE binding.status,
                       root |-> root, revision |-> binding.revision + 1]
        /\ UNCHANGED <<files, holds, ready, exports, export, edits, ends>>
    BY <1>1 DEF Exports!configure, Exports!Resting
  <2>2. binding' \in Exports!Binding /\ binding'.root \in Roots /\ binding'.revision \in 1 .. MaxRevisions
    BY <2>1 DEF ExportsInv, ExportsTyped, Exports!Binding, Exports!VaultAssumption
  <2>3. ExportsTyped' /\ FilesAreHeld' /\ CallAgrees'
    BY <2>1, <2>2 DEF ExportsInv, ExportsTyped, FilesAreHeld, CallAgrees
  <2> QED  BY <2>1, <2>3, PlaceStep
<1>2. ASSUME NEW st \in {"ACTIVE", "DISABLED"}, Exports!setStatus(st) PROVE ExportsInv'
  <2>1. /\ export.at = "IDLE" /\ binding.status # "NONE" /\ binding.revision < MaxRevisions
        /\ binding' = [binding EXCEPT !.status = st, !.revision = @ + 1]
        /\ UNCHANGED <<files, holds, ready, exports, export, edits, ends>>
    BY <1>2 DEF Exports!setStatus, Exports!Resting
  <2>2. binding' \in Exports!Binding /\ binding'.root \in Roots /\ binding'.revision \in 1 .. MaxRevisions
    <3>1. /\ binding \in Exports!Binding /\ binding.revision \in 0 .. MaxRevisions
          /\ binding.root \in Roots /\ binding.revision \in 1 .. MaxRevisions
      BY <2>1 DEF ExportsInv, ExportsTyped, Exports!Binding
    <3>2. binding.revision + 1 \in 1 .. MaxRevisions /\ binding.revision + 1 \in 0 .. MaxRevisions
      BY <2>1, <3>1 DEF Exports!VaultAssumption
    <3>3. binding' = [status |-> st, root |-> binding.root, revision |-> binding.revision + 1]
      BY <2>1, <3>1 DEF Exports!Binding
    <3> QED  BY <3>1, <3>2, <3>3 DEF Exports!Binding
  <2>3. ExportsTyped' /\ FilesAreHeld' /\ CallAgrees'
    BY <2>1, <2>2 DEF ExportsInv, ExportsTyped, FilesAreHeld, CallAgrees
  <2> QED  BY <2>1, <2>3, PlaceStep
<1>3. ASSUME NEW d \in Documents, Exports!submit(d) PROVE ExportsInv'
  BY <1>3, SubmitStep
<1>4. ASSUME NEW d \in Documents, Exports!Archive(d) PROVE ExportsInv'
  <2>1. /\ ready' \subseteq ready
        /\ UNCHANGED <<binding, files, holds, exports, export, edits, ends>>
    BY <1>4 DEF Exports!Archive
  <2>2. ExportsTyped' /\ FilesAreHeld' /\ CallAgrees'
    BY <2>1
       DEF ExportsInv, ExportsTyped, FilesAreHeld, CallAgrees, Exports!bindingMatchesRun,
           Exports!Destination, Exports!Expected
  <2> QED  BY <2>1, <2>2, PlaceStep
<1>5. CASE Exports!Continue  BY <1>5, ContinueStep
<1>6. CASE Exports!project  BY <1>6, ProjectStep
<1>7. CASE Exports!projectWrites  BY <1>7, WritesStep
<1>8. CASE Exports!recordProjectionReceipt
  <2> DEFINE i == export.item
             row == [exports[i] EXCEPT !.receipt = export.found]
  <2>1. /\ export.at = "RECORD" /\ exports' = [exports EXCEPT ![i] = row]
        /\ export' = [at |-> "FINALIZE", item |-> i, found |-> "NONE"]
        /\ UNCHANGED <<binding, files, holds, ready, edits, ends>>
    BY <1>8 DEF Exports!recordProjectionReceipt, Exports!Goes
  <2>2. i \in 1 .. Len(exports) /\ i \in Nat /\ export \in ExportCall
    BY <2>1 DEF ExportsInv, ExportsTyped
  <2>3. exports[i] \in Exports!Export  BY <2>2, RunsHavePlaces DEF ExportsInv
  <2>4. /\ export.found \in {"WRITTEN", "ALREADY_PRESENT"}
        /\ <<Exports!Destination(i), Exports!Expected(i)>> \in holds
    BY <2>1, <2>2 DEF ExportsInv, CallAgrees, ExportCall
  <2>5. /\ row \in Exports!Export /\ row.document = exports[i].document
        /\ row.root = exports[i].root /\ row.revision = exports[i].revision
        /\ row.state = exports[i].state /\ row.receipt # "NONE"
    BY <2>3, <2>4 DEF Exports!Export
  <2>6. export' \in ExportCall /\ export'.at = "FINALIZE" /\ export'.item = i
    BY <2>1, <2>2 DEF ExportCall
  <2> HIDE DEF i, row
  <2> QED  BY <2>1, <2>2, <2>4, <2>5, <2>6, UpdateStep
<1>9. CASE Exports!finalize
  <2> DEFINE i == export.item
             row == [exports[i] EXCEPT !.state = "SUCCEEDED"]
  <2>1. /\ export.at = "FINALIZE" /\ exports' = [exports EXCEPT ![i] = row]
        /\ export' = Exports!Idle
        /\ UNCHANGED <<binding, files, holds, ready, edits, ends>>
    BY <1>9 DEF Exports!finalize, Exports!Returns
  <2>2. i \in 1 .. Len(exports) /\ exports[i] \in Exports!Export
    BY <2>1, RunsHavePlaces DEF ExportsInv, ExportsTyped
  <2>3. /\ exports[i].receipt # "NONE"
        /\ <<Exports!Destination(i), Exports!Expected(i)>> \in holds
    BY <2>1, <2>2 DEF ExportsInv, CallAgrees, Exports!SucceededReachedTheVault
  <2>4. /\ row \in Exports!Export /\ row.document = exports[i].document
        /\ row.root = exports[i].root /\ row.revision = exports[i].revision
        /\ row.state = "SUCCEEDED" /\ row.receipt # "NONE"
    BY <2>2, <2>3 DEF Exports!Export
  <2>5. export' \in ExportCall /\ export'.at = "IDLE"
    BY <2>1 DEF ExportCall, Exports!Idle
  <2> HIDE DEF i, row
  <2> QED  BY <2>1, <2>2, <2>3, <2>4, <2>5, UpdateStep
<1>10. ASSUME NEW f \in Exports!Path, NEW content \in Contents \cup {None},
              Exports!Edit(f, content)
       PROVE  ExportsInv'
  <2>1. /\ files' = [files EXCEPT ![f] = content]
        /\ holds' = IF content = None THEN holds ELSE holds \cup {<<f, content>>}
        /\ edits < MaxEdits /\ edits' = edits + 1
        /\ UNCHANGED <<binding, ready, exports, export, ends>>
    BY <1>10 DEF Exports!Edit
  <2>2. holds' \subseteq Exports!Path \X Contents /\ holds \subseteq holds'
    BY <2>1 DEF ExportsInv, ExportsTyped
  <2>3. edits' \in 0 .. MaxEdits
    BY <2>1 DEF ExportsInv, ExportsTyped, Exports!VaultAssumption
  <2>4. ExportsTyped'  BY <2>1, <2>2, <2>3 DEF ExportsInv, ExportsTyped
  <2>5. FilesAreHeld'
    BY <2>1, <2>2 DEF ExportsInv, ExportsTyped, FilesAreHeld
  <2>6. CallAgrees'
    BY <2>1, <2>2
       DEF ExportsInv, CallAgrees, Exports!bindingMatchesRun, Exports!Destination,
           Exports!Expected
  <2> QED  BY <2>1, <2>2, <2>4, <2>5, <2>6, PlaceStep
<1>11. CASE Exports!Crash
  <2>1. /\ ends < MaxEnds /\ ends' = ends + 1 /\ export' = Exports!Idle
        /\ UNCHANGED <<binding, files, holds, ready, exports, edits>>
    BY <1>11 DEF Exports!Crash, Exports!Returns
  <2>2. export' \in ExportCall /\ export'.at = "IDLE"
    BY <2>1 DEF ExportCall, Exports!Idle
  <2>3. ends' \in 0 .. MaxEnds
    BY <2>1 DEF ExportsInv, ExportsTyped, Exports!VaultAssumption
  <2>4. ExportsTyped' /\ FilesAreHeld' /\ CallAgrees'
    BY <2>1, <2>2, <2>3 DEF ExportsInv, ExportsTyped, FilesAreHeld, CallAgrees
  <2> QED  BY <2>1, <2>4, PlaceStep
<1>12. CASE UNCHANGED Exports!exportVars
  <2>1. UNCHANGED <<binding, files, holds, ready, exports, export, edits, ends>>
    BY <1>12 DEF Exports!exportVars
  <2>2. ExportsTyped' /\ FilesAreHeld' /\ CallAgrees'
    BY <2>1
       DEF ExportsInv, ExportsTyped, FilesAreHeld, CallAgrees, Exports!bindingMatchesRun,
           Exports!Destination, Exports!Expected
  <2> QED  BY <2>1, <2>2, PlaceStep
<1> QED
  BY <1>1, <1>2, <1>3, <1>4, <1>5, <1>6, <1>7, <1>8, <1>9, <1>10, <1>11, <1>12
     DEF Exports!ExportNext

\* A document has one pending destination and a destination one run, whatever the
\* binding does while requests die: preparePending looks for both before it inserts.
THEOREM OneDestinationAtATime ==
  ASSUME Exports!VaultAssumption
  PROVE  Exports!ExportSpec => []OneUnresolvedDestination
<1>1. Exports!ExportInit => ExportsInv  BY ExportsInvInit
<1>2. ExportsInv /\ [Exports!ExportNext \/ Exports!Crash]_(Exports!exportVars) => ExportsInv'
  BY ExportsInvStep
<1>3. ExportsInv => OneUnresolvedDestination  BY ExportsInvIsEnough
<1> QED  BY <1>1, <1>2, <1>3, PTL DEF Exports!ExportSpec

\* The receipt of a run says that its content was in the Vault, whatever died
\* between the rename and the receipt and whatever the user did with the file since.
THEOREM ReceiptsAreTrue ==
  ASSUME Exports!VaultAssumption
  PROVE  Exports!ExportSpec => []Exports!SucceededReachedTheVault
<1>1. Exports!ExportInit => ExportsInv  BY ExportsInvInit
<1>2. ExportsInv /\ [Exports!ExportNext \/ Exports!Crash]_(Exports!exportVars) => ExportsInv'
  BY ExportsInvStep
<1>3. ExportsInv => Exports!SucceededReachedTheVault  BY DEF ExportsInv
<1> QED  BY <1>1, <1>2, <1>3, PTL DEF Exports!ExportSpec

\* The server writes only below the root of the binding that is active then: between
\* continuePending's look at the binding and the rename no other request is handled.
THEOREM WritesFollowTheBinding ==
  ASSUME Exports!VaultAssumption
  PROVE  Exports!ExportSpec => [][Exports!WritesStayInTheBinding]_(Exports!exportVars)
<1>1. Exports!ExportInit => ExportsInv  BY ExportsInvInit
<1>2. ExportsInv /\ [Exports!ExportNext \/ Exports!Crash]_(Exports!exportVars) => ExportsInv'
  BY ExportsInvStep
<1>3. ASSUME ExportsInv, Exports!ExportNext \/ Exports!Crash
      PROVE  Exports!WritesStayInTheBinding
  <2>1. CASE Exports!projectWrites
    <3> DEFINE i == export.item
               d == Exports!Destination(i)
    <3>1. /\ export.at = "WRITE" /\ files' = [files EXCEPT ![d] = Exports!Expected(i)]
      BY <2>1 DEF Exports!projectWrites
    <3>2. Exports!bindingMatchesRun(i)  BY <1>3, <3>1 DEF ExportsInv, CallAgrees
    <3>3. binding.status = "ACTIVE" /\ d.root = binding.root
      BY <3>2 DEF Exports!bindingMatchesRun, Exports!Destination
    <3>4. files \in [Exports!Path -> Contents \cup {None}]
      BY <1>3 DEF ExportsInv, ExportsTyped
    <3> HIDE DEF d
    <3>5. \A f \in Exports!Path : f # d => files'[f] = files[f]  BY <3>1, <3>4
    <3> QED  BY <3>3, <3>5 DEF Exports!WritesStayInTheBinding
  <2>2. ASSUME NEW f \in Exports!Path, NEW content \in Contents \cup {None},
               Exports!Edit(f, content)
        PROVE  Exports!WritesStayInTheBinding
    <3>1. edits' = edits + 1 /\ edits \in Nat
      BY <1>3, <2>2
         DEF Exports!Edit, ExportsInv, ExportsTyped, Exports!VaultAssumption
    <3> QED  BY <3>1 DEF Exports!WritesStayInTheBinding
  <2>3. CASE UNCHANGED files  BY <2>3 DEF Exports!WritesStayInTheBinding
  <2>4. \/ UNCHANGED files \/ Exports!projectWrites
        \/ \E f \in Exports!Path, content \in Contents \cup {None} : Exports!Edit(f, content)
    BY <1>3
       DEF Exports!ExportNext, Exports!Crash, Exports!configure, Exports!setStatus,
           Exports!submit, Exports!Archive, Exports!Continue, Exports!project,
           Exports!recordProjectionReceipt, Exports!finalize
  <2> QED  BY <2>1, <2>2, <2>3, <2>4
<1> QED  BY <1>1, <1>2, <1>3, PTL DEF Exports!ExportSpec
-----------------------------------------------------------------------------
(* Delivery of a ready package. *)

Proved == INSTANCE PackageDeliveryProofs WITH Requests <- Operators, MaxAttempts <- MaxSends

\* The delivery of Outputs is the one the theorems of PackageDeliveryProofs are about.
LEMMA DiagnosesSame ==
  /\ Delivery!diagnoseReadyPackageV2Delivery = Proved!diagnoseReadyPackageV2Delivery
  /\ Delivery!listAuditEvents = Proved!listAuditEvents
<1>1. Delivery!listAuditEvents = Proved!listAuditEvents
  BY DEF Delivery!listAuditEvents, Proved!listAuditEvents
<1>2. ASSUME NEW events, NEW type
      PROVE  /\ Delivery!OfType(events, type) = Proved!OfType(events, type)
             /\ Delivery!Told(events, type) = Proved!Told(events, type)
  BY DEF Delivery!OfType, Proved!OfType, Delivery!Told, Proved!Told
<1>3. ASSUME NEW S PROVE Delivery!Cardinality(S) = Proved!Cardinality(S)
  BY DEF Delivery!Cardinality, Proved!Cardinality
<1>4. ASSUME NEW events, NEW type, NEW i
      PROVE  Delivery!Before(events, type, i) = Proved!Before(events, type, i)
  BY <1>2 DEF Delivery!Before, Proved!Before
<1>5. ASSUME NEW events, NEW i
      PROVE  Delivery!EventInOrder(events, i) <=> Proved!EventInOrder(events, i)
  BY <1>3, <1>4 DEF Delivery!EventInOrder, Proved!EventInOrder
<1>6. ASSUME NEW events
      PROVE  /\ Delivery!TimelineHolds(events) <=> Proved!TimelineHolds(events)
             /\ Delivery!SubmissionAgrees(events) <=> Proved!SubmissionAgrees(events)
  BY <1>2, <1>3, <1>5 DEF Delivery!TimelineHolds, Proved!TimelineHolds,
                          Delivery!SubmissionAgrees, Proved!SubmissionAgrees
<1>7. Delivery!diagnoseReadyPackageV2Delivery = Proved!diagnoseReadyPackageV2Delivery
  BY <1>1, <1>2, <1>6
     DEF Delivery!diagnoseReadyPackageV2Delivery, Proved!diagnoseReadyPackageV2Delivery
<1> QED  BY <1>1, <1>7

LEMMA StepsSame == (Delivery!Init <=> Proved!Init) /\ (Delivery!Next <=> Proved!Next)
<1>1. Delivery!Init <=> Proved!Init
  BY DEF Delivery!Init, Proved!Init, Delivery!Idle, Proved!Idle
<1>2. Delivery!Next <=> Proved!Next
  BY DiagnosesSame
  DEF Delivery!Next, Proved!Next, Delivery!OfType, Proved!OfType, Delivery!Idle, Proved!Idle,
      Delivery!Sent, Proved!Sent, Delivery!Answered, Proved!Answered, Delivery!Status, Proved!Status,
      Delivery!OptionalStatus, Proved!OptionalStatus, Delivery!NewEvent, Proved!NewEvent,
      Delivery!Consumed, Proved!Consumed, Delivery!bind, Proved!bind, Delivery!prepare, Proved!prepare,
      Delivery!Reconfigure, Proved!Reconfigure, Delivery!markTransportAttempt,
      Proved!markTransportAttempt, Delivery!recordResult, Proved!recordResult,
      Delivery!submitOverNetwork, Proved!submitOverNetwork, Delivery!recordTransportUncertainty,
      Proved!recordTransportUncertainty, Delivery!TransportFails, Proved!TransportFails,
      Delivery!WithTransportResult, Proved!WithTransportResult, Delivery!recordTransportResult,
      Proved!recordTransportResult, Delivery!submit, Proved!submit, Delivery!Stop, Proved!Stop,
      Delivery!ConsumerAnswers, Proved!ConsumerAnswers, Delivery!DelayedMessageArrives,
      Proved!DelayedMessageArrives, Delivery!ConsumerDecides, Proved!ConsumerDecides
<1> QED  BY <1>1, <1>2

LEMMA PromisesSame ==
  ASSUME Proved!TypeOK /\ Proved!ContactIsRecorded
           /\ Proved!ResultsAreHonoured /\ Proved!UnknownMayBeRetried
  PROVE  ResultsAreHonoured
BY DiagnosesSame
  DEF ResultsAreHonoured, Delivery!TypeOK, Proved!TypeOK, Delivery!ContactIsRecorded,
      Proved!ContactIsRecorded, Delivery!ResultsAreHonoured, Proved!ResultsAreHonoured,
      Delivery!UnknownMayBeRetried, Proved!UnknownMayBeRetried, Delivery!Submission,
      Proved!Submission, Delivery!Event, Proved!Event, Delivery!EventType, Proved!EventType,
      Delivery!Idle, Proved!Idle, Delivery!Sent, Proved!Sent, Delivery!Answered, Proved!Answered,
      Delivery!Status, Proved!Status, Delivery!OptionalStatus, Proved!OptionalStatus

\* While one operator submits at a time, and the audit holds no more events than a
\* diagnosis reads: whatever crashed, was lost or came late, what the consumer may
\* have seen is on record as attempted, a result that is recorded is replayed or
\* finalized, and an attempt without a result may be retried.
THEOREM ResultsHonouredInTurn ==
  ASSUME Delivery!DeliveryAssumption,
         2 * MaxSends + 3 <= AuditWindow,
         \A q, r \in Operators : q = r
  PROVE  Delivery!Spec => []ResultsAreHonoured
<1>1. Proved!DeliveryAssumption
  BY DEF Delivery!DeliveryAssumption, Proved!DeliveryAssumption,
         Delivery!IsFiniteSet, Proved!IsFiniteSet
<1>2. Proved!EvidenceFits /\ Proved!OneOperator
  BY DEF Proved!EvidenceFits, Proved!OneOperator
<1>3. Proved!Spec =>
        [](Proved!TypeOK /\ Proved!ContactIsRecorded
             /\ Proved!ResultsAreHonoured /\ Proved!UnknownMayBeRetried)
  BY <1>1, <1>2, Proved!EvidenceIsHonoured
<1>4. Delivery!Spec => Proved!Spec
  <2>1. Delivery!Init => Proved!Init  BY StepsSame
  <2>2. [Delivery!Next]_(Delivery!vars) => [Proved!Next]_(Proved!vars)
    BY StepsSame DEF Delivery!vars, Proved!vars
  <2> QED  BY <2>1, <2>2, PTL DEF Delivery!Spec, Proved!Spec
<1> QED  BY <1>3, <1>4, PromisesSame, PTL
=============================================================================

--------------------------- MODULE AcquisitionProofs ---------------------------
(***************************************************************************)
(* What holds of a web campaign for every site, every number of days, runs *)
(* and crashes: an archived campaign stays cold whatever its scripts were  *)
(* doing, and with one script at a time a URL is marked under a run that   *)
(* fetches it.  And of the recovery of failed conversions: its cases tell  *)
(* the truth about their runs, and the attempts of one follow each other.  *)
(***************************************************************************)
EXTENDS Acquisition, SequenceTheorems, TLAPS

-----------------------------------------------------------------------------
(* Any number of scripts. *)

\* A close sees no queued URL, and no script queues one afterwards.
ClosedIsQuiet ==
  lifecycle \in {"CLOSED", "ARCHIVED"} => \A u \in Urls: row[u].status # "QUEUED"

ColdInv == TypeOK /\ ClosedIsQuiet /\ ArchivedIsCold

\* The catalog that a step writes has the type of one.
LEMMA RowsTyped ==
  ASSUME TypeOK
  PROVE  /\ \A u \in Urls: row[u] \in Row /\ row[u].run <= Len(runs)
         /\ reconcileFailed \in [Urls -> Row]
         /\ \A u \in Urls:
              /\ reconcileFailed[u].run = row[u].run
              /\ reconcileFailed[u].eligible = row[u].eligible
              /\ reconcileFailed[u].status # row[u].status =>
                   QueuedUnder(u, {"COMPLETED"}) /\ reconcileFailed[u].status = "FAILED"
<1>1. \A u \in Urls: row[u] \in Row /\ row[u].run <= Len(runs)
  BY DEF TypeOK
<1> QED BY <1>1 DEF reconcileFailed, Row, RowStatus

\* A step of a script that leaves the catalog, the runs and the source alone.
LEMMA ScriptMoves ==
  ASSUME TypeOK, NEW p \in Processes, NEW step \in Step, Goes(p, step) \/ Ends(p)
  PROVE  script' \in [Processes -> Script] /\ \A q \in Processes: script'[q].run <= Len(runs)
<1>1. script \in [Processes -> Script] /\ Len(runs) \in Nat /\ MaxRuns \in Nat
  BY CampaignAssumption DEF TypeOK
<1>2. CASE Goes(p, step)
  BY <1>1, <1>2 DEF TypeOK, Goes, Script
<1>3. CASE Ends(p)
  BY <1>1, <1>3 DEF TypeOK, Ends, Script, Resting, Step
<1> QED BY <1>2, <1>3

LEMMA ColdInit == Init => ColdInv
<1> SUFFICES ASSUME Init PROVE ColdInv
  OBVIOUS
<1>1. MaxRuns \in Nat /\ MaxDays \in Nat \ {0} /\ MaxStops \in Nat
  BY CampaignAssumption
<1>2. runs \in Seq(Run) /\ Len(runs) = 0
  BY DEF Init
<1>3. TypeOK
  BY <1>1, <1>2 DEF Init, TypeOK, Row, NoRow, RowStatus, Script, Resting, Step
<1>4. ClosedIsQuiet /\ ArchivedIsCold
  BY DEF Init, ClosedIsQuiet, ArchivedIsCold
<1> QED BY <1>3, <1>4 DEF ColdInv

\* Discovery and the steps of a script that update the catalog.
LEMMA CatalogSteps ==
  ASSUME ColdInv, NEW p \in Processes,
         \/ \E d \in Discoveries: upsertDiscovered(p, d)
         \/ reconcileFetched(p) \/ reconcileReleased(p) \/ selectBatch(p)
         \/ bindSource(p) \/ markQueued(p) \/ Refused(p)
  PROVE  ColdInv'
<1> USE DEF ColdInv
<1>1. /\ \A u \in Urls: row[u] \in Row /\ row[u].run <= Len(runs)
      /\ Len(runs) \in Nat /\ MaxRuns \in Nat /\ Len(runs) <= MaxRuns
  BY RowsTyped, CampaignAssumption DEF TypeOK
<1>2. ASSUME NEW d \in Discoveries, upsertDiscovered(p, d)
      PROVE  ColdInv'
  <2>1. script' \in [Processes -> Script] /\ \A q \in Processes: script'[q].run <= Len(runs)
    BY <1>2, ScriptMoves DEF upsertDiscovered, Step
  <2>2. row' \in [Urls -> Row] /\ \A u \in Urls: row'[u].run <= Len(runs)
    <3>1. row' = [u \in Urls |-> row'[u]]
      BY <1>2 DEF upsertDiscovered
    <3>2. ASSUME NEW u \in Urls
          PROVE  row'[u] \in Row /\ row'[u].run <= Len(runs)
      <4>1. row[u] \in Row /\ row[u].run <= Len(runs)
        BY <1>1
      <4>2. CASE u \notin d.found
        BY <1>2, <4>1, <4>2 DEF upsertDiscovered
      <4>3. CASE u \in d.found
        <5>1. PICK status \in RowStatus:
                row'[u] = [row[u] EXCEPT !.status = status, !.eligible = u \in d.eligible]
          <6>1. row[u].status \in RowStatus /\ "DISCOVERED" \in RowStatus
            BY <4>1 DEF Row, RowStatus
          <6> QED BY <1>2, <4>3, <6>1 DEF upsertDiscovered
        <5>2. (u \in d.eligible) \in BOOLEAN
          OBVIOUS
        <5> QED BY <4>1, <5>1, <5>2 DEF Row
      <4> QED BY <4>2, <4>3
    <3> QED BY <3>1, <3>2
  <2>3. TypeOK'
    BY <1>2, <2>1, <2>2 DEF upsertDiscovered, TypeOK
  <2>4. ClosedIsQuiet' /\ ArchivedIsCold'
    BY <1>2 DEF upsertDiscovered, ClosedIsQuiet, ArchivedIsCold
  <2> QED BY <2>3, <2>4
<1>3. CASE reconcileFetched(p)
  <2>1. script' \in [Processes -> Script] /\ \A q \in Processes: script'[q].run <= Len(runs)
    BY <1>3, ScriptMoves DEF reconcileFetched, Step
  <2>2. row' \in [Urls -> Row] /\ \A u \in Urls: row'[u].run <= Len(runs)
    BY <1>1, <1>3 DEF reconcileFetched, Row, RowStatus
  <2>3. TypeOK'
    BY <1>3, <2>1, <2>2 DEF reconcileFetched, TypeOK
  <2>4. \A u \in Urls: /\ row'[u].eligible = row[u].eligible
                       /\ row'[u].status = row[u].status \/ row'[u].status = "FETCHED"
    BY <1>1, <1>3 DEF reconcileFetched, Row
  <2>5. ClosedIsQuiet' /\ ArchivedIsCold'
    BY <1>3, <2>4 DEF reconcileFetched, ClosedIsQuiet, ArchivedIsCold
  <2> QED BY <2>3, <2>5
<1>4. CASE reconcileReleased(p)
  <2>1. script' \in [Processes -> Script] /\ \A q \in Processes: script'[q].run <= Len(runs)
    BY <1>4, ScriptMoves DEF reconcileReleased, Step
  <2>2. row' \in [Urls -> Row] /\ \A u \in Urls: row'[u].run <= Len(runs)
    <3>1. row' = [u \in Urls |-> row'[u]]
      BY <1>4 DEF reconcileReleased
    <3>2. ASSUME NEW u \in Urls
          PROVE  row'[u] \in Row /\ row'[u].run <= Len(runs)
      <4>1. row[u] \in Row /\ row[u].run <= Len(runs)
        BY <1>1
      <4>2. row'[u] = row[u] \/ row'[u] = [row[u] EXCEPT !.status = "DISCOVERED", !.run = 0]
        BY <1>4 DEF reconcileReleased
      <4>3. 0 \in 0 .. MaxRuns /\ 0 <= Len(runs) /\ "DISCOVERED" \in RowStatus
        BY <1>1 DEF RowStatus
      <4>4. [row[u] EXCEPT !.status = "DISCOVERED", !.run = 0] \in Row
        BY <4>1, <4>3 DEF Row
      <4>5. [row[u] EXCEPT !.status = "DISCOVERED", !.run = 0].run = 0
        BY <4>1 DEF Row
      <4> QED BY <4>1, <4>2, <4>3, <4>4, <4>5
    <3> QED BY <3>1, <3>2
  <2>3. TypeOK'
    BY <1>4, <2>1, <2>2 DEF reconcileReleased, TypeOK
  <2>4. \A u \in Urls: /\ row'[u].eligible = row[u].eligible
                       /\ \/ row'[u].status = row[u].status
                          \/ row[u].status = "QUEUED" /\ row'[u].status = "DISCOVERED"
    BY <1>1, <1>4 DEF reconcileReleased, QueuedUnder, Row
  <2>5. ClosedIsQuiet' /\ ArchivedIsCold'
    BY <1>4, <2>4 DEF reconcileReleased, ClosedIsQuiet, ArchivedIsCold
  <2> QED BY <2>3, <2>5
<1>5. CASE selectBatch(p)
  <2>1. script' \in [Processes -> Script] /\ \A q \in Processes: script'[q].run <= Len(runs)
    <3>1. nextBatch(reconcileFailed) \in SUBSET Urls
      BY DEF nextBatch
    <3>2. [at |-> "SOURCE", batch |-> nextBatch(reconcileFailed), run |-> 0] \in Script
      BY <1>1, <3>1 DEF Script, Step
    <3> QED BY <1>1, <1>5, <3>2 DEF selectBatch, TypeOK
  <2>2. row' \in [Urls -> Row] /\ \A u \in Urls: row'[u].run <= Len(runs)
    BY <1>1, <1>5, RowsTyped DEF selectBatch
  <2>3. TypeOK'
    BY <1>5, <2>1, <2>2 DEF selectBatch, TypeOK
  <2>4. ClosedIsQuiet' /\ ArchivedIsCold'
    BY <1>5 DEF selectBatch, ClosedIsQuiet, ArchivedIsCold
  <2> QED BY <2>3, <2>4
<1>6. CASE bindSource(p)
  <2>1. script' \in [Processes -> Script] /\ \A q \in Processes: script'[q].run <= Len(runs)
    BY <1>6, ScriptMoves DEF bindSource, Step
  <2>2. row' \in [Urls -> Row] /\ \A u \in Urls: row'[u].run <= Len(runs)
    BY <1>1, <1>6 DEF bindSource, Row
  <2>3. TypeOK'
    BY <1>6, <2>1, <2>2 DEF bindSource, TypeOK
  <2>4. ClosedIsQuiet' /\ ArchivedIsCold'
    BY <1>6 DEF bindSource, ClosedIsQuiet, ArchivedIsCold
  <2> QED BY <2>3, <2>4
<1>7. CASE markQueued(p)
  <2>1. script' \in [Processes -> Script] /\ \A q \in Processes: script'[q].run <= Len(runs)
    BY <1>7, ScriptMoves DEF markQueued, Step
  <2>2. row' \in [Urls -> Row] /\ \A u \in Urls: row'[u].run <= Len(runs)
    <3>1. script[p].run \in 0 .. MaxRuns /\ script[p].run <= Len(runs)
      BY DEF TypeOK, Script
    <3> QED BY <1>1, <1>7, <3>1 DEF markQueued, Row, RowStatus
  <2>3. TypeOK'
    BY <1>7, <2>1, <2>2 DEF markQueued, TypeOK
  <2>4. ClosedIsQuiet' /\ ArchivedIsCold'
    BY <1>7 DEF markQueued, ClosedIsQuiet, ArchivedIsCold
  <2> QED BY <2>3, <2>4
<1>8. CASE Refused(p)
  <2>1. script' \in [Processes -> Script] /\ \A q \in Processes: script'[q].run <= Len(runs)
    BY <1>8, ScriptMoves DEF Refused, Step
  <2>2. row' = row \/ row' = reconcileFailed
    BY <1>8 DEF Refused
  <2>3. row' \in [Urls -> Row] /\ \A u \in Urls: row'[u].run <= Len(runs)
    BY <1>1, <2>2, RowsTyped DEF TypeOK
  <2>4. TypeOK'
    BY <1>8, <2>1, <2>3 DEF Refused, TypeOK
  <2>5. \A u \in Urls: /\ row'[u].eligible = row[u].eligible
                       /\ row'[u].status = row[u].status \/ row'[u].status = "FAILED"
    BY <2>2, RowsTyped
  <2>6. ClosedIsQuiet' /\ ArchivedIsCold'
    BY <1>8, <2>5 DEF Refused, ClosedIsQuiet, ArchivedIsCold
  <2> QED BY <2>4, <2>6
<1> QED BY <1>2, <1>3, <1>4, <1>5, <1>6, <1>7, <1>8

\* What a dispatch does to the runs: it replays one of the batch, or adds one.
LEMMA Dispatched ==
  ASSUME TypeOK, NEW p \in Processes, dispatchCampaignPlan(p)
  PROVE  \/ /\ runs' = runs
            /\ \E i \in 1 .. Len(runs):
                 /\ runs[i].key = runKey(p)
                 /\ script' = [script EXCEPT ![p].at = "MARK", ![p].run = i]
         \/ /\ Len(runs) < MaxRuns
            /\ [key |-> runKey(p), urls |-> entry, status |-> "LIVE"] \in Run
            /\ runs' = Append(runs, [key |-> runKey(p), urls |-> entry, status |-> "LIVE"])
            /\ runs' \in Seq(Run) /\ Len(runs') = Len(runs) + 1
            /\ runs'[Len(runs) + 1] = [key |-> runKey(p), urls |-> entry, status |-> "LIVE"]
            /\ \A i \in 1 .. Len(runs): runs'[i] = runs[i]
            /\ script' = [script EXCEPT ![p].at = "MARK", ![p].run = Len(runs) + 1]
<1> DEFINE new == [key |-> runKey(p), urls |-> entry, status |-> "LIVE"]
<1>1. new \in Run
  BY DEF TypeOK, Run, runKey, Script
<1>2. runs \in Seq(Run)
  BY DEF TypeOK
<1>3. /\ Append(runs, new) \in Seq(Run) /\ Len(Append(runs, new)) = Len(runs) + 1
      /\ Append(runs, new)[Len(runs) + 1] = new
      /\ \A i \in 1 .. Len(runs): Append(runs, new)[i] = runs[i]
  BY <1>1, <1>2, AppendProperties
<1> QED BY <1>1, <1>3 DEF dispatchCampaignPlan

\* The steps of a script that leave the catalog alone.
LEMMA OtherSteps ==
  ASSUME ColdInv, NEW p \in Processes,
         ensureCampaignSource(p) \/ NoSource(p) \/ dispatchCampaignPlan(p) \/ Stop(p)
  PROVE  ColdInv'
<1> USE DEF ColdInv
<1>1. ClosedIsQuiet' /\ ArchivedIsCold'
  BY DEF ensureCampaignSource, NoSource, dispatchCampaignPlan, Stop, ClosedIsQuiet, ArchivedIsCold
<1>2. CASE ensureCampaignSource(p)
  <2>1. script' \in [Processes -> Script] /\ \A q \in Processes: script'[q].run <= Len(runs)
    BY <1>2, ScriptMoves DEF ensureCampaignSource, Step
  <2>2. entry' \subseteq Urls
    BY <1>2 DEF ensureCampaignSource, TypeOK, Script
  <2>3. TypeOK'
    BY <1>2, <2>1, <2>2 DEF ensureCampaignSource, TypeOK
  <2> QED BY <1>1, <2>3
<1>3. CASE NoSource(p)
  <2>1. script' \in [Processes -> Script] /\ \A q \in Processes: script'[q].run <= Len(runs)
    BY <1>3, ScriptMoves DEF NoSource, Step
  <2>2. TypeOK'
    BY <1>3, <2>1 DEF NoSource, TypeOK
  <2> QED BY <1>1, <2>2
<1>4. CASE Stop(p)
  <2>1. script' \in [Processes -> Script] /\ \A q \in Processes: script'[q].run <= Len(runs)
    BY <1>4, ScriptMoves DEF Stop, Step
  <2>2. stops' \in 0 .. MaxStops
    BY <1>4, CampaignAssumption DEF Stop, TypeOK
  <2>3. TypeOK'
    BY <1>4, <2>1, <2>2 DEF Stop, TypeOK
  <2> QED BY <1>1, <2>3
<1>5. CASE dispatchCampaignPlan(p)
  <2>1. /\ Len(runs) \in Nat /\ MaxRuns \in Nat /\ Len(runs) <= MaxRuns
        /\ script \in [Processes -> Script] /\ \A q \in Processes: script[q].run <= Len(runs)
        /\ \A u \in Urls: row[u].run \in Nat /\ row[u].run <= Len(runs)
    BY CampaignAssumption DEF TypeOK, Row
  <2>2. /\ runs' \in Seq(Run) /\ Len(runs') <= MaxRuns
        /\ Len(runs') \in Nat /\ Len(runs) <= Len(runs')
        /\ \E i \in Nat: /\ i <= Len(runs')
                       /\ script' = [script EXCEPT ![p].at = "MARK", ![p].run = i]
    <3>1. CASE runs' = runs
      <4>1. PICK i \in 1 .. Len(runs): script' = [script EXCEPT ![p].at = "MARK", ![p].run = i]
        <5>1. CASE Len(runs') = Len(runs) + 1
          BY <2>1, <3>1, <5>1
        <5> QED BY <1>5, <5>1, Dispatched
      <4>2. i \in Nat /\ i <= Len(runs')
        BY <2>1, <3>1, <4>1
      <4>3. \E j \in Nat: /\ j <= Len(runs')
                         /\ script' = [script EXCEPT ![p].at = "MARK", ![p].run = j]
        <5> WITNESS i \in Nat
        <5> QED BY <4>1, <4>2
      <4>4. /\ runs' \in Seq(Run) /\ Len(runs') <= MaxRuns
            /\ Len(runs') \in Nat /\ Len(runs) <= Len(runs')
        BY <2>1, <3>1 DEF TypeOK
      <4> QED BY <4>3, <4>4
    <3>2. CASE runs' # runs
      <4>1. /\ runs' \in Seq(Run) /\ Len(runs') = Len(runs) + 1 /\ Len(runs) < MaxRuns
            /\ script' = [script EXCEPT ![p].at = "MARK", ![p].run = Len(runs) + 1]
        BY <1>5, <3>2, Dispatched DEF TypeOK
      <4>2. Len(runs) + 1 \in Nat /\ Len(runs) + 1 <= Len(runs')
        BY <2>1, <4>1
      <4>3. Len(runs') <= MaxRuns /\ Len(runs') \in Nat /\ Len(runs) <= Len(runs')
        BY <2>1, <4>1
      <4>4. \E i \in Nat: /\ i <= Len(runs')
                         /\ script' = [script EXCEPT ![p].at = "MARK", ![p].run = i]
        <5> WITNESS Len(runs) + 1 \in Nat
        <5> QED BY <4>1, <4>2
      <4> QED BY <4>1, <4>3, <4>4
    <3> QED BY <3>1, <3>2
  <2>3. PICK i \in Nat: /\ i <= Len(runs')
                       /\ script' = [script EXCEPT ![p].at = "MARK", ![p].run = i]
    BY <2>2
  <2>4. script' \in [Processes -> Script] /\ \A q \in Processes: script'[q].run <= Len(runs')
    <3>1. i \in 0 .. MaxRuns /\ i <= Len(runs')
      BY <2>1, <2>2, <2>3
    <3>2. \A q \in Processes: script[q] \in Script /\ script[q].run <= Len(runs')
      BY <2>1, <2>2 DEF Script
    <3>3. /\ script'[p] \in Script /\ script'[p].run <= Len(runs')
          /\ \A q \in Processes: q # p => script'[q] = script[q]
          /\ script' = [q \in Processes |-> script'[q]]
      BY <2>1, <2>3, <3>1, <3>2 DEF Script, Step
    <3> QED BY <3>2, <3>3
  <2>5. \A u \in Urls: row'[u].run <= Len(runs')
    <3>1. row' = row
      BY <1>5 DEF dispatchCampaignPlan
    <3>2. ASSUME NEW u \in Urls
          PROVE  row'[u].run <= Len(runs')
      BY <2>1, <2>2, <3>1, <3>2
    <3> QED BY <3>2
  <2>6. TypeOK'
    BY <1>5, <2>2, <2>4, <2>5 DEF dispatchCampaignPlan, TypeOK
  <2> QED BY <1>1, <2>6
<1> QED BY <1>2, <1>3, <1>4, <1>5

\* A run that ends keeps its key and its snapshot.
LEMMA EndedRun ==
  ASSUME TypeOK, NEW i \in 1 .. Len(runs), NEW status \in {"COMPLETED", "FAILED", "CANCELLED"},
         RunEnds(i, status)
  PROVE  /\ runs' \in Seq(Run) /\ Len(runs') = Len(runs)
         /\ \A j \in 1 .. Len(runs):
              /\ runs'[j].key = runs[j].key /\ runs'[j].urls = runs[j].urls
              /\ runs[j].status = "COMPLETED" => runs'[j].status = "COMPLETED"
<1>1. runs \in Seq(Run) /\ runs[i] \in Run
  BY ElementOfSeq DEF TypeOK
<1>2. [runs[i] EXCEPT !.status = status] \in Run
  BY <1>1 DEF Run
<1>3. runs' = [runs EXCEPT ![i] = [runs[i] EXCEPT !.status = status]]
  BY DEF RunEnds
<1>4. runs' \in Seq(Run) /\ Len(runs') = Len(runs)
  BY <1>1, <1>2, <1>3, ExceptSeq
<1>5. \A j \in 1 .. Len(runs): runs'[j] = IF j = i THEN [runs[i] EXCEPT !.status = status] ELSE runs[j]
  BY <1>1, <1>3, LenProperties
<1>6. runs[i].status # "COMPLETED"
  BY DEF RunEnds
<1> QED BY <1>1, <1>4, <1>5, <1>6 DEF Run

\* Workers, days and the operator.
LEMMA SurroundingSteps ==
  ASSUME ColdInv,
         \/ \E i \in 1 .. Len(runs):
              \/ \E u \in Urls: Fetch(i, u)
              \/ \E status \in {"COMPLETED", "FAILED", "CANCELLED"}: RunEnds(i, status)
         \/ NextDay \/ closeCampaign \/ archiveCampaign
         \/ \E pruned \in Prunable: pruneArchived(pruned)
  PROVE  ColdInv'
<1> USE DEF ColdInv
<1>1. ASSUME NEW i \in 1 .. Len(runs), NEW u \in Urls, Fetch(i, u)
      PROVE  ColdInv'
  BY <1>1 DEF Fetch, TypeOK, ClosedIsQuiet, ArchivedIsCold
<1>2. ASSUME NEW i \in 1 .. Len(runs), NEW status \in {"COMPLETED", "FAILED", "CANCELLED"},
             RunEnds(i, status)
      PROVE  ColdInv'
  BY <1>2, EndedRun DEF RunEnds, TypeOK, ClosedIsQuiet, ArchivedIsCold
<1>3. CASE NextDay
  <2>1. day' \in 1 .. MaxDays
    BY <1>3, CampaignAssumption DEF NextDay, TypeOK
  <2> QED BY <1>3, <2>1 DEF NextDay, TypeOK, ClosedIsQuiet, ArchivedIsCold
<1>4. CASE closeCampaign
  BY <1>4 DEF closeCampaign, TypeOK, ClosedIsQuiet, ArchivedIsCold
<1>5. CASE archiveCampaign
  <2>1. \A u \in Urls: row[u] \in Row /\ row[u].run <= Len(runs)
    BY RowsTyped
  <2>2. /\ row' \in [Urls -> Row]
        /\ \A u \in Urls: /\ row'[u].run = row[u].run /\ row'[u].eligible = FALSE
                          /\ row'[u].status # "DISCOVERED"
                          /\ row'[u].status = row[u].status \/ row'[u].status = "COLD"
    BY <1>5, <2>1 DEF archiveCampaign, Row, RowStatus
  <2>3. TypeOK'
    BY <1>5, <2>1, <2>2 DEF archiveCampaign, TypeOK
  <2>4. ClosedIsQuiet' /\ ArchivedIsCold'
    BY <1>5, <2>2 DEF archiveCampaign, ClosedIsQuiet, ArchivedIsCold
  <2> QED BY <2>3, <2>4
<1>6. ASSUME NEW pruned \in Prunable, pruneArchived(pruned)
      PROVE  ColdInv'
  <2>1. pruned \subseteq Urls
    BY DEF Prunable
  <2>2. \A u \in Urls: row[u] \in Row /\ row[u].run <= Len(runs)
    BY RowsTyped
  <2>3. Len(runs) \in Nat /\ MaxRuns \in Nat
    BY CampaignAssumption DEF TypeOK
  <2>4. NoRow \in Row
    BY <2>3 DEF NoRow, Row, RowStatus
  <2>5. row' \in [Urls -> Row] /\ \A u \in Urls: row'[u] = row[u] \/ row'[u] = NoRow
    BY <1>6, <2>2, <2>4 DEF pruneArchived
  <2>6. \A u \in Urls: row'[u].run <= Len(runs)
    BY <2>2, <2>3, <2>5 DEF NoRow
  <2>7. TypeOK'
    BY <1>6, <2>1, <2>5, <2>6 DEF pruneArchived, TypeOK
  <2>8. ClosedIsQuiet' /\ ArchivedIsCold'
    BY <1>6, <2>5 DEF pruneArchived, NoRow, ClosedIsQuiet, ArchivedIsCold
  <2> QED BY <2>7, <2>8
<1> QED BY <1>1, <1>2, <1>3, <1>4, <1>5, <1>6

LEMMA ColdNext == ColdInv /\ [Next]_vars => ColdInv'
<1> SUFFICES ASSUME ColdInv, [Next]_vars PROVE ColdInv'
  OBVIOUS
<1>1. CASE UNCHANGED vars
  BY <1>1 DEF vars, ColdInv, TypeOK, ClosedIsQuiet, ArchivedIsCold
<1>2. CASE Next
  BY <1>2, CatalogSteps, OtherSteps, SurroundingSteps DEF Next, Advance
<1> QED BY <1>1, <1>2

\* An archived campaign has no URL that is eligible, waits or is queued, however
\* many scripts were on their way when the operator closed it: each asks again
\* whether the campaign is active in the statement that writes.
THEOREM ArchivedStaysCold == Spec => [](TypeOK /\ ArchivedIsCold)
<1>1. ColdInv => TypeOK /\ ArchivedIsCold
  BY DEF ColdInv
<1> QED BY <1>1, ColdInit, ColdNext, PTL DEF Spec

-----------------------------------------------------------------------------
(* One script at a time. *)

\* Another script may point the source at its own batch between the two requests
\* of this one.
OneScript == \A p, q \in Processes: p = q

\* Every run fetches the batch its key names.
RunsCoverTheirBatch == \A i \in 1 .. Len(runs): runs[i].urls = runs[i].key.batch

\* What the script knows: from the update of the source to the dispatch the source
\* holds its batch, and the run it is about to record is one for its batch.
Knows(s) ==
  /\ s.at = "BIND" /\ s.batch # {} => entry = s.batch
  /\ s.at = "DISPATCH" => entry = s.batch
  /\ s.at = "MARK" => s.run \in 1 .. Len(runs) /\ runs[s.run].key.batch = s.batch

\* MarkedRunsCoverTheUrl, and that a marked URL names a run at all.
Marked(u, r) ==
  /\ r.status \in {"QUEUED", "FAILED"} => r.run \in 1 .. Len(runs) /\ u \in runs[r.run].urls
  /\ r.status = "FAILED" => runs[r.run].status = "COMPLETED"

MarkInv ==
  /\ RunsCoverTheirBatch
  /\ \A p \in Processes: Knows(script[p])
  /\ \A u \in Urls: Marked(u, row[u])

LEMMA MarkInit == Init => MarkInv
BY DEF Init, MarkInv, RunsCoverTheirBatch, Knows, Resting, Marked, NoRow

\* A script that goes on or ends, while runs and source stay, knows no more than it did.
LEMMA KnowledgeStays ==
  ASSUME TypeOK, MarkInv, NEW p \in Processes, NEW step \in Step \ {"BIND", "DISPATCH", "MARK"},
         Goes(p, step) \/ Ends(p), UNCHANGED <<runs, entry>>
  PROVE  \A q \in Processes: Knows(script[q])'
<1>1. script \in [Processes -> Script] /\ step \notin {"BIND", "DISPATCH", "MARK"}
  BY DEF TypeOK
<1>2. /\ script'[p].at \notin {"BIND", "DISPATCH", "MARK"}
      /\ \A q \in Processes: q # p => script'[q] = script[q]
  <2>1. CASE Goes(p, step)
    BY <1>1, <2>1 DEF Goes, Script
  <2>2. CASE Ends(p)
    BY <1>1, <2>2 DEF Ends, Resting
  <2> QED BY <2>1, <2>2
<1> QED BY <1>2 DEF MarkInv, Knows

\* What reconcile fails was queued under a run that has completed.
LEMMA FailedAreMarked ==
  ASSUME TypeOK, MarkInv, NEW u \in Urls
  PROVE  Marked(u, reconcileFailed[u])
<1>1. row[u] \in Row /\ Marked(u, row[u])
  BY RowsTyped DEF MarkInv
<1>2. CASE reconcileFailed[u] = row[u]
  BY <1>1, <1>2
<1>3. CASE reconcileFailed[u] # row[u]
  <2>1. QueuedUnder(u, {"COMPLETED"}) /\ reconcileFailed[u] = [row[u] EXCEPT !.status = "FAILED"]
    BY <1>3 DEF reconcileFailed
  <2>2. reconcileFailed[u].status = "FAILED" /\ reconcileFailed[u].run = row[u].run
    BY <1>1, <2>1 DEF Row
  <2> QED BY <1>1, <2>1, <2>2 DEF QueuedUnder, Marked
<1> QED BY <1>2, <1>3

\* Runs are added and end, but keep what they fetch.
RunsGrow ==
  /\ Len(runs) \in Nat /\ Len(runs') \in Nat /\ Len(runs) <= Len(runs')
  /\ \A i \in 1 .. Len(runs):
       /\ runs'[i].key = runs[i].key /\ runs'[i].urls = runs[i].urls
       /\ runs[i].status = "COMPLETED" => runs'[i].status = "COMPLETED"

LEMMA MarksKeep ==
  ASSUME RunsGrow
  PROVE  /\ \A u, r: Marked(u, r) /\ r.status \in {"QUEUED", "FAILED"} => Marked(u, r)'
         /\ \A u, r: r.status \notin {"QUEUED", "FAILED"} => Marked(u, r)'
         /\ UNCHANGED entry => \A s: Knows(s) => Knows(s)'
BY DEF RunsGrow, Marked, Knows

LEMMA RunsStay == TypeOK /\ UNCHANGED runs => RunsGrow
BY DEF TypeOK, RunsGrow

\* A step that leaves runs and source alone and marks no URL.
LEMMA MarksStay ==
  ASSUME TypeOK, MarkInv, UNCHANGED <<runs, entry>>,
         \A p \in Processes: Knows(script[p])',
         \A u \in Urls: \/ row'[u].status \notin {"QUEUED", "FAILED"}
                        \/ row'[u].status = row[u].status /\ row'[u].run = row[u].run
  PROVE  MarkInv'
<1>1. RunsCoverTheirBatch'
  BY DEF MarkInv, RunsCoverTheirBatch
<1>2. \A u \in Urls: Marked(u, row[u])'
  BY DEF MarkInv, Marked
<1> QED BY <1>1, <1>2 DEF MarkInv

\* The steps of a script up to its batch, and its end.
LEMMA EarlySteps ==
  ASSUME TypeOK, MarkInv, NEW p \in Processes,
         \/ \E d \in Discoveries: upsertDiscovered(p, d)
         \/ reconcileFetched(p) \/ reconcileReleased(p) \/ selectBatch(p)
         \/ NoSource(p) \/ Refused(p) \/ Stop(p)
  PROVE  MarkInv'
<1>1. \A u \in Urls: row[u] \in Row
  BY DEF TypeOK
<1>2. ASSUME NEW d \in Discoveries, upsertDiscovered(p, d)
      PROVE  MarkInv'
  <2>1. \A q \in Processes: Knows(script[q])'
    BY <1>2, KnowledgeStays DEF upsertDiscovered, Step
  <2>2. \A u \in Urls: \/ row'[u].status \notin {"QUEUED", "FAILED"}
                       \/ row'[u].status = row[u].status /\ row'[u].run = row[u].run
    BY <1>1, <1>2 DEF upsertDiscovered, Row
  <2> QED BY <1>2, <2>1, <2>2, MarksStay DEF upsertDiscovered
<1>3. CASE reconcileFetched(p)
  <2>1. \A q \in Processes: Knows(script[q])'
    BY <1>3, KnowledgeStays DEF reconcileFetched, Step
  <2>2. \A u \in Urls: \/ row'[u].status \notin {"QUEUED", "FAILED"}
                       \/ row'[u].status = row[u].status /\ row'[u].run = row[u].run
    BY <1>1, <1>3 DEF reconcileFetched, Row
  <2> QED BY <1>3, <2>1, <2>2, MarksStay DEF reconcileFetched
<1>4. CASE reconcileReleased(p)
  <2>1. \A q \in Processes: Knows(script[q])'
    BY <1>4, KnowledgeStays DEF reconcileReleased, Step
  <2>2. \A u \in Urls: \/ row'[u].status \notin {"QUEUED", "FAILED"}
                       \/ row'[u].status = row[u].status /\ row'[u].run = row[u].run
    BY <1>1, <1>4 DEF reconcileReleased, Row
  <2> QED BY <1>4, <2>1, <2>2, MarksStay DEF reconcileReleased
<1>5. CASE selectBatch(p)
  <2>1. \A q \in Processes: Knows(script[q])'
    <3>1. script'[p].at = "SOURCE" /\ \A q \in Processes: q # p => script'[q] = script[q]
      BY <1>5 DEF selectBatch, TypeOK
    <3> QED BY <1>5, <3>1 DEF selectBatch, MarkInv, Knows
  <2>2. row' = reconcileFailed /\ UNCHANGED <<runs, entry>>
    BY <1>5 DEF selectBatch
  <2>3. RunsCoverTheirBatch' /\ \A u \in Urls: Marked(u, row[u])'
    BY <2>2, FailedAreMarked DEF MarkInv, RunsCoverTheirBatch, Marked
  <2> QED BY <2>1, <2>3 DEF MarkInv
<1>6. CASE NoSource(p)
  <2>1. \A q \in Processes: Knows(script[q])'
    BY <1>6, KnowledgeStays DEF NoSource, Step
  <2> QED BY <1>6, <2>1, MarksStay DEF NoSource
<1>7. CASE Refused(p)
  <2>1. \A q \in Processes: Knows(script[q])'
    BY <1>7, KnowledgeStays DEF Refused, Step
  <2>2. (row' = reconcileFailed \/ row' = row) /\ UNCHANGED <<runs, entry>>
    BY <1>7 DEF Refused
  <2>3. RunsCoverTheirBatch' /\ \A u \in Urls: Marked(u, row[u])'
    BY <2>2, FailedAreMarked DEF MarkInv, RunsCoverTheirBatch, Marked
  <2> QED BY <2>1, <2>3 DEF MarkInv
<1>8. CASE Stop(p)
  <2>1. \A q \in Processes: Knows(script[q])'
    BY <1>8, KnowledgeStays DEF Stop, Step
  <2> QED BY <1>8, <2>1, MarksStay DEF Stop
<1> QED BY <1>2, <1>3, <1>4, <1>5, <1>6, <1>7, <1>8

\* The steps of a script from its batch to the mark.
LEMMA LateSteps ==
  ASSUME OneScript, TypeOK, MarkInv, NEW p \in Processes,
         \/ ensureCampaignSource(p) \/ bindSource(p)
         \/ dispatchCampaignPlan(p) \/ markQueued(p)
  PROVE  MarkInv'
<1>1. /\ script \in [Processes -> Script] /\ script[p] \in Script
      /\ Knows(script[p]) /\ \A q \in Processes: q = p
  BY DEF OneScript, TypeOK, MarkInv
<1>2. CASE ensureCampaignSource(p)
  <2>1. script'[p].at = "BIND" /\ script'[p].batch = script[p].batch
    BY <1>1, <1>2 DEF ensureCampaignSource, Goes, Script
  <2>2. \A q \in Processes: Knows(script[q])'
    BY <1>1, <1>2, <2>1 DEF ensureCampaignSource, Knows
  <2>3. RunsCoverTheirBatch' /\ \A u \in Urls: Marked(u, row[u])'
    BY <1>2 DEF ensureCampaignSource, MarkInv, RunsCoverTheirBatch, Marked
  <2> QED BY <2>2, <2>3 DEF MarkInv
<1>3. CASE bindSource(p)
  <2>1. \/ script'[p].at = "IDLE"
        \/ /\ script'[p].at = "DISPATCH" /\ script'[p].batch = script[p].batch
           /\ script[p].batch # {}
    BY <1>1, <1>3 DEF bindSource, Goes, Ends, Resting, Script
  <2>2. script[p].at = "BIND" /\ UNCHANGED <<runs, entry>>
    BY <1>3 DEF bindSource
  <2>3. \A q \in Processes: Knows(script[q])'
    BY <1>1, <2>1, <2>2 DEF Knows
  <2>4. \A u \in Urls: row'[u].status = row[u].status /\ row'[u].run = row[u].run
    BY <1>3 DEF bindSource, TypeOK, Row
  <2> QED BY <2>2, <2>3, <2>4, MarksStay
<1>4. CASE dispatchCampaignPlan(p)
  <2>1. row' = row /\ entry' = entry /\ entry = script[p].batch
    BY <1>1, <1>4 DEF dispatchCampaignPlan, Knows
  <2>2. Len(runs) \in Nat
    BY DEF TypeOK
  <2>3. /\ RunsGrow /\ RunsCoverTheirBatch'
        /\ \E i \in 1 .. Len(runs'):
             /\ runs'[i].key.batch = script[p].batch
             /\ script' = [script EXCEPT ![p].at = "MARK", ![p].run = i]
    <3>1. CASE /\ runs' = runs
               /\ \E i \in 1 .. Len(runs):
                    /\ runs[i].key = runKey(p)
                    /\ script' = [script EXCEPT ![p].at = "MARK", ![p].run = i]
      <4>1. PICK i \in 1 .. Len(runs):
              /\ runs[i].key = runKey(p)
              /\ script' = [script EXCEPT ![p].at = "MARK", ![p].run = i]
        BY <3>1
      <4>2. runs[i].key.batch = script[p].batch
        BY <4>1 DEF runKey
      <4>3. RunsGrow /\ RunsCoverTheirBatch'
        BY <3>1, RunsStay DEF MarkInv, RunsCoverTheirBatch
      <4> QED BY <3>1, <4>1, <4>2, <4>3
    <3>2. CASE runs' = Append(runs, [key |-> runKey(p), urls |-> entry, status |-> "LIVE"])
      <4>1. /\ Len(runs') = Len(runs) + 1
            /\ runs'[Len(runs) + 1] = [key |-> runKey(p), urls |-> entry, status |-> "LIVE"]
            /\ \A i \in 1 .. Len(runs): runs'[i] = runs[i]
            /\ script' = [script EXCEPT ![p].at = "MARK", ![p].run = Len(runs) + 1]
        <5>1. runs' # runs
          <6>1. Len(Append(runs, [key |-> runKey(p), urls |-> entry, status |-> "LIVE"]))
                  = Len(runs) + 1
            BY DEF TypeOK
          <6> QED BY <2>2, <3>2, <6>1
        <5> QED BY <1>4, <5>1, Dispatched
      <4>2. /\ runs'[Len(runs) + 1].urls = script[p].batch
            /\ runs'[Len(runs) + 1].key.batch = script[p].batch
        BY <2>1, <4>1 DEF runKey
      <4>3. RunsGrow
        BY <2>2, <4>1 DEF RunsGrow
      <4>4. RunsCoverTheirBatch'
        <5>1. \A i \in 1 .. Len(runs'): i \in 1 .. Len(runs) \/ i = Len(runs) + 1
          BY <2>2, <4>1
        <5> QED BY <4>1, <4>2, <5>1 DEF MarkInv, RunsCoverTheirBatch
      <4>5. Len(runs) + 1 \in 1 .. Len(runs')
        BY <2>2, <4>1
      <4>6. \E i \in 1 .. Len(runs'):
              /\ runs'[i].key.batch = script[p].batch
              /\ script' = [script EXCEPT ![p].at = "MARK", ![p].run = i]
        <5> WITNESS Len(runs) + 1 \in 1 .. Len(runs')
        <5> QED BY <4>1, <4>2
      <4> QED BY <4>3, <4>4, <4>6
    <3> QED BY <1>4, <3>1, <3>2, Dispatched
  <2>4. PICK i \in 1 .. Len(runs'):
          /\ runs'[i].key.batch = script[p].batch
          /\ script' = [script EXCEPT ![p].at = "MARK", ![p].run = i]
    BY <2>3
  <2>5. script'[p].at = "MARK" /\ script'[p].run = i /\ script'[p].batch = script[p].batch
    BY <1>1, <2>4 DEF Script
  <2>6. \A q \in Processes: Knows(script[q])'
    BY <1>1, <2>4, <2>5 DEF Knows
  <2>7. \A u \in Urls: Marked(u, row[u])'
    BY <2>1, <2>3, MarksKeep DEF MarkInv
  <2> QED BY <2>3, <2>6, <2>7 DEF MarkInv
<1>5. CASE markQueued(p)
  <2>1. script'[p].at = "IDLE" /\ UNCHANGED <<runs, entry>>
    BY <1>1, <1>5 DEF markQueued, Ends, Resting
  <2>2. \A q \in Processes: Knows(script[q])'
    BY <1>1, <2>1 DEF Knows
  <2>3. /\ script[p].run \in 1 .. Len(runs)
        /\ runs[script[p].run].urls = script[p].batch
    BY <1>1, <1>5 DEF markQueued, Knows, MarkInv, RunsCoverTheirBatch
  <2>4. ASSUME NEW u \in Urls
        PROVE  Marked(u, row[u])'
    <3>1. row[u] \in Row /\ Marked(u, row[u])
      BY DEF TypeOK, MarkInv
    <3>2. CASE row'[u] = row[u]
      BY <2>1, <3>1, <3>2 DEF Marked
    <3>3. CASE row'[u] # row[u]
      <4>1. /\ u \in script[p].batch
            /\ row'[u] = [row[u] EXCEPT !.status = "QUEUED", !.run = script[p].run]
        BY <1>5, <3>3 DEF markQueued
      <4>2. row'[u].status = "QUEUED" /\ row'[u].run = script[p].run
        BY <3>1, <4>1 DEF Row
      <4> QED BY <2>1, <2>3, <4>1, <4>2 DEF Marked
    <3> QED BY <3>2, <3>3
  <2>5. RunsCoverTheirBatch'
    BY <2>1 DEF MarkInv, RunsCoverTheirBatch
  <2> QED BY <2>2, <2>4, <2>5 DEF MarkInv
<1> QED BY <1>2, <1>3, <1>4, <1>5

\* Workers, days and the operator leave the scripts alone.
LEMMA MarksSurvive ==
  ASSUME TypeOK, MarkInv,
         \/ \E i \in 1 .. Len(runs):
              \/ \E u \in Urls: Fetch(i, u)
              \/ \E status \in {"COMPLETED", "FAILED", "CANCELLED"}: RunEnds(i, status)
         \/ NextDay \/ closeCampaign \/ archiveCampaign
         \/ \E pruned \in Prunable: pruneArchived(pruned)
  PROVE  MarkInv'
<1>1. ASSUME NEW i \in 1 .. Len(runs), NEW status \in {"COMPLETED", "FAILED", "CANCELLED"},
             RunEnds(i, status)
      PROVE  MarkInv'
  <2>1. UNCHANGED <<row, script, entry>>
    BY <1>1 DEF RunEnds
  <2>2. RunsGrow /\ Len(runs') = Len(runs)
    BY <1>1, EndedRun DEF RunsGrow, TypeOK
  <2>3. RunsCoverTheirBatch'
    BY <2>2 DEF RunsGrow, MarkInv, RunsCoverTheirBatch
  <2>4. \A u \in Urls: Marked(u, row[u])'
    BY <2>1, <2>2, MarksKeep DEF MarkInv
  <2>5. \A q \in Processes: Knows(script[q])'
    BY <2>1, <2>2, MarksKeep DEF MarkInv
  <2> QED BY <2>3, <2>4, <2>5 DEF MarkInv
<1>2. ASSUME ~ \E i \in 1 .. Len(runs):
                 \E status \in {"COMPLETED", "FAILED", "CANCELLED"}: RunEnds(i, status)
      PROVE  MarkInv'
  <2>1. UNCHANGED <<runs, entry, script>>
    BY <1>2 DEF Fetch, NextDay, closeCampaign, archiveCampaign, pruneArchived
  <2>2. \A q \in Processes: Knows(script[q])'
    BY <2>1 DEF MarkInv, Knows
  <2>3. \A u \in Urls: \/ row'[u].status \notin {"QUEUED", "FAILED"}
                       \/ row'[u].status = row[u].status /\ row'[u].run = row[u].run
    <3>1. \A u \in Urls: row[u] \in Row
      BY DEF TypeOK
    <3>2. CASE archiveCampaign
      BY <3>1, <3>2 DEF archiveCampaign, Row
    <3>3. ASSUME NEW pruned \in Prunable, pruneArchived(pruned)
          PROVE  \A u \in Urls: row'[u] = NoRow \/ row'[u] = row[u]
      BY <3>3 DEF pruneArchived
    <3>4. CASE row' = row
      BY <3>4
    <3> QED BY <1>2, <3>2, <3>3, <3>4 DEF Fetch, NextDay, closeCampaign, NoRow
  <2> QED BY <2>1, <2>2, <2>3, MarksStay
<1> QED BY <1>1, <1>2

LEMMA MarkNext ==
  ASSUME OneScript, ColdInv, MarkInv, [Next]_vars
  PROVE  MarkInv'
<1>1. TypeOK
  BY DEF ColdInv
<1>2. CASE UNCHANGED vars
  BY <1>2 DEF vars, MarkInv, RunsCoverTheirBatch, Knows, Marked
<1>3. CASE Next
  BY <1>1, <1>3, EarlySteps, LateSteps, MarksSurvive DEF Next, Advance
<1> QED BY <1>2, <1>3

\* With one script, a URL is queued under a run that fetches it and fails only where
\* such a run completed, although the run may be a replay of one dispatched before a
\* crash; and an archived campaign is cold.
THEOREM CampaignTrue == ASSUME OneScript PROVE Spec => []CampaignIsTrue
<1>1. ColdInv /\ MarkInv => CampaignIsTrue
  BY DEF ColdInv, MarkInv, Marked, MarkedRunsCoverTheUrl, CampaignIsTrue
<1>2. ColdInv /\ MarkInv /\ [Next]_vars => (ColdInv /\ MarkInv)'
  BY ColdNext, MarkNext
<1> QED BY <1>1, <1>2, ColdInit, MarkInit, PTL DEF Spec

-----------------------------------------------------------------------------
(* The recovery of failed conversions. *)

\* The run of a case's n-th automatic attempt; the first is the one that failed.
Attempt(n) == IF n = 0 THEN Recovery!RootKey ELSE <<"failure-retry", n>>

\* What a request knows while it runs: the cases a stage has still to take are as
\* they were when it took its batch, and a dispatch is recorded in the case whose
\* attempt it was.
RequestHolds ==
  /\ handler.stage = "REFRESH" => \A r \in handler.todo: Recovery!Open(r)
  /\ handler.stage = "DISCOVER" => \A r \in handler.todo: run[r][Recovery!RootKey].status = "FAILED"
       /\ case[r].state = "NONE"
  /\ handler.stage \in {"RETRY", "RECORD"} => \A r \in handler.todo: case[r].state = "WAITING"
  /\ handler.stage = "RECORD" =>
       /\ handler.root \notin handler.todo
       /\ case[handler.root].state # "NONE"
       /\ run[handler.root][handler.key].status # "NONE"
       /\ handler.key \in Recovery!RetryKey =>
            /\ case[handler.root].state = "WAITING"
            /\ handler.key = Attempt(case[handler.root].retryCount + 1)

\* A root is recovered from because it failed; its run is never live here.
RootsFail == \A r \in Roots: run[r][Recovery!RootKey].status \in {"NONE", "FAILED"}
NoCaseYet == \A r \in Roots: case[r].state = "NONE" => case[r] = Recovery!NoCase

\* Without an operator the attempts follow each other: the case's latest run is its
\* retryCount-th attempt, those before it have ended, the next is dispatched only
\* when it has ended too, and no later one exists.
AttemptsInTurn ==
  \A r \in Roots: Recovery!NoOperator(r) =>
    LET n == case[r].retryCount
    IN  /\ case[r].latest = Attempt(n)
        /\ \A k \in Recovery!RetryKey:
             /\ k[2] < n => run[r][k].status # "LIVE"
             /\ k[2] = n + 1 /\ run[r][k].status # "NONE" => Recovery!LatestRun(r).status # "LIVE"
             /\ k[2] > n + 1 => run[r][k].status = "NONE"

RecoveryInv ==
  /\ Recovery!TypeOK /\ RootsFail /\ NoCaseYet /\ RequestHolds
  /\ Recovery!CasesTellTheirRun /\ Recovery!LostRunsAreNotRetried /\ AttemptsInTurn

\* The idempotency keys of the attempts, the operators' retries and the root differ.
LEMMA Keys ==
  ASSUME Recovery!RecoveryAssumption
  PROVE  /\ Recovery!RootKey \in Recovery!Key /\ Recovery!RootKey \notin Recovery!RetryKey
              /\ Recovery!RootKey \notin Recovery!OperatorKey
         /\ Recovery!RetryKey \subseteq Recovery!Key /\ Recovery!OperatorKey \subseteq Recovery!Key
         /\ \A k \in Recovery!Key: k = Recovery!RootKey \/ k \in Recovery!RetryKey
              \/ k \in Recovery!OperatorKey
         /\ \A k \in Recovery!RetryKey: k \notin Recovery!OperatorKey /\ k[2] \in 1 .. MaxRetries
              /\ k = Attempt(k[2])
         /\ \A k \in Recovery!OperatorKey: k[2] \in 1 .. MaxOperator
         /\ \A n \in 1 .. MaxRetries: Attempt(n) \in Recovery!RetryKey /\ Attempt(n)[2] = n
         /\ \A n \in 1 .. MaxOperator: <<"operator-retry", n>> \in Recovery!OperatorKey
         /\ Attempt(0) = Recovery!RootKey
<1>1. MaxRetries \in Nat /\ MaxOperator \in Nat  BY DEF Recovery!RecoveryAssumption
<1>2. \A k \in Recovery!RetryKey: k[2] \in 1 .. MaxRetries /\ k = <<"failure-retry", k[2]>>
  BY DEF Recovery!RetryKey
<1>3. \A k \in Recovery!OperatorKey: k[2] \in 1 .. MaxOperator /\ k = <<"operator-retry", k[2]>>
  BY DEF Recovery!OperatorKey
<1>4. Recovery!RootKey \notin Recovery!RetryKey /\ Recovery!RootKey \notin Recovery!OperatorKey
  BY DEF Recovery!RootKey, Recovery!RetryKey, Recovery!OperatorKey
<1>5. \A k \in Recovery!RetryKey: k \notin Recovery!OperatorKey
  BY DEF Recovery!RetryKey, Recovery!OperatorKey
<1>6. \A n \in 1 .. MaxRetries: Attempt(n) \in Recovery!RetryKey /\ Attempt(n)[2] = n
  BY <1>1 DEF Attempt, Recovery!RetryKey
<1>7. \A n \in 1 .. MaxOperator: <<"operator-retry", n>> \in Recovery!OperatorKey
  BY DEF Recovery!OperatorKey
<1>8. \A k \in Recovery!RetryKey: k = Attempt(k[2])
  BY <1>1, <1>2 DEF Attempt
<1> QED BY <1>2, <1>3, <1>4, <1>5, <1>6, <1>7, <1>8 DEF Recovery!Key, Attempt

\* An order of the cases stays one when a case is dated anew.
LEMMA TouchOrders ==
  ASSUME Recovery!TypeOK, NEW r \in Roots, Recovery!Touch(r),
         Recovery!WithCase' = Recovery!WithCase \cup {r}
  PROVE  /\ before' \subseteq Recovery!WithCase' \X Recovery!WithCase'
         /\ \A p, q \in Recovery!WithCase': <<p, q>> \in before' <=> p # q /\ <<q, p>> \notin before'
         /\ \A o, p, q \in Recovery!WithCase': <<o, p>> \in before' /\ <<p, q>> \in before'
              => <<o, q>> \in before'
<1>1. before \subseteq Recovery!WithCase \X Recovery!WithCase
  BY DEF Recovery!TypeOK
<1>2. \A p, q \in Recovery!WithCase: <<p, q>> \in before <=> p # q /\ <<q, p>> \notin before
  BY DEF Recovery!TypeOK
<1>3. \A o, p, q \in Recovery!WithCase: <<o, p>> \in before /\ <<p, q>> \in before => <<o, q>> \in before
  BY DEF Recovery!TypeOK
<1>4. \A p, q: <<p, q>> \in before' <=>
        \/ <<p, q>> \in before /\ p # r /\ q # r
        \/ p \in Recovery!WithCase /\ p # r /\ q = r
  BY DEF Recovery!Touch
<1>5. before' \subseteq Recovery!WithCase' \X Recovery!WithCase'
  <2>1. \A e \in before': e \in before \/ e \in (Recovery!WithCase \ {r}) \X {r}
    BY DEF Recovery!Touch
  <2> QED BY <1>1, <2>1
<1>6. \A p, q \in Recovery!WithCase': <<p, q>> \in before' <=> p # q /\ <<q, p>> \notin before'
  BY <1>2, <1>4
<1>7. \A o, p, q \in Recovery!WithCase': <<o, p>> \in before' /\ <<p, q>> \in before'
        => <<o, q>> \in before'
  BY <1>3, <1>4
<1> QED BY <1>5, <1>6, <1>7

\* What holds of a case once its cases and runs are known to be typed.
LEMMA CaseTyped ==
  ASSUME Recovery!RecoveryAssumption, Recovery!TypeOK, NEW r \in Roots
  PROVE  /\ case[r] \in Recovery!Case /\ case[r].retryCount \in 0 .. MaxRetries
              /\ case[r].latest \in Recovery!Key
         /\ \A k \in Recovery!Key: run[r][k] \in Recovery!Run
         /\ Recovery!LatestRun(r) \in Recovery!Run
<1>1. case[r] \in Recovery!Case  BY DEF Recovery!TypeOK
<1>2. \A k \in Recovery!Key: run[r][k] \in Recovery!Run  BY DEF Recovery!TypeOK
<1>3. case[r].retryCount \in 0 .. MaxRetries /\ case[r].latest \in Recovery!Key
  BY <1>1 DEF Recovery!Case
<1> QED BY <1>1, <1>2, <1>3 DEF Recovery!LatestRun

-----------------------------------------------------------------------------

LEMMA RecoveryInit == Recovery!RecoveryAssumption /\ Recovery!Init => RecoveryInv
<1> SUFFICES ASSUME Recovery!RecoveryAssumption, Recovery!Init PROVE RecoveryInv
  OBVIOUS
<1>1. MaxRetries \in Nat /\ MaxOperator \in Nat /\ MaxEdits \in Nat /\ MaxEnds \in Nat
  BY DEF Recovery!RecoveryAssumption
<1>2. \A r \in Roots: case[r] = Recovery!NoCase  BY DEF Recovery!Init
<1>3. \A r \in Roots: \A k \in Recovery!Key: run[r][k].status = "NONE"  BY DEF Recovery!Init
<1>4. Recovery!WithCase = {}  BY <1>2 DEF Recovery!WithCase, Recovery!NoCase
<1>5. run \in [Roots -> [Recovery!Key -> Recovery!Run]]
  BY Keys DEF Recovery!Init, Recovery!Run, Recovery!RunStatus, Recovery!Failure
<1>6. case \in [Roots -> Recovery!Case]
  <2>1. Recovery!NoCase \in Recovery!Case  BY <1>1, Keys
    DEF Recovery!NoCase, Recovery!Case, Recovery!CaseState, Recovery!Reason
  <2> QED BY <2>1 DEF Recovery!Init
<1>7. Recovery!TypeOK
  BY <1>1, <1>4, <1>5, <1>6 DEF Recovery!Init, Recovery!TypeOK
<1>8. RootsFail /\ NoCaseYet /\ Recovery!LostRunsAreNotRetried
  BY <1>2, <1>3, Keys DEF RootsFail, NoCaseYet, Recovery!LostRunsAreNotRetried
<1>9. RequestHolds  BY DEF Recovery!Init, Recovery!NoRequest, RequestHolds
<1>10. Recovery!CasesTellTheirRun  BY <1>2 DEF Recovery!CasesTellTheirRun, Recovery!NoCase
<1>11. AttemptsInTurn
  BY <1>2, <1>3, Keys DEF AttemptsInTurn, Recovery!NoCase, Recovery!LatestRun
<1> QED BY <1>7, <1>8, <1>9, <1>10, <1>11 DEF RecoveryInv

\* What a case tells of its latest run l.
Told(c, l) ==
  /\ c.state = "WAITING" => /\ l.status = "FAILED"
                            /\ Recovery!conversionFailureIsAutoRetryable(l.failure)
                            /\ c.retryCount < MaxRetries
  /\ c.state = "RUNNING" => c.latest # Recovery!RootKey /\ l.status # "NONE"
  /\ c.state = "RESOLVED" => l.status = "COMPLETED"
  /\ c.state = "DEAD_LETTERED" => l.status \in {"FAILED", "CANCELLED"}

LEMMA Telling == Recovery!CasesTellTheirRun <=> \A r \in Roots: Told(case[r], Recovery!LatestRun(r))
BY DEF Recovery!CasesTellTheirRun, Told

\* A case that is written anew about the same run.
LEMMA CaseWritten ==
  ASSUME Recovery!RecoveryAssumption, RecoveryInv, NEW r \in Roots, NEW c \in Recovery!Case,
         case' = [case EXCEPT ![r] = c], Recovery!Touch(r), UNCHANGED <<run, active, edits, ends>>,
         handler' \in {Recovery!NoRequest} \cup Recovery!Reconciling \cup Recovery!Dispatched,
         c.state # "NONE", c.latest = case[r].latest, c.retryCount = case[r].retryCount,
         Told(c, Recovery!LatestRun(r))
  PROVE  Recovery!TypeOK' /\ RootsFail' /\ NoCaseYet' /\ Recovery!CasesTellTheirRun'
           /\ Recovery!LostRunsAreNotRetried' /\ AttemptsInTurn'
<1>1. Recovery!TypeOK /\ RootsFail /\ NoCaseYet /\ Recovery!CasesTellTheirRun
        /\ Recovery!LostRunsAreNotRetried /\ AttemptsInTurn
  BY DEF RecoveryInv
<1>2. case'[r] = c /\ case' \in [Roots -> Recovery!Case] /\ \A q \in Roots: q # r => case'[q] = case[q]
  BY <1>1 DEF Recovery!TypeOK
<1>3. Recovery!WithCase' = Recovery!WithCase \cup {r}
  BY <1>2 DEF Recovery!WithCase
<1>4. Recovery!TypeOK'
  BY <1>1, <1>2, <1>3, TouchOrders DEF Recovery!TypeOK
<1>5. \A q \in Roots: Recovery!LatestRun(q)' = Recovery!LatestRun(q)
  BY <1>2 DEF Recovery!LatestRun
<1>6. Recovery!CasesTellTheirRun'
  <2>1. \A q \in Roots: Told(case'[q], Recovery!LatestRun(q))
    BY <1>1, <1>2, Telling
  <2> QED BY <1>5, <2>1 DEF Recovery!CasesTellTheirRun, Told
<1>7. AttemptsInTurn'
  BY <1>1, <1>2, <1>5 DEF AttemptsInTurn, Recovery!NoOperator
<1>8. RootsFail' /\ Recovery!LostRunsAreNotRetried' /\ NoCaseYet'
  BY <1>1, <1>2 DEF RootsFail, Recovery!LostRunsAreNotRetried, NoCaseYet
<1> QED BY <1>4, <1>6, <1>7, <1>8

\* What a failure makes of a case.
LEMMA Failing ==
  ASSUME Recovery!RecoveryAssumption, NEW c \in Recovery!Case, NEW l \in Recovery!Run,
         NEW due \in BOOLEAN, l.status = "FAILED"
  PROVE  LET d == Recovery!AfterFailure(c, l.failure, due)
         IN  /\ d \in Recovery!Case /\ d.state # "NONE" /\ Told(d, l)
             /\ d.latest = c.latest /\ d.retryCount = c.retryCount
<1> DEFINE d == Recovery!AfterFailure(c, l.failure, due)
<1>1. CASE Recovery!conversionFailureIsAutoRetryable(l.failure) /\ c.retryCount < MaxRetries
  <2>1. d = [c EXCEPT !.state = "WAITING", !.due = due, !.reason = "NONE"]
    BY <1>1 DEF Recovery!AfterFailure
  <2> QED BY <1>1, <2>1 DEF Recovery!Case, Recovery!CaseState, Recovery!Reason, Told
<1>2. CASE ~(Recovery!conversionFailureIsAutoRetryable(l.failure) /\ c.retryCount < MaxRetries)
  <2>1. \E w \in Recovery!Reason: d = [c EXCEPT !.state = "DEAD_LETTERED", !.due = FALSE, !.reason = w]
    BY <1>2 DEF Recovery!AfterFailure, Recovery!Reason
  <2> QED BY <2>1 DEF Recovery!Case, Recovery!CaseState, Told
<1> QED BY <1>1, <1>2

\* What the answer of its latest run makes of an open case.
LEMMA Refreshing ==
  ASSUME Recovery!RecoveryAssumption, NEW c \in Recovery!Case, NEW l \in Recovery!Run, l.status # "NONE",
         l.status = "LIVE" => c.latest # Recovery!RootKey
  PROVE  LET d == Recovery!refreshedCase(c, l)
         IN  /\ d \in Recovery!Case /\ d.state # "NONE" /\ Told(d, l)
             /\ d.latest = c.latest /\ d.retryCount = c.retryCount
<1> DEFINE d == Recovery!refreshedCase(c, l)
<1>1. CASE l.status = "COMPLETED"
  <2>1. d = [c EXCEPT !.state = "RESOLVED", !.due = FALSE, !.reason = "NONE"]
    BY <1>1 DEF Recovery!refreshedCase
  <2> QED BY <1>1, <2>1 DEF Recovery!Case, Recovery!CaseState, Recovery!Reason, Told
<1>2. CASE l.status = "CANCELLED"
  <2>1. d = [c EXCEPT !.state = "DEAD_LETTERED", !.due = FALSE, !.reason = "RETRY_RUN_CANCELLED"]
    BY <1>2 DEF Recovery!refreshedCase
  <2> QED BY <1>2, <2>1 DEF Recovery!Case, Recovery!CaseState, Recovery!Reason, Told
<1>3. CASE l.status = "LIVE"
  <2>1. d = [c EXCEPT !.state = "RUNNING", !.due = FALSE]
    BY <1>3 DEF Recovery!refreshedCase
  <2> QED BY <1>3, <2>1 DEF Recovery!Case, Recovery!CaseState, Told
<1>4. CASE l.status = "FAILED"
  <2>1. d = Recovery!AfterFailure(c, l.failure, c.state = "WAITING" /\ c.due)
    BY <1>4 DEF Recovery!refreshedCase
  <2>2. \A due \in BOOLEAN:
          LET e == Recovery!AfterFailure(c, l.failure, due)
          IN  /\ e \in Recovery!Case /\ e.state # "NONE" /\ Told(e, l)
              /\ e.latest = c.latest /\ e.retryCount = c.retryCount
    BY <1>4, Failing
  <2>3. (c.state = "WAITING" /\ c.due) \in BOOLEAN  OBVIOUS
  <2> QED BY <2>1, <2>2, <2>3
<1> QED BY <1>1, <1>2, <1>3, <1>4 DEF Recovery!Run, Recovery!RunStatus

\* The three statements that write a case about the run it already knows.
LEMMA Refreshed ==
  ASSUME Recovery!RecoveryAssumption, RecoveryInv, NEW r \in Roots, Recovery!refreshCase(r)
  PROVE  RecoveryInv'
<1> DEFINE c == Recovery!refreshedCase(case[r], Recovery!LatestRun(r))
<1>1. Recovery!TypeOK /\ RequestHolds /\ RootsFail /\ Recovery!CasesTellTheirRun  BY DEF RecoveryInv
<1>2. handler.stage = "REFRESH" /\ r \in handler.todo /\ Recovery!Open(r)
  BY <1>1 DEF Recovery!refreshCase, RequestHolds
<1>3. Recovery!LatestRun(r).status # "NONE"
  BY <1>1, <1>2 DEF Recovery!CasesTellTheirRun, Recovery!Open
<1>4. Recovery!LatestRun(r).status = "LIVE" => case[r].latest # Recovery!RootKey
  BY <1>1 DEF RootsFail, Recovery!LatestRun
<1>5. c \in Recovery!Case /\ c.state # "NONE" /\ Told(c, Recovery!LatestRun(r))
      /\ c.latest = case[r].latest /\ c.retryCount = case[r].retryCount
  BY <1>1, <1>3, <1>4, CaseTyped, Refreshing
<1>6. handler \in Recovery!Reconciling
  BY <1>1, <1>2 DEF Recovery!TypeOK, Recovery!NoRequest, Recovery!Dispatched
<1>7. handler' \in Recovery!Reconciling /\ handler'.stage = "REFRESH" /\ handler'.todo = handler.todo \ {r}
  BY <1>2, <1>6 DEF Recovery!refreshCase, Recovery!Reconciling
<1>8. /\ case' = [case EXCEPT ![r] = c] /\ Recovery!Touch(r)
      /\ UNCHANGED <<run, active, edits, ends>>
  BY DEF Recovery!refreshCase
<1>9. Recovery!TypeOK' /\ RootsFail' /\ NoCaseYet' /\ Recovery!CasesTellTheirRun'
        /\ Recovery!LostRunsAreNotRetried' /\ AttemptsInTurn'
  BY <1>5, <1>7, <1>8, CaseWritten
<1>10. RequestHolds'
  BY <1>1, <1>2, <1>7, <1>8 DEF RequestHolds, Recovery!Open, Recovery!TypeOK
<1> QED BY <1>9, <1>10 DEF RecoveryInv

LEMMA Created ==
  ASSUME Recovery!RecoveryAssumption, RecoveryInv, NEW r \in Roots, Recovery!createCase(r)
  PROVE  RecoveryInv'
<1> DEFINE l == run[r][Recovery!RootKey]
           c == Recovery!AfterFailure(Recovery!NoCase, l.failure, FALSE)
<1>1. Recovery!TypeOK /\ RequestHolds /\ NoCaseYet  BY DEF RecoveryInv
<1>2. handler.stage = "DISCOVER" /\ r \in handler.todo /\ l.status = "FAILED" /\ case[r].state = "NONE"
  BY <1>1 DEF Recovery!createCase, RequestHolds
<1>3. case[r] = Recovery!NoCase  BY <1>1, <1>2 DEF NoCaseYet
<1>4. Recovery!LatestRun(r) = l /\ l \in Recovery!Run /\ Recovery!NoCase \in Recovery!Case
  BY <1>1, <1>3, CaseTyped, Keys DEF Recovery!LatestRun, Recovery!NoCase
<1>5. c \in Recovery!Case /\ c.state # "NONE" /\ Told(c, Recovery!LatestRun(r))
      /\ c.latest = case[r].latest /\ c.retryCount = case[r].retryCount
  BY <1>2, <1>3, <1>4, Failing
<1>6. handler \in Recovery!Reconciling
  BY <1>1, <1>2 DEF Recovery!TypeOK, Recovery!NoRequest, Recovery!Dispatched
<1>7. handler' \in Recovery!Reconciling /\ handler'.stage = "DISCOVER" /\ handler'.todo = handler.todo \ {r}
  BY <1>2, <1>6 DEF Recovery!createCase, Recovery!Reconciling
<1>8. /\ case' = [case EXCEPT ![r] = c] /\ Recovery!Touch(r)
      /\ UNCHANGED <<run, active, edits, ends>>
  BY DEF Recovery!createCase
<1>9. Recovery!TypeOK' /\ RootsFail' /\ NoCaseYet' /\ Recovery!CasesTellTheirRun'
        /\ Recovery!LostRunsAreNotRetried' /\ AttemptsInTurn'
  BY <1>5, <1>7, <1>8, CaseWritten
<1>10. RequestHolds'
  BY <1>1, <1>2, <1>7, <1>8 DEF RequestHolds, Recovery!TypeOK
<1> QED BY <1>9, <1>10 DEF RecoveryInv

LEMMA GivenUp ==
  ASSUME Recovery!RecoveryAssumption, RecoveryInv, NEW r \in Roots, Recovery!deadLetterDispatchFailure(r)
  PROVE  RecoveryInv'
<1> DEFINE c == [case[r] EXCEPT !.state = "DEAD_LETTERED", !.due = FALSE, !.reason = "DISPATCH_FAILED"]
<1>1. Recovery!TypeOK /\ RequestHolds /\ Recovery!CasesTellTheirRun  BY DEF RecoveryInv
<1>2. handler.stage = "RETRY" /\ r \in handler.todo /\ case[r].state = "WAITING"
  BY <1>1 DEF Recovery!deadLetterDispatchFailure, RequestHolds
<1>3. Recovery!LatestRun(r).status = "FAILED"
  BY <1>1, <1>2 DEF Recovery!CasesTellTheirRun
<1>4. case[r] \in Recovery!Case  BY <1>1, CaseTyped
<1>5. c \in Recovery!Case /\ c.state # "NONE" /\ Told(c, Recovery!LatestRun(r))
      /\ c.latest = case[r].latest /\ c.retryCount = case[r].retryCount
  BY <1>3, <1>4 DEF Recovery!Case, Recovery!CaseState, Recovery!Reason, Told
<1>6. handler \in Recovery!Reconciling
  BY <1>1, <1>2 DEF Recovery!TypeOK, Recovery!NoRequest, Recovery!Dispatched
<1>7. handler' \in Recovery!Reconciling /\ handler'.stage = "RETRY" /\ handler'.todo = handler.todo \ {r}
  BY <1>2, <1>6 DEF Recovery!deadLetterDispatchFailure, Recovery!Reconciling
<1>8. /\ case' = [case EXCEPT ![r] = c] /\ Recovery!Touch(r)
      /\ UNCHANGED <<run, active, edits, ends>>
  BY <1>1 DEF Recovery!deadLetterDispatchFailure, Recovery!TypeOK
<1>9. Recovery!TypeOK' /\ RootsFail' /\ NoCaseYet' /\ Recovery!CasesTellTheirRun'
        /\ Recovery!LostRunsAreNotRetried' /\ AttemptsInTurn'
  BY <1>5, <1>7, <1>8, CaseWritten
<1>10. RequestHolds'
  BY <1>1, <1>2, <1>7, <1>8 DEF RequestHolds, Recovery!TypeOK
<1> QED BY <1>9, <1>10 DEF RecoveryInv

-----------------------------------------------------------------------------
(* Requests, runs and time. *)

\* The next stage of a reconciliation, or its end, or its process's.
LEMMA Stages ==
  ASSUME Recovery!RecoveryAssumption, RecoveryInv,
         Recovery!reconcileConversionFailures \/ Recovery!Discover \/ Recovery!RetryDue
           \/ Recovery!Answer \/ Recovery!Stop \/ Recovery!ProfileChanges
  PROVE  RecoveryInv'
<1>1. Recovery!TypeOK /\ RequestHolds /\ MaxEnds \in Nat /\ MaxEdits \in Nat
  BY DEF RecoveryInv, Recovery!RecoveryAssumption
<1>2. UNCHANGED <<run, case, before>>
  BY DEF Recovery!reconcileConversionFailures, Recovery!Discover, Recovery!RetryDue, Recovery!Answer,
         Recovery!Stop, Recovery!ProfileChanges
<1>3. /\ active' \in BOOLEAN /\ edits' \in 0 .. MaxEdits /\ ends' \in 0 .. MaxEnds
  <2>1. active \in BOOLEAN /\ edits \in 0 .. MaxEdits /\ ends \in 0 .. MaxEnds
    BY <1>1 DEF Recovery!TypeOK
  <2>2. CASE UNCHANGED <<active, edits, ends>>  BY <2>1, <2>2
  <2>3. CASE Recovery!Stop  BY <1>1, <2>1, <2>3 DEF Recovery!Stop
  <2>4. CASE Recovery!ProfileChanges  BY <1>1, <2>1, <2>4 DEF Recovery!ProfileChanges
  <2> QED BY <2>2, <2>3, <2>4 DEF Recovery!reconcileConversionFailures, Recovery!Discover,
                                  Recovery!RetryDue, Recovery!Answer
<1>4. /\ handler' \in {Recovery!NoRequest} \cup Recovery!Reconciling \cup Recovery!Dispatched
      /\ RequestHolds'
  <2>1. CASE Recovery!reconcileConversionFailures
    BY <1>2, <2>1 DEF Recovery!reconcileConversionFailures, Recovery!openCases, Recovery!Reconciling,
                      RequestHolds, Recovery!Open
  <2>2. CASE Recovery!Discover
    BY <1>2, <2>2 DEF Recovery!Discover, Recovery!Batches, Recovery!failedConversionRecoveryCandidateIds,
                      Recovery!Reconciling, RequestHolds
  <2>3. CASE Recovery!RetryDue
    BY <1>2, <2>3 DEF Recovery!RetryDue, Recovery!Batches, Recovery!dueCases, Recovery!Reconciling,
                      RequestHolds
  <2>4. CASE handler' = Recovery!NoRequest
    BY <2>4 DEF Recovery!NoRequest, RequestHolds
  <2>5. CASE Recovery!ProfileChanges
    BY <1>1, <1>2, <2>5 DEF Recovery!ProfileChanges, RequestHolds, Recovery!TypeOK, Recovery!Open
  <2> QED BY <2>1, <2>2, <2>3, <2>4, <2>5 DEF Recovery!Answer, Recovery!Stop
<1>5. Recovery!WithCase' = Recovery!WithCase  BY <1>2 DEF Recovery!WithCase
<1>6. Recovery!TypeOK'  BY <1>1, <1>2, <1>3, <1>4, <1>5 DEF Recovery!TypeOK
<1>7. /\ RootsFail' /\ NoCaseYet' /\ Recovery!CasesTellTheirRun' /\ Recovery!LostRunsAreNotRetried'
           /\ AttemptsInTurn'
  BY <1>2 DEF RecoveryInv, RootsFail, NoCaseYet, Recovery!CasesTellTheirRun,
              Recovery!LostRunsAreNotRetried, AttemptsInTurn,
              Recovery!LatestRun, Recovery!NoOperator
<1> QED BY <1>4, <1>6, <1>7 DEF RecoveryInv

\* Its time has come: nothing else of the case changes.
LEMMA FallsDue ==
  ASSUME Recovery!RecoveryAssumption, RecoveryInv, NEW r \in Roots, Recovery!RetryFallsDue(r)
  PROVE  RecoveryInv'
<1>1. Recovery!TypeOK /\ RequestHolds  BY DEF RecoveryInv
<1>2. case[r] \in Recovery!Case  BY <1>1 DEF Recovery!TypeOK
<1>3. /\ case' \in [Roots -> Recovery!Case]
      /\ \A q \in Roots:
           /\ case'[q].state = case[q].state /\ case'[q].latest = case[q].latest
           /\ case'[q].retryCount = case[q].retryCount
           /\ case[q].state # "WAITING" => case'[q] = case[q]
  BY <1>1, <1>2 DEF Recovery!RetryFallsDue, Recovery!TypeOK, Recovery!Case
<1>4. UNCHANGED <<run, before, active, handler, edits, ends>>  BY DEF Recovery!RetryFallsDue
<1>5. Recovery!WithCase' = Recovery!WithCase
  <2>1. \A q \in Roots: case'[q].state = case[q].state  BY <1>3
  <2> QED BY <2>1 DEF Recovery!WithCase
<1>6. Recovery!TypeOK'  BY <1>1, <1>3, <1>4, <1>5 DEF Recovery!TypeOK
<1>7. \A q \in Roots: Recovery!LatestRun(q)' = Recovery!LatestRun(q)
  BY <1>3, <1>4 DEF Recovery!LatestRun
<1>8. Recovery!CasesTellTheirRun' /\ NoCaseYet' /\ RootsFail' /\ Recovery!LostRunsAreNotRetried'
  BY <1>3, <1>4, <1>7 DEF RecoveryInv, Recovery!CasesTellTheirRun, NoCaseYet, RootsFail,
                          Recovery!LostRunsAreNotRetried
<1>9. AttemptsInTurn'
  BY <1>3, <1>4, <1>7 DEF RecoveryInv, AttemptsInTurn, Recovery!NoOperator
<1>10. RequestHolds'
  <2>1. handler.stage = "RECORD" => handler.root \in Roots
    BY <1>1 DEF Recovery!TypeOK, Recovery!NoRequest, Recovery!Reconciling, Recovery!Dispatched
  <2>2. handler.stage \in {"REFRESH", "DISCOVER", "RETRY", "RECORD"} => handler.todo \subseteq Roots
    BY <1>1 DEF Recovery!TypeOK, Recovery!NoRequest, Recovery!Reconciling, Recovery!Dispatched
  <2>3. \A q \in Roots: case'[q].state = case[q].state /\ case'[q].retryCount = case[q].retryCount
    BY <1>3
  <2>4. handler' = handler /\ run' = run  BY <1>4
  <2> QED BY <1>1, <2>1, <2>2, <2>3, <2>4 DEF RequestHolds, Recovery!Open
<1> QED BY <1>6, <1>8, <1>9, <1>10 DEF RecoveryInv

\* A run that ends was live or, if it is a case's first, had not failed yet.
LEMMA Ending ==
  ASSUME Recovery!RecoveryAssumption, RecoveryInv, NEW r \in Roots, NEW k \in Recovery!Key,
         Recovery!RunEnds(r, k)
  PROVE  RecoveryInv'
<1>1. Recovery!TypeOK /\ RootsFail /\ Recovery!CasesTellTheirRun /\ Recovery!LostRunsAreNotRetried
        /\ AttemptsInTurn /\ NoCaseYet
  BY DEF RecoveryInv
<1>2. UNCHANGED <<case, before, active, handler, edits, ends>> /\ handler = Recovery!NoRequest
  BY DEF Recovery!RunEnds, Recovery!Free
<1>3. run[r][k] \in Recovery!Run /\ run[r] \in [Recovery!Key -> Recovery!Run]  BY <1>1 DEF Recovery!TypeOK
<1>4. /\ run' \in [Roots -> [Recovery!Key -> Recovery!Run]]
      /\ \A q \in Roots: \A j \in Recovery!Key: q # r \/ j # k => run'[q][j] = run[q][j]
      /\ run'[r][k].status \in {"FAILED", "COMPLETED", "CANCELLED"} /\ run'[r][k].after = run[r][k].after
      /\ run[r][k].status = "LIVE"
           \/ (k = Recovery!RootKey /\ run[r][k].status = "NONE" /\ run'[r][k].status = "FAILED")
  <2>1. CASE \E f \in Recovery!Failure \ {"NONE"}:
               /\ run' = [run EXCEPT ![r][k].status = "FAILED", ![r][k].failure = f]
               /\ run[r][k].status = "LIVE" \/ (k = Recovery!RootKey /\ run[r][k].status = "NONE")
    <3>1. PICK f \in Recovery!Failure \ {"NONE"}:
               /\ run' = [run EXCEPT ![r][k].status = "FAILED", ![r][k].failure = f]
               /\ run[r][k].status = "LIVE" \/ (k = Recovery!RootKey /\ run[r][k].status = "NONE")
      BY <2>1
    <3>2. run' \in [Roots -> [Recovery!Key -> Recovery!Run]]
      BY <1>1, <3>1 DEF Recovery!TypeOK, Recovery!Run, Recovery!RunStatus
    <3>3. run'[r][k].status = "FAILED" /\ run'[r][k].after = run[r][k].after
      BY <1>1, <3>1 DEF Recovery!TypeOK, Recovery!Run
    <3>4. \A q \in Roots: \A j \in Recovery!Key: q # r \/ j # k => run'[q][j] = run[q][j]
      BY <1>1, <3>1 DEF Recovery!TypeOK, Recovery!Run
    <3> QED BY <3>1, <3>2, <3>3, <3>4
  <2>2. CASE \E s \in {"COMPLETED", "CANCELLED"}:
               run' = [run EXCEPT ![r][k].status = s] /\ run[r][k].status = "LIVE"
    <3>1. PICK s \in {"COMPLETED", "CANCELLED"}:
               run' = [run EXCEPT ![r][k].status = s] /\ run[r][k].status = "LIVE"
      BY <2>2
    <3>2. run' \in [Roots -> [Recovery!Key -> Recovery!Run]]
      BY <1>1, <3>1 DEF Recovery!TypeOK, Recovery!Run, Recovery!RunStatus
    <3>3. run'[r][k].status = s /\ run'[r][k].after = run[r][k].after
      BY <1>1, <3>1 DEF Recovery!TypeOK, Recovery!Run
    <3>4. \A q \in Roots: \A j \in Recovery!Key: q # r \/ j # k => run'[q][j] = run[q][j]
      BY <1>1, <3>1 DEF Recovery!TypeOK, Recovery!Run
    <3> QED BY <3>1, <3>2, <3>3, <3>4
  <2>3. \/ \E f \in Recovery!Failure \ {"NONE"}:
            /\ run' = [run EXCEPT ![r][k].status = "FAILED", ![r][k].failure = f]
            /\ run[r][k].status = "LIVE" \/ (k = Recovery!RootKey /\ run[r][k].status = "NONE")
        \/ \E s \in {"COMPLETED", "CANCELLED"}:
            run' = [run EXCEPT ![r][k].status = s] /\ run[r][k].status = "LIVE"
    BY Zenon DEF Recovery!RunEnds
  <2> QED BY <2>1, <2>2, <2>3
<1>6. \A q \in Roots: \A j \in Recovery!Key:
        /\ run[q][j].status \in {"FAILED", "CANCELLED", "COMPLETED"} => run'[q][j] = run[q][j]
        /\ j # Recovery!RootKey => (run'[q][j].status = "NONE" <=> run[q][j].status = "NONE")
        /\ run[q][j].status # "NONE" => run'[q][j].status # "NONE"
        /\ run[q][j].status # "LIVE" => run'[q][j].status # "LIVE"
        /\ run'[q][j].after = run[q][j].after
  BY <1>4
<1>7. \A q \in Roots: case[q].latest \in Recovery!Key
  BY <1>1, CaseTyped
<1>8. RootsFail'
  BY <1>1, <1>4, Keys DEF RootsFail
<1>9. Recovery!CasesTellTheirRun'
  BY <1>1, <1>2, <1>6, <1>7 DEF Recovery!CasesTellTheirRun, Recovery!LatestRun
<1>10. Recovery!LostRunsAreNotRetried'
  <2>1. \A q \in Roots: \A j \in Recovery!RetryKey: j \in Recovery!Key /\ j # Recovery!RootKey
          /\ run[q][j].after \in Recovery!Key
    BY <1>1, Keys, CaseTyped DEF Recovery!Run
  <2> QED BY <1>1, <1>6, <2>1 DEF Recovery!LostRunsAreNotRetried
<1>11. AttemptsInTurn'
  <2>1. \A j \in Recovery!RetryKey \cup Recovery!OperatorKey: j \in Recovery!Key /\ j # Recovery!RootKey
    BY Keys
  <2>2. \A q \in Roots: Recovery!NoOperator(q)' => Recovery!NoOperator(q)
    BY <1>6, <2>1 DEF Recovery!NoOperator
  <2>3. \A q \in Roots: Recovery!LatestRun(q).status # "LIVE" => Recovery!LatestRun(q)'.status # "LIVE"
    BY <1>2, <1>6, <1>7 DEF Recovery!LatestRun
  <2> QED BY <1>1, <1>2, <1>6, <2>1, <2>2, <2>3 DEF AttemptsInTurn
<1>12. Recovery!TypeOK' /\ NoCaseYet' /\ RequestHolds'
  BY <1>1, <1>2, <1>4 DEF Recovery!TypeOK, NoCaseYet, RequestHolds, Recovery!NoRequest, Recovery!WithCase
<1> QED BY <1>8, <1>9, <1>10, <1>11, <1>12 DEF RecoveryInv

-----------------------------------------------------------------------------
(* Retries. *)

\* A dispatch starts a run under a new key or finds the one it started before.
LEMMA Dispatching ==
  ASSUME Recovery!RecoveryAssumption, RecoveryInv, NEW r \in Roots,
         NEW key \in Recovery!RetryKey \cup Recovery!OperatorKey,
         NEW todo \in SUBSET Roots, Recovery!DispatchRun(r, key), UNCHANGED <<case, before, active,
         edits, ends>>,
         handler' = [stage |-> "RECORD", todo |-> todo, root |-> r, key |-> key],
         r \notin todo, \A q \in todo: case[q].state = "WAITING", Recovery!Ended(r), case[r].state # "NONE",
         key \in Recovery!RetryKey => case[r].state = "WAITING" /\ key = Attempt(case[r].retryCount + 1)
  PROVE  RecoveryInv'
<1>1. Recovery!TypeOK /\ RootsFail /\ NoCaseYet /\ Recovery!CasesTellTheirRun
        /\ Recovery!LostRunsAreNotRetried /\ AttemptsInTurn
  BY DEF RecoveryInv
<1>2. key \in Recovery!Key /\ key # Recovery!RootKey /\ case[r].latest \in Recovery!Key
  BY <1>1, Keys, CaseTyped
<1>3. UNCHANGED <<case, before, active, edits, ends>>  OBVIOUS
<1>4. /\ run' \in [Roots -> [Recovery!Key -> Recovery!Run]]
      /\ \A q \in Roots: \A j \in Recovery!Key: q # r \/ j # key => run'[q][j] = run[q][j]
      /\ run[r][key].status # "NONE" => run' = run
      /\ run[r][key].status = "NONE" =>
           run'[r][key] = [status |-> "LIVE", failure |-> "NONE", after |-> case[r].latest]
  <2>1. CASE run[r][key].status = "NONE"
    <3> DEFINE new == [status |-> "LIVE", failure |-> "NONE", after |-> case[r].latest]
    <3>1. new \in Recovery!Run  BY <1>2 DEF Recovery!Run, Recovery!RunStatus, Recovery!Failure
    <3>2. run' = [run EXCEPT ![r][key] = new]  BY <2>1 DEF Recovery!DispatchRun
    <3> QED BY <1>1, <1>2, <2>1, <3>1, <3>2 DEF Recovery!TypeOK
  <2>2. CASE run[r][key].status # "NONE"
    BY <1>1, <2>2 DEF Recovery!DispatchRun, Recovery!TypeOK
  <2> QED BY <2>1, <2>2
<1>5. \A q \in Roots: \A j \in Recovery!Key:
        /\ run[q][j].status # "NONE" => run'[q][j] = run[q][j]
        /\ run'[q][j].status = "NONE" => run[q][j].status = "NONE"
  BY <1>4
<1>6. run'[r][key].status # "NONE"
  BY <1>4
<1>7. \A q \in Roots: Recovery!LatestRun(q)' = Recovery!LatestRun(q)
  <2>1. \A q \in Roots: case[q].latest \in Recovery!Key  BY <1>1, CaseTyped
  <2>2. Recovery!LatestRun(r).status # "NONE"  BY DEF Recovery!Ended
  <2> QED BY <1>3, <1>4, <1>5, <2>1, <2>2 DEF Recovery!LatestRun
<1>8. Recovery!CasesTellTheirRun'
  BY <1>1, <1>3, <1>7 DEF Recovery!CasesTellTheirRun
<1>9. RootsFail' /\ NoCaseYet'
  BY <1>1, <1>2, <1>3, <1>4, Keys DEF RootsFail, NoCaseYet
<1>10. Recovery!LostRunsAreNotRetried'
  <2> SUFFICES ASSUME NEW q \in Roots, NEW j \in Recovery!RetryKey, run'[q][j].status # "NONE"
               PROVE  /\ run'[q][run'[q][j].after].status = "FAILED"
                      /\ run'[q][run'[q][j].after].failure = "TRANSIENT"
    BY DEF Recovery!LostRunsAreNotRetried
  <2>1. j \in Recovery!Key  BY Keys
  <2>2. CASE run[q][j].status # "NONE"
    <3>1. run'[q][j] = run[q][j] /\ run[q][j].after \in Recovery!Key
      BY <1>1, <1>5, <2>1, <2>2, CaseTyped DEF Recovery!Run
    <3>2. run[q][run[q][j].after].status = "FAILED" /\ run[q][run[q][j].after].failure = "TRANSIENT"
      BY <1>1, <2>2 DEF Recovery!LostRunsAreNotRetried
    <3> QED BY <1>5, <3>1, <3>2
  <2>3. CASE run[q][j].status = "NONE"
    <3>1. q = r /\ j = key  BY <1>4, <2>1, <2>3
    <3>2. run'[q][j].after = case[r].latest  BY <1>4, <2>3, <3>1
    <3>3. Recovery!LatestRun(r).status = "FAILED" /\ Recovery!LatestRun(r).failure = "TRANSIENT"
      BY <1>1, <3>1 DEF Recovery!CasesTellTheirRun, Recovery!conversionFailureIsAutoRetryable
    <3>4. run'[r][case[r].latest] = Recovery!LatestRun(r)
      BY <1>2, <1>5, <3>3 DEF Recovery!LatestRun
    <3> QED BY <3>1, <3>2, <3>3, <3>4
  <2> QED BY <2>2, <2>3
<1>11. AttemptsInTurn'
  <2> SUFFICES ASSUME NEW q \in Roots, Recovery!NoOperator(q)'
               PROVE  /\ case[q].latest = Attempt(case[q].retryCount)
                      /\ \A k \in Recovery!RetryKey:
                           /\ k[2] < case[q].retryCount => run'[q][k].status # "LIVE"
                           /\ k[2] = case[q].retryCount + 1 /\ run'[q][k].status # "NONE" =>
                                Recovery!LatestRun(q).status # "LIVE"
                           /\ k[2] > case[q].retryCount + 1 => run'[q][k].status = "NONE"
    BY <1>3, <1>7 DEF AttemptsInTurn
  <2>1. Recovery!NoOperator(q)
    BY <1>5, Keys DEF Recovery!NoOperator
  <2>2. /\ case[q].latest = Attempt(case[q].retryCount)
        /\ \A k \in Recovery!RetryKey:
             /\ k[2] < case[q].retryCount => run[q][k].status # "LIVE"
             /\ k[2] = case[q].retryCount + 1 /\ run[q][k].status # "NONE"
                  => Recovery!LatestRun(q).status # "LIVE"
             /\ k[2] > case[q].retryCount + 1 => run[q][k].status = "NONE"
    BY <1>1, <2>1 DEF AttemptsInTurn
  <2>3. CASE q # r
    BY <1>4, <2>2, <2>3, Keys
  <2>4. CASE q = r
    <3>1. key \notin Recovery!OperatorKey  BY <1>6, <2>4 DEF Recovery!NoOperator
    <3>2. key = Attempt(case[r].retryCount + 1) /\ case[r].state = "WAITING"  BY <3>1
    <3>3. case[r].retryCount + 1 \in 1 .. MaxRetries
      BY <1>1, <3>2, CaseTyped DEF Recovery!CasesTellTheirRun, Recovery!RecoveryAssumption
    <3>4. key[2] = case[r].retryCount + 1
      BY <3>2, <3>3, Keys
    <3>5. \A k \in Recovery!RetryKey: k # key => k \in Recovery!Key /\ run'[r][k] = run[r][k]
      BY <1>4, Keys
    <3>6. Recovery!LatestRun(r).status # "LIVE"
      BY DEF Recovery!Ended
    <3>7. case[r].retryCount \in 0 .. MaxRetries  BY <1>1, CaseTyped
    <3> QED BY <2>2, <2>4, <3>4, <3>5, <3>6, <3>7
  <2> QED BY <2>3, <2>4
<1>12. handler' \in Recovery!Dispatched
  BY DEF Recovery!Dispatched
<1>13. Recovery!TypeOK'
  <2>1. Recovery!WithCase' = Recovery!WithCase  BY <1>3 DEF Recovery!WithCase
  <2> QED BY <1>1, <1>3, <1>4, <1>12, <2>1 DEF Recovery!TypeOK
<1>14. RequestHolds'
  BY <1>3, <1>6 DEF RequestHolds
<1> QED BY <1>8, <1>9, <1>10, <1>11, <1>13, <1>14 DEF RecoveryInv

\* The reconciler's retries, and the operators'.
LEMMA Retrying ==
  ASSUME Recovery!RecoveryAssumption, RecoveryInv, NEW r \in Roots, Recovery!dispatchRetry(r)
  PROVE  RecoveryInv'
<1>1. Recovery!TypeOK /\ RequestHolds /\ Recovery!CasesTellTheirRun  BY DEF RecoveryInv
<1>2. handler.stage = "RETRY" /\ r \in handler.todo /\ handler.todo \in SUBSET Roots
  BY <1>1 DEF Recovery!dispatchRetry, Recovery!TypeOK, Recovery!NoRequest, Recovery!Reconciling,
              Recovery!Dispatched
<1>3. \A q \in handler.todo: case[q].state = "WAITING"
  BY <1>1, <1>2 DEF RequestHolds
<1>4. case[r].retryCount + 1 \in 1 .. MaxRetries
  BY <1>1, <1>2, <1>3, CaseTyped DEF Recovery!CasesTellTheirRun, Recovery!RecoveryAssumption
<1>5. Recovery!NextKey(r, FALSE) = Attempt(case[r].retryCount + 1)
        /\ Recovery!NextKey(r, FALSE) \in Recovery!RetryKey
  BY <1>4, Keys DEF Recovery!NextKey, Attempt
<1> DEFINE todo == handler.todo \ {r}
<1>6. todo \in SUBSET Roots /\ r \notin todo /\ \A q \in todo: case[q].state = "WAITING"
  BY <1>2, <1>3
<1> QED BY <1>2, <1>3, <1>5, <1>6, Dispatching DEF Recovery!dispatchRetry

LEMMA RetryingNow ==
  ASSUME Recovery!RecoveryAssumption, RecoveryInv, NEW r \in Roots,
         Recovery!retryConversionRecoveryCaseNow(r)
  PROVE  RecoveryInv'
<1>1. Recovery!TypeOK  BY DEF RecoveryInv
<1>2. case[r].operatorOverrideCount + 1 \in 1 .. MaxOperator
  BY <1>1, CaseTyped DEF Recovery!retryConversionRecoveryCaseNow, Recovery!Case, Recovery!RecoveryAssumption
<1>3. Recovery!NextKey(r, TRUE) \in Recovery!OperatorKey
        /\ Recovery!NextKey(r, TRUE) \notin Recovery!RetryKey
  BY <1>2, Keys DEF Recovery!NextKey
<1>4. {} \in SUBSET Roots  OBVIOUS
<1>5. case[r].state # "NONE"  BY DEF Recovery!retryConversionRecoveryCaseNow
<1> QED BY <1>3, <1>4, <1>5, Dispatching DEF Recovery!retryConversionRecoveryCaseNow

\* The case learns of its replacement, also of one dispatched before a crash.
LEMMA Recorded ==
  ASSUME Recovery!RecoveryAssumption, RecoveryInv, Recovery!persistCase
  PROVE  RecoveryInv'
<1> DEFINE r == handler.root
           key == handler.key
           c == Recovery!Retried(r, key)
           n == case[r].retryCount
<1>1. Recovery!TypeOK /\ RequestHolds /\ RootsFail /\ NoCaseYet /\ Recovery!CasesTellTheirRun
        /\ Recovery!LostRunsAreNotRetried
      /\ AttemptsInTurn
  BY DEF RecoveryInv
<1>2. handler \in Recovery!Dispatched
  BY <1>1 DEF Recovery!persistCase, Recovery!TypeOK, Recovery!NoRequest, Recovery!Reconciling
<1>3. r \in Roots /\ handler.todo \in SUBSET Roots /\ key \in Recovery!RetryKey \cup Recovery!OperatorKey
  BY <1>2 DEF Recovery!Dispatched
<1>4. /\ r \notin handler.todo /\ case[r].state # "NONE" /\ run[r][key].status # "NONE"
      /\ key \in Recovery!RetryKey => case[r].state = "WAITING" /\ key = Attempt(n + 1)
      /\ \A q \in handler.todo: case[q].state = "WAITING"
  BY <1>1 DEF Recovery!persistCase, RequestHolds
<1>5. key \in Recovery!Key /\ key # Recovery!RootKey  BY <1>3, Keys
<1>6. case[r] \in Recovery!Case /\ n \in 0 .. MaxRetries  BY <1>1, <1>3, CaseTyped
<1>7. /\ c \in Recovery!Case /\ c.state = "RUNNING" /\ c.latest = key
      /\ key \in Recovery!RetryKey => c.retryCount = key[2]
  <2>1. CASE key \in Recovery!RetryKey
    <3>1. key[2] \in 0 .. MaxRetries /\ key \notin Recovery!OperatorKey  BY <2>1, Keys
    <3>2. c = [case[r] EXCEPT !.state = "RUNNING", !.due = FALSE, !.reason = "NONE", !.latest = key,
                              !.retryCount = key[2]]
      BY <1>6, <2>1, <3>1 DEF Recovery!Retried, Recovery!Case
    <3> QED BY <1>5, <1>6, <3>1, <3>2 DEF Recovery!Case, Recovery!CaseState, Recovery!Reason
  <2>2. CASE key \in Recovery!OperatorKey
    <3>1. key[2] \in 0 .. MaxOperator /\ key \notin Recovery!RetryKey  BY <2>2, Keys
    <3>2. c = [case[r] EXCEPT !.state = "RUNNING", !.due = FALSE, !.reason = "NONE", !.latest = key,
                              !.operatorOverrideCount = key[2]]
      BY <1>6, <2>2, <3>1 DEF Recovery!Retried, Recovery!Case
    <3> QED BY <1>5, <1>6, <3>1, <3>2 DEF Recovery!Case, Recovery!CaseState, Recovery!Reason
  <2> QED BY <1>3, <2>1, <2>2
<1>8. case' = [case EXCEPT ![r] = c] /\ Recovery!Touch(r) /\ UNCHANGED <<run, active, edits, ends>>
  BY DEF Recovery!persistCase
<1>9. case'[r] = c /\ case' \in [Roots -> Recovery!Case] /\ \A q \in Roots: q # r => case'[q] = case[q]
  BY <1>1, <1>3, <1>7, <1>8 DEF Recovery!TypeOK
<1>10. \/ handler' = Recovery!NoRequest
       \/ handler' \in Recovery!Reconciling /\ handler'.stage = "RETRY" /\ handler'.todo = handler.todo
  BY <1>3 DEF Recovery!persistCase, Recovery!Reconciling
<1>11. Recovery!WithCase' = Recovery!WithCase \cup {r}
  BY <1>3, <1>7, <1>9 DEF Recovery!WithCase
<1>12. Recovery!TypeOK'
  BY <1>1, <1>3, <1>8, <1>9, <1>10, <1>11, TouchOrders DEF Recovery!TypeOK
<1>13. RequestHolds'
  BY <1>3, <1>4, <1>9, <1>10 DEF RequestHolds, Recovery!NoRequest
<1>14. Recovery!CasesTellTheirRun'
  BY <1>1, <1>3, <1>4, <1>5, <1>7, <1>8, <1>9 DEF Recovery!CasesTellTheirRun, Recovery!LatestRun
<1>15. RootsFail' /\ NoCaseYet' /\ Recovery!LostRunsAreNotRetried'
  BY <1>1, <1>7, <1>8, <1>9 DEF RootsFail, NoCaseYet, Recovery!LostRunsAreNotRetried
<1>16. AttemptsInTurn'
  <2> SUFFICES ASSUME NEW q \in Roots, Recovery!NoOperator(q)
               PROVE  /\ case'[q].latest = Attempt(case'[q].retryCount)
                      /\ \A k \in Recovery!RetryKey:
                           /\ k[2] < case'[q].retryCount => run[q][k].status # "LIVE"
                           /\ k[2] = case'[q].retryCount + 1 /\ run[q][k].status # "NONE" =>
                                Recovery!LatestRun(q)'.status # "LIVE"
                           /\ k[2] > case'[q].retryCount + 1 => run[q][k].status = "NONE"
    BY <1>8 DEF AttemptsInTurn, Recovery!NoOperator
  <2>1. /\ case[q].latest = Attempt(case[q].retryCount)
        /\ \A k \in Recovery!RetryKey:
             /\ k[2] < case[q].retryCount => run[q][k].status # "LIVE"
             /\ k[2] = case[q].retryCount + 1 /\ run[q][k].status # "NONE"
                  => Recovery!LatestRun(q).status # "LIVE"
             /\ k[2] > case[q].retryCount + 1 => run[q][k].status = "NONE"
    BY <1>1 DEF AttemptsInTurn
  <2>2. CASE q # r
    <3>1. Recovery!LatestRun(q)' = Recovery!LatestRun(q)  BY <1>8, <1>9, <2>2 DEF Recovery!LatestRun
    <3> QED BY <1>9, <2>1, <2>2, <3>1
  <2>3. CASE q = r
    <3>1. key \in Recovery!RetryKey /\ key = Attempt(n + 1) /\ case[r].state = "WAITING"
      BY <1>3, <1>4, <2>3 DEF Recovery!NoOperator
    <3>2. n + 1 \in 1 .. MaxRetries
      BY <1>1, <1>3, <1>6, <3>1 DEF Recovery!CasesTellTheirRun, Recovery!RecoveryAssumption
    <3>3. key[2] = n + 1 /\ c.retryCount = n + 1 /\ c.latest = Attempt(n + 1)
      BY <1>7, <3>1, <3>2, Keys
    <3>4. Recovery!LatestRun(r).status # "LIVE"
      BY <1>4, <2>1, <2>3, <3>1, <3>3
    <3>5. \A k \in Recovery!RetryKey: k[2] = n => run[r][k].status # "LIVE"
      BY <2>1, <2>3, <3>4, Keys DEF Recovery!LatestRun
    <3>6. \A k \in Recovery!RetryKey: k[2] \in Int  BY Keys
    <3> QED BY <1>6, <1>9, <2>1, <2>3, <3>3, <3>5, <3>6
  <2> QED BY <2>2, <2>3
<1> QED BY <1>12, <1>13, <1>14, <1>15, <1>16 DEF RecoveryInv

LEMMA RecoveryNext == ASSUME Recovery!RecoveryAssumption, RecoveryInv,
                             [Recovery!Next]_(Recovery!vars) PROVE RecoveryInv'
<1>1. ASSUME NEW r \in Roots, NEW k \in Recovery!Key, Recovery!RunEnds(r, k) PROVE RecoveryInv'
  BY <1>1, Ending
<1>2. ASSUME NEW r \in Roots,
             Recovery!RetryFallsDue(r) \/ Recovery!retryConversionRecoveryCaseNow(r) PROVE RecoveryInv'
  BY <1>2, FallsDue, RetryingNow
<1>3. ASSUME NEW r \in Roots,
             Recovery!refreshCase(r) \/ Recovery!createCase(r) \/ Recovery!dispatchRetry(r)
               \/ Recovery!deadLetterDispatchFailure(r)
      PROVE  RecoveryInv'
  BY <1>3, Refreshed, Created, Retrying, GivenUp
<1>4. CASE Recovery!reconcileConversionFailures \/ Recovery!Discover \/ Recovery!RetryDue
             \/ Recovery!Answer \/ Recovery!Stop \/ Recovery!ProfileChanges
  BY <1>4, Stages
<1>5. CASE Recovery!persistCase
  BY <1>5, Recorded
<1>6. CASE UNCHANGED Recovery!vars
  BY <1>6 DEF Recovery!vars, RecoveryInv, Recovery!TypeOK, Recovery!WithCase, RootsFail, NoCaseYet,
              RequestHolds, Recovery!Open, Recovery!CasesTellTheirRun,
              Recovery!LostRunsAreNotRetried, AttemptsInTurn, Recovery!NoOperator, Recovery!LatestRun
<1> QED BY <1>1, <1>2, <1>3, <1>4, <1>5, <1>6 DEF Recovery!Next, Recovery!HandlerStep

\* The attempts in turn leave one of them live.
LEMMA OneLive == ASSUME Recovery!RecoveryAssumption, RecoveryInv PROVE Recovery!OneLiveReplacement
<1> SUFFICES ASSUME NEW r \in Roots, Recovery!NoOperator(r), NEW k \in Recovery!Key, NEW l \in Recovery!Key,
                    run[r][k].status = "LIVE", run[r][l].status = "LIVE"
             PROVE  k = l
  BY DEF Recovery!OneLiveReplacement
<1> DEFINE n == case[r].retryCount
<1>1. Recovery!TypeOK /\ RootsFail /\ AttemptsInTurn  BY DEF RecoveryInv
<1>2. k \in Recovery!RetryKey /\ l \in Recovery!RetryKey
  BY <1>1, Keys DEF RootsFail, Recovery!NoOperator
<1>3. n \in 0 .. MaxRetries  BY <1>1, CaseTyped
<1>4. \A j \in Recovery!RetryKey: j[2] \in Int /\ j = Attempt(j[2])  BY Keys
<1>5. /\ case[r].latest = Attempt(n)
      /\ \A j \in Recovery!RetryKey:
           /\ j[2] < n => run[r][j].status # "LIVE"
           /\ j[2] = n + 1 /\ run[r][j].status # "NONE" => Recovery!LatestRun(r).status # "LIVE"
           /\ j[2] > n + 1 => run[r][j].status = "NONE"
  BY <1>1 DEF AttemptsInTurn
<1>6. \A j \in Recovery!RetryKey: run[r][j].status = "LIVE" => j[2] = n \/ j[2] = n + 1
  BY <1>3, <1>4, <1>5
<1>7. \A j \in Recovery!RetryKey: j[2] = n => Recovery!LatestRun(r) = run[r][j]
  BY <1>4, <1>5 DEF Recovery!LatestRun
<1>8. k[2] = l[2]
  BY <1>2, <1>5, <1>6, <1>7
<1> QED BY <1>2, <1>4, <1>8

\* FailureRecovery: whatever a reconciliation died after, a case tells the truth
\* about its latest run, no automatic retry replaces a run that did not fail for a
\* passing reason, and a run no operator retries has one live replacement; for any
\* number of roots, retries, operators' requests and crashes.
THEOREM FailuresAreTold ==
  ASSUME Recovery!RecoveryAssumption
  PROVE  Recovery!Spec => []CasesTellTheirRun
<1>1. Recovery!Init => RecoveryInv  BY RecoveryInit
<1>2. RecoveryInv /\ [Recovery!Next]_(Recovery!vars) => RecoveryInv'  BY RecoveryNext
<1>3. RecoveryInv => CasesTellTheirRun
  BY OneLive DEF RecoveryInv, CasesTellTheirRun
<1> QED BY <1>1, <1>2, <1>3, PTL DEF Recovery!Spec
================================================================================

------------------------------ MODULE WebCampaign ------------------------------
(***************************************************************************)
(* A bulk web acquisition campaign over one source: the URL catalog of     *)
(* web-url-catalog.ts and the script of web-acquisition-campaign.ts that   *)
(* discovers a site, takes the next batch of URLs, points the source at    *)
(* it, dispatches a run and marks the batch as queued.                     *)
(*                                                                         *)
(* The script keeps nothing between its requests and its statements but    *)
(* the batch it chose; workers end runs, operators close the campaign and  *)
(* the script may die between any two of its steps.  A discovery lists the *)
(* site in one order, so a URL is its number in that order.                *)
(***************************************************************************)
EXTENDS Integers, Sequences, FiniteSets

CONSTANTS
  Urls,          \* numbers of the site's URLs
  Discoveries,   \* what a discovery may find: [found, eligible]
  Processes,     \* scripts that may run together
  BatchLimit,    \* URLs of a batch (the source's maxPages)
  PruneLimit,    \* rows of a prune
  MaxDays,       \* bound on the dates; a run of the last one does not fail
  MaxRuns,       \* bound on the runs
  MaxStops       \* bound on the crashes

ASSUME CampaignAssumption ==
  /\ Urls \subseteq Nat /\ IsFiniteSet(Urls)
  /\ \A d \in Discoveries: d.found \subseteq Urls /\ d.eligible \subseteq d.found
  /\ BatchLimit \in Nat \ {0} /\ PruneLimit \in Nat \ {0}
  /\ MaxDays \in Nat \ {0} /\ MaxRuns \in Nat /\ MaxStops \in Nat

VARIABLES
  lifecycle,   \* state of the campaign
  row,         \* Url -> its catalog row
  history,     \* URLs with a row in web_url_catalog_history
  entry,       \* entrypoints of the source
  runs,        \* the campaign's runs in the order of dispatch
  artifacts,   \* URLs with a raw artifact
  script,      \* Process -> how far it is
  day, stops

vars == <<lifecycle, row, history, entry, runs, artifacts, script, day, stops>>

RowStatus == {"NONE", "DISCOVERED", "QUEUED", "FETCHED", "FAILED", "COLD"}
\* `run` is queued_run_id by its number, 0 for none; `bound` tells a source_id.
Row == [status: RowStatus, eligible: BOOLEAN, bound: BOOLEAN, run: 0 .. MaxRuns]
NoRow == [status |-> "NONE", eligible |-> FALSE, bound |-> FALSE, run |-> 0]

\* `key` holds what tells idempotency keys of the campaign apart, `urls` the source snapshot.
Run == [key: [day: 1 .. MaxDays, batch: SUBSET Urls], urls: SUBSET Urls,
        status: {"LIVE", "COMPLETED", "FAILED", "CANCELLED"}]

Step == {"IDLE", "RECONCILE", "RELEASE", "SELECT", "SOURCE", "BIND", "DISPATCH", "MARK"}
Script == [at: Step, batch: SUBSET Urls, run: 0 .. MaxRuns]
Resting == [at |-> "IDLE", batch |-> {}, run |-> 0]

Init ==
  /\ lifecycle = "NONE"
  /\ row = [u \in Urls |-> NoRow]
  /\ history = {}
  /\ entry = {}
  /\ runs = <<>>
  /\ artifacts = {}
  /\ script = [p \in Processes |-> Resting]
  /\ day = 1
  /\ stops = 0

Goes(p, step) == script' = [script EXCEPT ![p].at = step]
Ends(p) == script' = [script EXCEPT ![p] = Resting]

\* ensureActiveCampaign establishes the lifecycle of a new campaign.
Active == lifecycle \in {"NONE", "ACTIVE"}

-----------------------------------------------------------------------------
\* The script.

upsertDiscovered(p, d) ==
  /\ script[p].at = "IDLE"
  /\ Active
  /\ lifecycle' = "ACTIVE"
  /\ row' = [u \in Urls |->
       IF u \notin d.found THEN row[u]
       ELSE [row[u] EXCEPT !.status = IF @ \in {"QUEUED", "FETCHED", "FAILED"} THEN @ ELSE "DISCOVERED",
                           !.eligible = u \in d.eligible]]
  /\ Goes(p, "RECONCILE")
  /\ UNCHANGED <<history, entry, runs, artifacts, day, stops>>

\* The three updates of reconcile, each committed on its own.
reconcileFetched(p) ==
  /\ script[p].at = "RECONCILE"
  /\ row' = [u \in Urls |->
       IF row[u].status # "NONE" /\ row[u].bound /\ u \in artifacts
       THEN [row[u] EXCEPT !.status = "FETCHED"] ELSE row[u]]
  /\ Goes(p, "RELEASE")
  /\ UNCHANGED <<lifecycle, history, entry, runs, artifacts, day, stops>>

QueuedUnder(u, statuses) ==
  row[u].status = "QUEUED" /\ row[u].run # 0 /\ runs[row[u].run].status \in statuses

reconcileReleased(p) ==
  /\ script[p].at = "RELEASE"
  /\ row' = [u \in Urls |->
       IF QueuedUnder(u, {"FAILED", "CANCELLED"})
       THEN [row[u] EXCEPT !.status = "DISCOVERED", !.run = 0] ELSE row[u]]
  /\ Goes(p, "SELECT")
  /\ UNCHANGED <<lifecycle, history, entry, runs, artifacts, day, stops>>

reconcileFailed ==
  [u \in Urls |->
    IF QueuedUnder(u, {"COMPLETED"}) THEN [row[u] EXCEPT !.status = "FAILED"] ELSE row[u]]

\* The first `BatchLimit` candidates of the catalog.
nextBatch(rows) ==
  LET candidates == {u \in Urls: rows[u].status = "DISCOVERED" /\ rows[u].eligible}
  IN {u \in candidates: Cardinality({v \in candidates: v < u}) < BatchLimit}

selectBatch(p) ==
  /\ script[p].at = "SELECT"
  /\ Active
  /\ lifecycle' = "ACTIVE"
  /\ row' = reconcileFailed
  /\ script' = [script EXCEPT ![p] = [at |-> "SOURCE", batch |-> nextBatch(reconcileFailed), run |-> 0]]
  /\ UNCHANGED <<history, entry, runs, artifacts, day, stops>>

\* The source keeps the batch it was created with.
KeepsEntrypoints(p) ==
  /\ script[p].at = "SOURCE"
  /\ entry' = IF entry = {} THEN script[p].batch ELSE entry
  /\ Goes(p, "BIND")
  /\ UNCHANGED <<lifecycle, row, history, runs, artifacts, day, stops>>

\* An exhausted catalog keeps the source's last batch, and needs one to exist.
ensureCampaignSource(p) ==
  /\ script[p].at = "SOURCE"
  /\ script[p].batch # {} \/ entry # {}
  /\ entry' = IF script[p].batch = {} THEN entry ELSE script[p].batch
  /\ Goes(p, "BIND")
  /\ UNCHANGED <<lifecycle, row, history, runs, artifacts, day, stops>>

NoSource(p) ==
  /\ script[p].at = "SOURCE"
  /\ script[p].batch = {} /\ entry = {}
  /\ Ends(p)
  /\ UNCHANGED <<lifecycle, row, history, entry, runs, artifacts, day, stops>>

bindSource(p) ==
  /\ script[p].at = "BIND"
  /\ Active
  /\ lifecycle' = "ACTIVE"
  /\ row' = [u \in Urls |-> IF row[u].eligible THEN [row[u] EXCEPT !.bound = TRUE] ELSE row[u]]
  /\ IF script[p].batch = {} THEN Ends(p) ELSE Goes(p, "DISPATCH")
  /\ UNCHANGED <<history, entry, runs, artifacts, day, stops>>

\* A key that says nothing of the date.
KeyOfBatch(p) == [day |-> 1, batch |-> script[p].batch]

runKey(p) == [day |-> day, batch |-> script[p].batch]

\* A replay answered as if it had made a run.
NumbersReplays(p) ==
  /\ script[p].at = "DISPATCH"
  /\ Len(runs) < MaxRuns
  /\ runs' = IF \E i \in 1 .. Len(runs): runs[i].key = runKey(p) THEN runs
             ELSE Append(runs, [key |-> runKey(p), urls |-> entry, status |-> "LIVE"])
  /\ script' = [script EXCEPT ![p].at = "MARK", ![p].run = Len(runs) + 1]
  /\ UNCHANGED <<lifecycle, row, history, entry, artifacts, day, stops>>

\* A run under the same key is replayed, however it ended.
dispatchCampaignPlan(p) ==
  LET same == {i \in 1 .. Len(runs): runs[i].key = runKey(p)}
  IN /\ script[p].at = "DISPATCH"
     /\ IF same # {}
        THEN /\ \E i \in same: script' = [script EXCEPT ![p].at = "MARK", ![p].run = i]
             /\ UNCHANGED runs
        ELSE /\ Len(runs) < MaxRuns
             /\ runs' = Append(runs, [key |-> runKey(p), urls |-> entry, status |-> "LIVE"])
             /\ script' = [script EXCEPT ![p].at = "MARK", ![p].run = Len(runs) + 1]
     /\ UNCHANGED <<lifecycle, row, history, entry, artifacts, day, stops>>

markQueued(p) ==
  /\ script[p].at = "MARK"
  /\ Active
  /\ lifecycle' = "ACTIVE"
  /\ row' = [u \in Urls |->
       IF u \in script[p].batch /\ row[u].status = "DISCOVERED"
       THEN [row[u] EXCEPT !.status = "QUEUED", !.run = script[p].run] ELSE row[u]]
  /\ Ends(p)
  /\ UNCHANGED <<history, entry, runs, artifacts, day, stops>>

\* The script was refused; what the last update of reconcile changed remains.
Refused(p) ==
  /\ ~ Active
  /\ script[p].at \in {"SELECT", "BIND", "MARK"}
  /\ row' = IF script[p].at = "SELECT" THEN reconcileFailed ELSE row
  /\ Ends(p)
  /\ UNCHANGED <<lifecycle, history, entry, runs, artifacts, day, stops>>

\* The script dies, or gives up on a request whose answer was lost.
Stop(p) ==
  /\ script[p].at # "IDLE"
  /\ stops < MaxStops
  /\ stops' = stops + 1
  /\ Ends(p)
  /\ UNCHANGED <<lifecycle, row, history, entry, runs, artifacts, day>>

-----------------------------------------------------------------------------
\* Workers and time.

Fetch(i, u) ==
  /\ runs[i].status = "LIVE"
  /\ u \in runs[i].urls \ artifacts
  /\ artifacts' = artifacts \cup {u}
  /\ UNCHANGED <<lifecycle, row, history, entry, runs, script, day, stops>>

RunEnds(i, status) ==
  /\ runs[i].status = "LIVE"
  /\ status # "COMPLETED" => day < MaxDays
  /\ runs' = [runs EXCEPT ![i].status = status]
  /\ UNCHANGED <<lifecycle, row, history, entry, artifacts, script, day, stops>>

NextDay ==
  /\ day < MaxDays
  /\ day' = day + 1
  /\ UNCHANGED <<lifecycle, row, history, entry, runs, artifacts, script, stops>>

-----------------------------------------------------------------------------
\* The operator.

\* A close that does not look at the frontier.
ClosesAnyway ==
  /\ Active
  /\ lifecycle' = "CLOSED"
  /\ UNCHANGED <<row, history, entry, runs, artifacts, script, day, stops>>

closeCampaign ==
  /\ Active
  /\ \A u \in Urls: row[u].status # "QUEUED"
  /\ lifecycle' = "CLOSED"
  /\ UNCHANGED <<row, history, entry, runs, artifacts, script, day, stops>>

archiveCampaign ==
  /\ lifecycle = "CLOSED"
  /\ lifecycle' = "ARCHIVED"
  /\ row' = [u \in Urls |->
       [row[u] EXCEPT !.eligible = FALSE, !.status = IF @ = "DISCOVERED" THEN "COLD" ELSE @]]
  /\ UNCHANGED <<history, entry, runs, artifacts, script, day, stops>>

\* `pruned` are the rows last discovered before the date given, as many as the limit allows.
pruneArchived(pruned) ==
  /\ lifecycle = "ARCHIVED"
  /\ history' = history \cup pruned
  /\ row' = [u \in Urls |-> IF u \in pruned THEN NoRow ELSE row[u]]
  /\ UNCHANGED <<lifecycle, entry, runs, artifacts, script, day, stops>>

Prunable == {S \in SUBSET {u \in Urls: row[u].status # "NONE"}: S # {} /\ Cardinality(S) <= PruneLimit}

Advance(p) ==
  \/ \E d \in Discoveries: upsertDiscovered(p, d)
  \/ reconcileFetched(p) \/ reconcileReleased(p) \/ selectBatch(p)
  \/ ensureCampaignSource(p) \/ NoSource(p) \/ bindSource(p)
  \/ dispatchCampaignPlan(p) \/ markQueued(p) \/ Refused(p)

Next ==
  \/ \E p \in Processes: Advance(p) \/ Stop(p)
  \/ \E i \in 1 .. Len(runs):
       \/ \E u \in Urls: Fetch(i, u)
       \/ \E status \in {"COMPLETED", "FAILED", "CANCELLED"}: RunEnds(i, status)
  \/ NextDay
  \/ closeCampaign \/ archiveCampaign
  \/ \E pruned \in Prunable: pruneArchived(pruned)

Spec == Init /\ [][Next]_vars

\* The script is run again and again, days pass and a run ends.
Fairness ==
  /\ \A p \in Processes: WF_vars(Advance(p))
  /\ WF_vars(NextDay)
  /\ \A i \in 1 .. MaxRuns: WF_vars(i <= Len(runs) /\ RunEnds(i, "COMPLETED"))

FairSpec == Spec /\ Fairness

-----------------------------------------------------------------------------
(* Properties *)

\* The tables hold what their columns admit, and every run number names a run.
TypeOK ==
  /\ lifecycle \in {"NONE", "ACTIVE", "CLOSED", "ARCHIVED"}
  /\ row \in [Urls -> Row]
  /\ history \subseteq Urls /\ entry \subseteq Urls /\ artifacts \subseteq Urls
  /\ runs \in Seq(Run) /\ Len(runs) <= MaxRuns
  /\ script \in [Processes -> Script]
  /\ \A u \in Urls: row[u].run <= Len(runs)
  /\ \A p \in Processes: script[p].run <= Len(runs)
  /\ day \in 1 .. MaxDays /\ stops \in 0 .. MaxStops

\* A URL is queued under a run that fetches it, and it failed only where such a
\* run ended: after any crash and replay, markQueued records the run whose
\* source snapshot holds the batch.
MarkedRunsCoverTheUrl ==
  \A u \in Urls:
    /\ row[u].status = "QUEUED" => u \in runs[row[u].run].urls
    /\ row[u].status = "FAILED" => u \in runs[row[u].run].urls /\ runs[row[u].run].status = "COMPLETED"

\* Nothing of an archived campaign can be collected: no row is eligible, waits
\* or is queued, whatever the script was doing when the operator closed it.
ArchivedIsCold ==
  lifecycle = "ARCHIVED" =>
    \A u \in Urls: ~ row[u].eligible /\ row[u].status \notin {"DISCOVERED", "QUEUED"}

\* A URL is marked under a run that fetches it, and an archived campaign has no
\* URL that is eligible or at work.
CampaignIsTrue == TypeOK /\ MarkedRunsCoverTheUrl /\ ArchivedIsCold

\* An eligible URL of a campaign that stays open is fetched or found missing in
\* the end, also when its run failed and its batch comes up again, unless a later
\* discovery takes the eligibility back.
EligibleAreSettled ==
  \A u \in Urls:
    row[u].status = "DISCOVERED" /\ row[u].eligible
      ~> (row[u].status \in {"FETCHED", "FAILED"} \/ ~ row[u].eligible
            \/ lifecycle \notin {"NONE", "ACTIVE"})
=============================================================================

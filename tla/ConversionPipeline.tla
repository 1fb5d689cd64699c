-------------------------- MODULE ConversionPipeline --------------------------
(***************************************************************************)
(* From a pending conversion run to published knowledge: the production    *)
(* worker (packages/worker-runtime: production-conversion-worker-runtime,  *)
(* production-markdown-staging, http-production-conversion-client), the    *)
(* control plane's claim handler with its expired-lease reconciler, and    *)
(* its commit handler, which takes an uploaded document through staging,   *)
(* verification, finalization, the ready package, the retrieval index and  *)
(* the change feed (production-conversion-worker-service.ts).              *)
(*                                                                         *)
(* The control plane is one event loop and its handlers are synchronous,   *)
(* so a handler's transactions interleave with nothing (`handler`), but    *)
(* the process may die between any two of them.  Reports a worker sent and *)
(* gave up on stay in the network and may still arrive.                    *)
(***************************************************************************)
EXTENDS ConversionRuntime

CONSTANTS
  Path,             \* Run -> the target path its grant names
  Document,         \* Run -> the document its artifact is a version of
  Version,          \* Run -> that version
  ReconcileLimit,   \* leases the reconciler looks at (25 in the code)
  MaxStops          \* bound on the crashes of the control plane

PipelineAssumption ==
  /\ RuntimeAssumption
  /\ \A r \in Runs: Version[r] \in Nat
  /\ ReconcileLimit \in Nat \ {0} /\ MaxStops \in Nat

VARIABLES
  worker,     \* Worker -> what its runOnce is doing
  net,        \* reports sent and not yet applied
  handler,    \* the request the control plane is serving
  doc,        \* Run -> status of its staging document
  packaged,   \* runs with a ready package
  indexed,    \* runs whose document is in the retrieval index
  current,    \* those with is_current = 1
  feed,       \* the change events, in sequence order
  stops

publicationVars == <<doc, packaged, indexed, current, feed>>
vars == <<runtimeVars, worker, net, handler, publicationVars, stops>>

DocStatus == {"NONE", "GENERATED", "READY", "BLOCKED"}
ReportStep == {"STARTED", "READ_PROGRESS", "OUTPUT_PROGRESS", "OUTPUT_READY", "FAILED"}

Idle == [pc |-> "IDLE"]
Busy ==
  [pc: ReportStep \cup {"READ", "UPLOAD"}, run: Runs, ordinal: Nat \ {0},
   generation: 1 .. MaxGeneration]

NoRequest == [stage |-> "NONE"]
ClaimRequest == [stage: {"CLAIM"}, worker: Workers, leases: SUBSET Runs]
CommitRequest ==
  [stage: {"INGEST", "VERIFY", "FINALIZE", "PACKAGE", "INDEX", "FEED"}, worker: Workers,
   run: Runs, ordinal: Nat \ {0}]

Init ==
  /\ RuntimeInit
  /\ worker = [w \in Workers |-> Idle]
  /\ net = {}
  /\ handler = NoRequest
  /\ doc = [r \in Runs |-> "NONE"]
  /\ packaged = {}
  /\ indexed = {}
  /\ current = {}
  /\ feed = <<>>
  /\ stops = 0

Free == handler = NoRequest

-----------------------------------------------------------------------------
(* Operators and clocks. *)

(* A claim dispatches what the automatic profiles missed before it looks   *)
(* for work; AutomaticConversion has the detail.                           *)
Dispatch(r) ==
  /\ Free \/ handler.stage = "CLAIM"
  /\ dispatch(r)
  /\ UNCHANGED <<worker, net, handler, publicationVars, stops>>

Cancel(r) ==
  /\ Free
  /\ cancel(r)
  /\ UNCHANGED <<worker, net, handler, publicationVars, stops>>

Release(r) ==
  /\ Free
  /\ releaseBeforeStart(r)
  /\ UNCHANGED <<worker, net, handler, publicationVars, stops>>

TimePasses(r) ==
  /\ LeaseLapses(r) \/ GrantsLapse(r)
  /\ UNCHANGED <<worker, net, handler, publicationVars, stops>>

ControlPlaneStops ==
  /\ ~Free
  /\ stops < MaxStops
  /\ handler' = NoRequest
  /\ stops' = stops + 1
  /\ UNCHANGED <<runtimeVars, worker, net, publicationVars>>

-----------------------------------------------------------------------------
(* The claim handler. *)

LastIssue(r) == CHOOSE i \in DOMAIN issued: issued[i] = r /\ \A j \in i + 1 .. Len(issued): issued[j] # r

\* listLeases: the active leases, newest first, up to the limit.
Listed(r) ==
  /\ Leased(r)
  /\ Cardinality({q \in Runs: Leased(q) /\ LastIssue(q) > LastIssue(r)}) < ReconcileLimit

StartClaim(w) ==
  /\ Free
  /\ worker[w] = Idle
  /\ handler' = [stage |-> "CLAIM", worker |-> w, leases |-> {r \in Runs: Listed(r) /\ Latest(r).lapsed}]
  /\ UNCHANGED <<runtimeVars, worker, net, publicationVars, stops>>

ReconcilesUnstartedOnly(r) ==
  /\ handler.stage = "CLAIM"
  /\ r \in handler.leases
  /\ handler' = [handler EXCEPT !.leases = @ \ {r}]
  /\ expireBeforeStart(r) \/ (Latest(r).status = "STARTED" /\ UNCHANGED runtimeVars)
  /\ UNCHANGED <<worker, net, publicationVars, stops>>

ReconcileLease(r) ==
  /\ handler.stage = "CLAIM"
  /\ r \in handler.leases
  /\ handler' = [handler EXCEPT !.leases = @ \ {r}]
  /\ expireBeforeStart(r) \/ reconcileExpiredStartedLease(r)
  /\ UNCHANGED <<worker, net, publicationVars, stops>>

\* Worker w goes on to a step of execute; a report goes out as the step begins.
Enter(w, task, inGrant) ==
  /\ worker' = [worker EXCEPT ![w] = task]
  /\ net' = IF task.pc \in ReportStep
            THEN net \cup {[run |-> task.run, ordinal |-> task.ordinal, worker |-> w, kind |-> task.pc,
                            generation |-> task.generation, inGrant |-> inGrant]}
            ELSE net

\* The answer may be lost; a repeated claim is answered with the same lease.
ClaimRun(r, heard) ==
  /\ handler.stage = "CLAIM"
  /\ handler.leases = {}
  /\ claim(handler.worker, r)
  /\ IF heard
     THEN Enter(handler.worker,
                [pc |-> "STARTED", run |-> r, ordinal |-> Len(attempts[r]) + 1, generation |-> 1], TRUE)
     ELSE UNCHANGED <<worker, net>>
  /\ handler' = NoRequest
  /\ UNCHANGED <<publicationVars, stops>>

NoCompatibleWork ==
  /\ handler.stage = "CLAIM"
  /\ handler.leases = {}
  /\ \A r \in Runs: ~(OldestClaimable(r) /\ Len(attempts[r]) < MaxAttempts[r])
  /\ handler' = NoRequest
  /\ UNCHANGED <<runtimeVars, worker, net, publicationVars, stops>>

-----------------------------------------------------------------------------
(* The worker. *)

NextStep ==
  [STARTED |-> "READ_PROGRESS", READ_PROGRESS |-> "READ", READ |-> "OUTPUT_PROGRESS",
   OUTPUT_PROGRESS |-> "OUTPUT_READY", OUTPUT_READY |-> "UPLOAD"]

At(w, pc) == worker[w].pc = pc
GoTo(w, pc) ==
  Enter(w, [worker[w] EXCEPT !.pc = pc], ~attempts[worker[w].run][worker[w].ordinal].grantsLapsed)

\* Any report that was sent, however late, reaches the control plane.
Deliver(m) ==
  /\ Free
  /\ m \in net
  /\ submitReport(m)
  /\ net' = net \ {m}
  /\ UNCHANGED <<worker, handler, publicationVars, stops>>

\* The answer to a report; a repeated one is answered from the stored row.
Hear(w) ==
  /\ worker[w].pc \in ReportStep \ {"FAILED"}
  /\ \E m \in reports: /\ m.run = worker[w].run
                       /\ m.ordinal = worker[w].ordinal
                       /\ m.kind = worker[w].pc
  /\ GoTo(w, NextStep[worker[w].pc])
  /\ UNCHANGED <<runtimeVars, handler, publicationVars, stops>>

Read(w) ==
  /\ Free
  /\ At(w, "READ")
  /\ readInput(worker[w].run, worker[w].ordinal)
  /\ GoTo(w, "OUTPUT_PROGRESS")
  /\ UNCHANGED <<handler, publicationVars, stops>>

RenewLease(w) ==
  /\ Free
  /\ worker[w] # Idle
  /\ Latest(worker[w].run).generation = worker[w].generation
  /\ worker[w].ordinal = Len(attempts[worker[w].run])
  /\ renewLease(worker[w].run)
  /\ worker' = [worker EXCEPT ![w].generation = @ + 1]
  /\ UNCHANGED <<net, handler, publicationVars, stops>>

\* An error before the output was reported: of the converter, of the
\* transport after the last retry, or a refusal.
Fail(w) ==
  /\ worker[w].pc \in {"STARTED", "READ_PROGRESS", "READ", "OUTPUT_PROGRESS", "OUTPUT_READY"}
  /\ GoTo(w, "FAILED")
  /\ UNCHANGED <<runtimeVars, handler, publicationVars, stops>>

\* The end of runOnce, by an answer, by an error nobody reports or by a crash.
WorkerStops(w) ==
  /\ worker[w] # Idle
  /\ worker' = [worker EXCEPT ![w] = Idle]
  /\ UNCHANGED <<runtimeVars, net, handler, publicationVars, stops>>

-----------------------------------------------------------------------------
(* The commit handler.  It has the bytes, so it goes on when the worker has *)
(* gone.                                                                    *)

\* The upload, and each repetition of it with the same key.
StartCommit(w) ==
  /\ Free
  /\ At(w, "UPLOAD")
  /\ handler' = [stage |-> "INGEST", worker |-> w, run |-> worker[w].run, ordinal |-> worker[w].ordinal]
  /\ UNCHANGED <<runtimeVars, worker, net, publicationVars, stops>>

Committing(r, stage) == handler.stage = stage /\ handler.run = r
Continue(stage) == handler' = [handler EXCEPT !.stage = stage]

\* The last answer of a commit ends the worker's runOnce unless it is lost.
Answer(heard) ==
  /\ handler' = NoRequest
  /\ worker' = IF heard THEN [worker EXCEPT ![handler.worker] = Idle] ELSE worker

PathTaken(r) == \E q \in Runs \ {r}: doc[q] # "NONE" /\ Path[q] = Path[r]

\* An inactive workspace, an archived source or a path that is taken.
CommitRefused(r) ==
  /\ Committing(r, "INGEST")
  /\ Answer(TRUE)
  /\ UNCHANGED <<runtimeVars, net, publicationVars, stops>>

ingestGenerated(r) ==
  /\ Committing(r, "INGEST")
  /\ \/ doc[r] # "NONE" /\ UNCHANGED doc
     \/ /\ doc[r] = "NONE"
        /\ ~PathTaken(r)
        /\ run[r].status = "VERIFYING"
        /\ attempts[r][handler.ordinal].status = "OUTPUT_REPORTED"
        /\ doc' = [doc EXCEPT ![r] = "GENERATED"]
  /\ Continue("VERIFY")
  /\ UNCHANGED <<runtimeVars, worker, net, packaged, indexed, current, feed, stops>>

VerifiesAgain(r) ==
  /\ Committing(r, "VERIFY")
  /\ \E outcome \in {"READY", "BLOCKED"}: doc' = [doc EXCEPT ![r] = outcome]
  /\ Continue("FINALIZE")
  /\ UNCHANGED <<runtimeVars, worker, net, packaged, indexed, current, feed, stops>>

verifyGenerated(r) ==
  /\ Committing(r, "VERIFY")
  /\ \/ doc[r] # "GENERATED" /\ UNCHANGED doc
     \/ /\ doc[r] = "GENERATED"
        /\ run[r].status = "VERIFYING"
        /\ \E outcome \in {"READY", "BLOCKED"}: doc' = [doc EXCEPT ![r] = outcome]
  /\ Continue("FINALIZE")
  /\ UNCHANGED <<runtimeVars, worker, net, packaged, indexed, current, feed, stops>>

finalizeReady(r) ==
  /\ Committing(r, "FINALIZE")
  /\ doc[r] = "READY"
  /\ \/ run[r].status = "COMPLETED" /\ UNCHANGED runtimeVars
     \/ completeVerification(r)
  /\ Continue("PACKAGE")
  /\ UNCHANGED <<worker, net, publicationVars, stops>>

finalizeBlocked(r, heard) ==
  /\ Committing(r, "FINALIZE")
  /\ doc[r] = "BLOCKED"
  /\ \/ run[r].status = "FAILED" /\ UNCHANGED runtimeVars
     \/ failVerification(r)
  /\ Answer(heard)
  /\ UNCHANGED <<net, publicationVars, stops>>

PackagesWithoutReplay(r) ==
  /\ Committing(r, "PACKAGE")
  /\ run[r].status = "COMPLETED"
  /\ r \notin packaged
  /\ packaged' = packaged \cup {r}
  /\ Continue("INDEX")
  /\ UNCHANGED <<runtimeVars, worker, net, doc, indexed, current, feed, stops>>

createVerified(r) ==
  /\ Committing(r, "PACKAGE")
  /\ run[r].status = "COMPLETED"
  /\ packaged' = packaged \cup {r}
  /\ Continue("INDEX")
  /\ UNCHANGED <<runtimeVars, worker, net, doc, indexed, current, feed, stops>>

Siblings(r) == {q \in indexed: Document[q] = Document[r]}
Newest(r) == \A q \in Siblings(r): Version[q] < Version[r]
VersionIndexed(r) == \E q \in Siblings(r) \ {r}: Version[q] = Version[r]

IndexesLastAsCurrent(r) ==
  /\ Committing(r, "INDEX")
  /\ ~VersionIndexed(r)
  /\ indexed' = indexed \cup {r}
  /\ current' = (current \ Siblings(r)) \cup {r}
  /\ Continue("FEED")
  /\ UNCHANGED <<runtimeVars, worker, net, doc, packaged, feed, stops>>

MarksWithoutIndexing(r) ==
  /\ Committing(r, "INDEX")
  /\ current' = IF Newest(r) THEN (current \ Siblings(r)) \cup {r} ELSE current
  /\ Continue("FEED")
  /\ UNCHANGED <<runtimeVars, worker, net, doc, packaged, indexed, feed, stops>>

indexVerified(r) ==
  /\ Committing(r, "INDEX")
  /\ \/ r \in indexed /\ UNCHANGED <<indexed, current>>
     \/ /\ r \notin indexed
        /\ ~VersionIndexed(r)
        /\ indexed' = indexed \cup {r}
        /\ current' = IF Newest(r) THEN (current \ Siblings(r)) \cup {r} ELSE current
  /\ Continue("FEED")
  /\ UNCHANGED <<runtimeVars, worker, net, doc, packaged, feed, stops>>

IndexRefused(r) ==
  /\ Committing(r, "INDEX")
  /\ r \notin indexed
  /\ VersionIndexed(r)
  /\ Answer(TRUE)
  /\ UNCHANGED <<runtimeVars, net, publicationVars, stops>>

\* The newest indexed version before r, if there is one.
previousDocument(r) ==
  {q \in Siblings(r): /\ Version[q] < Version[r]
                      /\ \A p \in Siblings(r): Version[p] < Version[r] => Version[p] <= Version[q]}

Announced(r) == \E i \in DOMAIN feed: feed[i].to = r

FeedsEveryVersion(r, heard) ==
  /\ Committing(r, "FEED")
  /\ feed' = IF ~Announced(r) THEN Append(feed, [from |-> previousDocument(r), to |-> r]) ELSE feed
  /\ Answer(heard)
  /\ UNCHANGED <<runtimeVars, net, doc, packaged, indexed, current, stops>>

\* Only a current version is announced, and once.
recordIndexedVersion(r, heard) ==
  /\ Committing(r, "FEED")
  /\ feed' = IF r \in current /\ ~Announced(r)
             THEN Append(feed, [from |-> previousDocument(r), to |-> r])
             ELSE feed
  /\ Answer(heard)
  /\ UNCHANGED <<runtimeVars, net, doc, packaged, indexed, current, stops>>

-----------------------------------------------------------------------------

WorkerStep(w) == Hear(w) \/ Read(w) \/ Fail(w) \/ WorkerStops(w)

HandlerStep ==
  \/ NoCompatibleWork
  \/ \E r \in Runs:
       \/ ReconcileLease(r)
       \/ CommitRefused(r) \/ ingestGenerated(r) \/ verifyGenerated(r) \/ finalizeReady(r)
       \/ createVerified(r) \/ indexVerified(r) \/ IndexRefused(r)
       \/ \E heard \in BOOLEAN:
            ClaimRun(r, heard) \/ finalizeBlocked(r, heard) \/ recordIndexedVersion(r, heard)

Next ==
  \/ \E r \in Runs: Dispatch(r) \/ Cancel(r) \/ Release(r) \/ TimePasses(r)
  \/ \E w \in Workers: StartClaim(w) \/ StartCommit(w) \/ RenewLease(w) \/ WorkerStep(w)
  \/ \E m \in net: Deliver(m)
  \/ HandlerStep
  \/ ControlPlaneStops

Spec == Init /\ [][Next]_vars

(* A handler that is entered runs to its end or dies; a worker's call      *)
(* answers or fails after its last retry, and its loop then claims again;  *)
(* clocks go on.                                                           *)
Fairness ==
  /\ WF_vars(HandlerStep)
  /\ \A w \in Workers: WF_vars(WorkerStep(w)) /\ SF_vars(StartClaim(w))
  /\ \A r \in Runs: WF_vars(TimePasses(r))

FairSpec == Spec /\ Fairness

(* The upload is repeated until it is answered.                            *)
Persistence == WF_vars(HandlerStep) /\ \A w \in Workers: SF_vars(StartCommit(w))

-----------------------------------------------------------------------------
(* Properties. *)

TypeOK ==
  /\ RuntimeTypeOK
  /\ worker \in [Workers -> {Idle} \cup Busy]
  /\ net \subseteq Report
  /\ handler \in {NoRequest} \cup ClaimRequest \cup CommitRequest
  /\ doc \in [Runs -> DocStatus]
  /\ packaged \subseteq Runs
  /\ current \subseteq indexed
  /\ indexed \subseteq Runs
  /\ feed \in Seq([from: SUBSET Runs, to: Runs])
  /\ stops \in 0 .. MaxStops

\* Nothing is published that was not verified: a package needs a completed run,
\* a completed run a ready document, an index entry a package, and a run that
\* failed after its output has no ready document; whatever transaction of the
\* commit handler the process died after (production-conversion-worker-service.ts
\* commitProductionStagingWithDependencies).
PublishedOnlyVerified ==
  \A r \in Runs:
    /\ run[r].status = "COMPLETED" => doc[r] = "READY"
    /\ doc[r] # "NONE" => run[r].status \in {"VERIFYING", "COMPLETED", "FAILED"}
    /\ run[r].status = "FAILED" => doc[r] \in {"NONE", "BLOCKED"}
    /\ r \in packaged => run[r].status = "COMPLETED"
    /\ r \in indexed => r \in packaged

\* A document with indexed versions has exactly one current version, the
\* newest, in whatever order its versions are converted
\* (retrieval-index.ts indexVerified).
NewestIsCurrent ==
  \A r \in indexed:
    /\ Cardinality(current \cap Siblings(r)) = 1
    /\ r \in current <=> \A q \in Siblings(r): Version[q] <= Version[r]

\* A reader of the change feed sees each document's versions in order and
\* every event tells what it replaced (document-change-feed.ts
\* recordIndexedVersion).
FeedInOrder ==
  \A i, j \in DOMAIN feed:
    /\ feed[i].to \in indexed
    /\ \A q \in feed[i].from: q \in indexed /\ Version[q] < Version[feed[i].to]
    /\ i < j /\ Document[feed[i].to] = Document[feed[j].to] =>
         Version[feed[i].to] < Version[feed[j].to]

\* What holds of conversion whatever dies, whatever is late and whoever races:
\* leases and runs agree, events tell the way to a run's status, only what was
\* verified is published, a document's newest version is current and the feed is
\* in order (conversion-runtime-transitions.ts persistTransition and
\* production-conversion-worker-service.ts commitProductionStagingWithDependencies).
ConversionIsExact ==
  /\ TypeOK
  /\ LeasesFollowRuns
  /\ EventsTellTheRun
  /\ PublishedOnlyVerified
  /\ NewestIsCurrent
  /\ FeedInOrder

\* No step reopens or rewrites a closed attempt (conversion-runtime-transitions.ts
\* persistTransition, which updates WHERE status = ... only).
NothingIsReopened == [][ClosedStaysClosed]_vars

\* No lease stays active for ever: a worker that died, lost its claim's answer
\* or gave up is noticed by the claims of the others (production-conversion-
\* worker-service.ts reconcileExpiredConversionLeases).
LeasesClose == \A r \in Runs: Leased(r) ~> ~Leased(r)

\* An upload that is repeated until it is answered fails its run or gets its
\* document indexed and, if it is the current version, announced, although the
\* control plane dies between the transactions of the commit.
UploadsArePublished ==
  \A r \in Runs, w \in Workers:
    (worker[w].pc = "UPLOAD" /\ worker[w].run = r) ~>
      \/ worker[w] = Idle
      \/ run[r].status = "FAILED"
      \/ r \in indexed /\ (r \in current => Announced(r))
=============================================================================

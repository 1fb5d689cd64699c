# A TLA+ verification of MarkOrbit Knowledge

MarkOrbit Knowledge is the control plane that acquires source material, stores it
as evidence, converts and stages it, and hands verified packages to MarkOrbit
Core. This directory holds TLA+ models of its state machines, the TLC runs that
check them on small instances, and proofs that TLAPS checks for every instance.

## Inventory

All durable state is in SQLite tables written by the repositories of
`packages/persistence/src`. Each repository method is synchronous and writes in
one `BEGIN IMMEDIATE` transaction, unless said otherwise below. Requests arrive
over HTTP from administrators, workers and Core, so the unit of interleaving is a
repository method, and for methods with several transactions each of them.

| Component | State | Operations | What is hard | What makes it correct |
| --- | --- | --- | --- | --- |
| Execution ledger (`execution-ledger.ts`) | `collection_runs`, `jobs` | dispatchManual, cancel | idempotent replay; cancel against claim and retry | a run's jobs are its attempts and agree with it; an ended run is final |
| Worker registry (`worker-registry.ts`, `safe-worker-registry.ts`) | workers, credentials, heartbeats, `job_leases` | create, update, rotateCredential, heartbeat, claim, claimSpecific, renewLease, releaseLease, reapExpired | expiry against late calls; capacity and web-domain quotas; disabling during execution | one active lease per job; quotas at every moment; bounded lifetime |
| Controlled execution (`controlled-worker-execution.ts`) | `execution_attempts`, `execution_events`, `execution_transition_requests`; writes jobs, runs and leases too | start, markUploading, markVerifying, complete, fail, reconcileExpired | retry and dead letter; orphaned executions; repeated requests | attempt, job, run and lease move together; no job is executed twice; orphans fail |
| Collection scheduler (`collection-scheduler.ts`) | `collection_schedule_states`; inserts runs and jobs | tick, getState, listStates | dispatch and advance are two transactions; crash in between; several processes; plan edits | one run per slot; no overlapping scheduled runs; no plan starved |
| Plan, source and connector registries | one document per object | create, update, status changes | compare-and-set on `updatedAt` | dispatch snapshots what it used |
| Raw artifacts (`raw-artifact-registry.ts`) | upload sessions, artifacts, content-addressed files | createSession, uploadContent, finalize, abort, cleanupAbandoned | database and files in two steps with awaits in between; equal content; torn writes | an artifact has its bytes, a digest its count; an upload reaches a verdict |
| Manual upload (`manual-upload-*.ts`) | request rows; a client of the worker protocol | upload, on two routes | dispatch, claim, upload and completion in one request that may die; repeats | a repeated upload has one artifact and its own job |
| Conversion (`conversion-run-ledger.ts`, `conversion-runtime-*.ts`) | conversion runs, leases, grants, attempts, reports | dispatch, cancel, claim, renew, release, report, reconcile | late and repeated reports; expiry | run and lease agree; a closed attempt stays closed |
| Commit of a conversion (`production-conversion-worker-service.ts`, `staging-*.ts`) | staging documents, packages, index, change feed | claim, commit | six transactions, and a crash between any two | only verified content is published; the newest version is current |
| Automatic conversion (`raw-artifact-auto-conversion.ts`) | authorization of artifacts | handoff, recovery scan, operator's dispatch | two processes; a crash between authorization and dispatch | one automatic run, of the profile that was authorized; lost handoffs are made up for |
| Conversion failure recovery (`conversion-failure-recovery.ts`) | recovery cases | reconcile, operator's retry | a crash between a dispatch and its case; more cases than a pass takes | a case tells the truth; no failure is forgotten |
| Ready packages and delivery (`ready-package-v2-delivery-*.ts`) | submissions, audit events | prepare, submit, diagnose | the outcome of a network call may be unknown; overlapping submits | recorded before sent; a result is final and honoured |
| Vault handoff (`vault-*.ts`, `obsidian-vault-projection.ts`) | bindings, export runs, inspections, import intents, executions and documents | bind, export, inspect, review, import, verify, finalize | files and rows in two steps; a user who edits in between | one destination per document; what is imported was reviewed |
| CNIPA detail enrichment | queue rows with leases, a shared request budget | admit, claim, record, hold, release | late answers; budget windows; deaths between answer and row | budget kept; rows follow the state machine; every row gets its turn |
| Web campaigns (`web-url-catalog.ts`, `web-acquisition-campaign.ts`) | URL catalog, campaign lifecycle | discover, batch, dispatch, mark, reconcile, close, archive | a script that may die between requests; an operator at the same time | a mark is true; every eligible URL is settled |
| AI knowledge jobs (`adk-knowledge-job-*.ts`) | job rows, evidence | enqueue, claim, call, store, recover | a paid call whose answer is unknown; comparison of the status alone | no direct call is repeated, managed ones only after a loss reported as retryable; quarantine is final |
| Live pilot (`adk-live-pilot-resume.ts`) | a checkpoint file, artifacts | run, resume | death between payment, artifacts and checkpoint | no cell is paid for again, except after an answer that was thrown away |
| Foundational action ledgers | intents, executions | create, approve, cancel, execute | three transactions per execution; two processes | one run per intent; links are true |
| Retention execution | statuses of artifacts and documents | execute | holds judged against work that goes on | nothing in use is archived; what nothing holds is |
| Registries of evidence and review (source graph, discovery, intelligence, evidence sets, cases, AI assignments, acquisition intelligence) | one immutable or versioned record per call | create, decide | version conflicts | what was decided stays recorded |
| Projections and static data (catalogs, scorecards, health, audits) | none, or derived | read | none that a state model reaches | |
| Python workers, admin pages, contracts | none of their own | | network and parsing | |

Interaction: administrators dispatch runs or let the scheduler do so on a
worker's claim request; workers claim jobs, execute them under a lease, upload
raw artifacts and report the outcome; an operator's call of
`POST /api/leases/reap` reaps expired leases and reconciles abandoned executions.
A worker's files become raw artifacts; finalizing one hands it to automatic
conversion, and every claim of a conversion worker first repairs lost handoffs,
expired leases and failed conversions. A converted document is staged, verified,
packaged, indexed and put in the change feed by one request, and from there it is
delivered to Core, exported to a Vault, cited, or retired by retention. Web
campaigns, foundational actions and the scheduler are the sources of collection
runs. The AI jobs and the pilot spend money on providers and store what they get
as raw artifacts.

## Modules

| Module | Models | Extends |
| --- | --- | --- |
| `ExecutionLedger` | runs and jobs | |
| `WorkerRegistry` | workers, heartbeats, leases, the clock | `ExecutionLedger` |
| `WorkerExecution` | attempts, the composition of all three, their properties | `WorkerRegistry` |
| `RunLifecycle` | what a caller may rely on, abstractly | |
| `WorkerSafetyProofs` | theorems: types and references; runs, jobs, leases and attempts agree; what leases cost and leave; refinement of `RunLifecycle` | `WorkerExecution` |
| `MCWorkerExecution` | small instances | `WorkerExecution` |
| `CollectionScheduler` | the scheduler's rows, ticks, processes and plan edits | `ExecutionLedger` |
| `MCScheduler` | small instances | `CollectionScheduler` |
| `ArtifactIngestion` | upload sessions, artifacts, files, receipts | |
| `ManualUpload` | both routes of an operator's upload | |
| `ConversionRuntime` | conversion runs, attempts, leases, reports | |
| `ConversionPipeline` | conversion worker, network, claim and commit handlers, publication | `ConversionRuntime` |
| `AutomaticConversion` | handoff of artifacts to conversion, and its recovery | |
| `FailureRecovery` | recovery cases and replacement runs | |
| `DetailItem` | one item of the detail queue, as the worker runtime defines it (abstract) | |
| `DetailEnrichment` | the durable detail queue, its budget and its workers; implements `DetailItem` | |
| `WebCampaign` | URL catalog, campaign script, operator | |
| `PackageDelivery` | the V2 delivery of a package | |
| `VaultExport`, `VaultImport` | both directions between staging and a Vault | `VaultExport` (the latter) |
| `Retention` | retention against the work that uses artifacts | |
| `KnowledgeJobs` | queue, workers and recovery of AI jobs | |
| `LivePilot` | the resumable paid pilot | |
| `FoundationalActions` | intents, approval, execution | |
| `Progress` | what takes its turn: the scheduler beside the detail queue | `CollectionScheduler` |
| `Intake` | how material gets in: ingestion beside manual uploads and Vault imports | `ArtifactIngestion` |
| `Conversion` | conversion: the pipeline beside the automatic handoff | `ConversionPipeline` |
| `Acquisition` | what keeps acquisition going: campaigns beside failure recovery | `WebCampaign` |
| `Outputs` | what is done with documents: AI jobs beside the pilot, actions, delivery, retention and exports | `KnowledgeJobs` |
| `ProgressProofs`, `IntakeProofs`, `ConversionProofs`, `AcquisitionProofs` | theorems about every part | the composition they are named after |
| `KnowledgeJobsProofs`, `PackageDeliveryProofs` | theorems | the module they are named after |
| `OutputsProofs` | theorems about the other parts; the delivery's by `INSTANCE` of `PackageDeliveryProofs` | `Outputs` |
| `MCProgress`, `MCArtifacts`, `MCDocuments`, `MCAcquisition`, `MCOutputs` | small instances | `Progress`, `Intake`, `Conversion`, `Acquisition`, `Outputs` |

A composition holds one component by `EXTENDS` and instances of others that share no
state with it (`Detail`, `Manual`, `Imports`, `Automatic`, `Recovery`, `Pilot`, `Actions`,
`Delivery`, `Retained`, `Exports`). It states what each part promises for every value of
the constants; runs check these definitions on small instances and theorems prove them.

**Ledger.** `run` and `job` are the tables `collection_runs` and `jobs`; since
`UNIQUE (run_id, attempt)` identifies a job, `job` is indexed by
`<<run, attempt>>`. `DispatchManual` and `Cancel` are the two methods that write.
Which plan, source and connector may be dispatched is decided by documents no
later step reads again (run and job carry snapshots), so that a refused dispatch
is simply a step not taken. A run keeps its plan and its idempotency key.

**Registry.** `worker` is the definition administrators give (desired state,
`maxConcurrency`, and the plans whose jobs `workerCanRun` accepts), `heartbeat`
the latest heartbeat, `lease` the table `job_leases`. `claim` reaps in its own
transaction before it looks at the worker: `Claim` therefore works on the tables
the reap leaves, and commits them even when there is nothing to claim, while
`ClaimSpecific`, which throws in that case, does not. `RenewLease` includes the
facade of `safe-worker-registry.ts`, which reaps after a renewal that came too
late.

**Execution.** `attempt` is indexed by lease, as `execution_attempts` is unique
by lease; its `events` are the rows of `execution_events`. `Fail` contains the
retry, the dead letter and the final failure. Replays of a request under the same
idempotency key answer from the stored result and change nothing; they are
stuttering steps.

**Scheduler.** `plan` is what the scheduler reads of a plan's document: whether it
is ACTIVE, its schedule, and whether its source and connector allow a dispatch
(`ready`). `state` is the table `collection_schedule_states`; its fields `due`,
`lastSlot`, `lastRun` and `errorAt` are the columns `next_due_at`,
`last_scheduled_for`, `last_run_id` and that of the last error. A tick is not a
transaction, so `process` holds what a server process keeps in local variables
between two statements: the documents it selected, the tick's `now`, the slot and
the run. `ReadState`, `Initialize`, `ReadBack`, `DispatchScheduled`, `Advance` and
`WriteScheduleError` are the steps, and `Crash` may come before any of them. The
handler is synchronous: with one process, nothing but time and crashes comes
between its steps (`Elsewhere` asks for a free process). Two processes on one
database are not the deployment the documents describe, but SQLite permits them
and the checks inside the transactions are written for them; properties that hold
for one process only say so. A cron expression is represented by the distance of
its occurrences. What happens to a run between its dispatch and its end is left to
`WorkerExecution`; here it ends in one step (`EndRun`).

**Artifacts.** `session`, `artifact` and `refs` are the tables
`artifact_ingestion_sessions`, `raw_artifacts` and `content_objects`; `part` and
`object` the files of sessions and of the content store. A request in flight is a
`call` that remembers what it read before its last await; a step is what the code
does from one await to the next. A file may be torn by a crash. That moving a refused
file to quarantine fails (`raw-artifact-registry.ts:878`), which would leave the session
UPLOADING until cleanup, is not modelled. Of an execution
only what `complete` checks is kept: the sessions its receipts list.

**Manual upload.** `busy` names the request that has not yielded since its last
step: others wait, but the process may die after any of its writes. The first route
keeps a row and claims whatever is first in the shared source; the second claims
the job it dispatched.

**Conversion.** An attempt, its lease and its two grants are written together and
share a record of `attempts`. `ConversionPipeline` adds what surrounds the
transactions: workers that send reports and give up waiting, so that `net` holds
reports that may arrive much later, and the two handlers of the control plane, whose
transactions are steps with a possible `ControlPlaneStops` between them. `doc`, `packaged`,
`indexed`, `current` and `feed` are what a commit leaves of a run.

**Handoff and recovery.** `AutomaticConversion` splits the handoff into the read of
artifact and profiles, the UPDATE that authorizes, and the dispatch; a second
process may be at any of them. `FailureRecovery` identifies a run by the first run
of its case and the idempotency key of its dispatch, which is all a replay depends
on; `before` is the order of `updated_at` that decides whose turn it is, as a relation.

**Detail queue.** `DetailItem` is a state machine of one item, translated from the
pure functions of the worker runtime; `DetailEnrichment` is translated from the SQL
of the queue and the worker's run around it. That the second implements the first
is a property (`RowsFollowTheStateMachine`), since the code states the rules twice.
`earlier` orders the rows that are due again, as the claim's query does.

**Web campaign.** `script` is how far a process of the script has come and the batch
it chose; it keeps nothing else between two requests. URLs are numbered by the
order of discovery, days decide the keys of runs.

**Delivery.** `submission` is the row, `audit` its events by sequence; a `call` is a
submit at its one await. The diagnosis looks for events by type (`OfType`), for what
they tell of an attempt (`Told`) and for the order of two of them (`Before`), as sets of
their positions in the audit. Messages outlive calls (`delayed`), and `consumer` is what Core decided,
which is its first decision for a frozen request (external). `bound` and
`configured` tell whether the workspace is bound to Core and the transport set up.
Events have no timestamps. The diagnosis also refuses an audit whose timestamps move
backwards (`AUDIT_TIME_NON_MONOTONIC`, `ready-package-v2-delivery-reconciliation.ts:164`),
so the model assumes that the wall clock is never set back between two events of a
submission; after such a step the code refuses to submit or to replay.

**Vault.** The user edits `files` at any step. `held` is history: every content a
path ever had. An import passes inspection, intent, execution and staging, each a
row of its own, and the file is read again at each of them.

**Retention.** An execution is one transaction; what surrounds it are the steps of
conversion, publication, indexing and citation that acquire and give up holds. `before`
is the order of the documents' `updated_at`, as a relation; a scan takes the candidates
that are first in it, up to the limit.

**AI jobs and pilot.** `pc`, `held` and `read` are the local variables of a worker:
where it is, its job, and the attempts in the document it will write. `scan` is what
is left of the list the recovery command read (one recovery command at a time).
`delivered` and `paid` count calls that were, or may have been, answered, `lost` and
`rejected` those among them after which the code calls again: history, for the
properties. An outcome of a call is what the adapters make of it. Both kinds of adapter
throw away an answer they cannot use ("unusable", `AnswerRejected`). The managed ones,
which the queue worker uses if so configured (`adk-deepseek-provider.ts:61`), also report
calls as retryable that Core may have taken ("lost"): a timeout or network error of
their own HTTP request, a failed resolution of the exact output, a temporary failure after
delivery. A job in `Managed` may have any outcome, the others only those of the direct
adapters. A job lost in this way is called again with the same idempotency key. That Core
executes a key once is assumed of Core (the test
`managed-ai-execution-http-client.test.ts:190` relies on it too) and not modelled: `delivered`
counts requests, not charges, for a managed job. An HTTP error status of a direct adapter
counts as not answered.

**Foundational actions.** `request` is what a server process holds between two
statements. The run is known by the intent its idempotency key is made of.

**Time.** (Workers; the scheduler compares absolute times and has a clock up to
`MaxTime`. The other modules keep of time only what is compared: a lease that ran
out, a retry that is due, a claim that is stale.) A deadline is stored as the ticks
left until it, counted down by `ClockTick` and never below 0, and an age is counted up to where it stops to
matter. Time is thereby unbounded in the model, although its states are finite,
and liveness can be checked without a horizon.

**Abstraction.** Identifiers are model values; credentials, tokens, digests,
names, reasons, receipts and documents are left out. A call that the code refuses
(and rolls back) has no action.

## Runs

A run either checks one component on one instance, or several components at once:
in the five runs marked "joint", a behaviour has a `subject`, its instance moves as
its module says and the others stay as they began. The joint state space is thus
the sum of the parts, not their product; a property of a joint run is a conjunction of
the named properties of its parts, and temporal ones are stated as
`Fairness => property` with the fairness of the part.

| Run | Instance | Shows |
| --- | --- | --- |
| `core` | 1 run of up to 2 attempts, 2 workers with one slot each, 3 leases, lease duration 1, lifetime 2 | safety and refinement of the worker protocol |
| `web_domain` | runs of 3 plans, 2 of them of one domain with rate limits 1 and 2, 3 leases, candidate limit 1 | `WebDomainQuotaKept`, `CapacityRespected` |
| `progress` (joint) | scheduler with one process, alone: 1 plan edited between four schedules, clock to 2, 1 crash; served: 2 plans, one per tick, 4 runs. Detail queue: 2 workers at 1 item, 1 worker at 2 items, of which one run requests both | what takes its turn |
| `scheduler_processes` | 2 processes, 1 plan, 2 scheduled and 1 manual run, clock to 2, 1 crash | `OneRunPerSlot`, `ScheduledRunsNeverOverlap`, `SlotsConsumedForward` |
| `artifacts` (joint) | 2 sessions of one digest with aborts, cleanup and a crash; 1 upload of the first and 2 of the second route, one of them repeated until it is answered, with a crash; 1 Vault document, 2 contents, 1 edit, 1 crash, 2 inspections, 1 failure | uploads and imports |
| `documents` (joint) | 2 versions of a document with 1 attempt each, 1 worker, 1 stop; 1 run with 2 attempts and renewals; 2 artifacts, 2 profiles, 2 processes, 1 edit, 1 stop | conversion |
| `acquisition` (joint) | a campaign over a site of 2 URLs, one per batch, 2 days, 4 runs, 1 stop; 1 failed run with 2 retries and an operator, or 2 failed runs without one, of which a pass takes one; worker protocol: 1 run of up to 2 attempts, 1 worker, 2 leases, duration 2, lifetime 3 | what keeps acquisition going |
| `outputs` (joint) | AI jobs: a direct and a grounded one together, a managed one alone with up to 2 retryable losses, 2 workers, recovery, 1 crash; a pilot of 6 cells, 3 deaths, 1 answer thrown away per cell; 2 intents of one target with 1 process, 1 intent with 2; 2 operators who submit at once, 1 with 3 attempts, 3 stops and 2 switches of the transport; 2 artifacts and 2 runs under retention, 1 artifact that expires; 2 versions of one export target, 2 roots | what is done with documents |
| `disablement`, `retry`, `jitter`, `inspection` | as above, smaller | violated: see Findings |

Properties of `core`: the jobs of a run are its attempts and agree with it
(`JobsFollowRun`); leases agree with jobs (`LeasesFollowJobs`), attempts with jobs
and no job is executed under two leases (`AttemptsFollowJobs`); a disabled worker
holds nothing (`DisabledHoldNothing`); the events of an attempt are one path through the protocol
(`EventsTellThePath`); an ended run is final (`EndedRunsFrozen`); an abandoned
execution only fails (`OrphansOnlyFail`); a lost reservation costs nothing
(`LostReservationsReturn`); and the whole implements `RunLifecycle`
(`ImplementsLifecycle`). `web_domain` checks a worker's capacity
(`CapacityRespected`) and the domain's concurrency and rate.

Properties of `progress`: slots missed give one catch-up run (`CatchUpOnce`); the row
tells what happened (`RowTellsHistory`); paused plans get no run, and edited ones none
of their old schedule (`PausedPlansRest`); the requests of a window keep its budget, and
FETCHED means stored (`BudgetKept`); rows go through `DetailItem`
(`RowsFollowTheStateMachine`); and `NobodyStarves`: plans that fail do not keep the
others from being examined, and queue rows get their turn. Of `scheduler_processes`: a
slot has one run; scheduled runs of a plan do not overlap; an overtaken tick does not
turn a row back.

Properties of `artifacts`: `RegistryAgreesWithStore` (an artifact has its bytes, a
digest is counted as often as it is used, a session is FINALIZED exactly when its
artifact exists, and the receipts a completion was accepted with stay true);
`OneUploadOneArtifact`; `ImportedOnceAsReviewed`; and `UploadsGoOn`: an upload
reaches a verdict, and one that is repeated is started.

Properties of `documents`: of the pipeline, `ConversionIsExact` (a package has a completed run, and a
completed run a ready document, whenever the commit died; the newest indexed version
is current; the feed tells versions in order; leases and events agree with their
run) and, with the automatic handoff beside it, `DocumentsAreExact` (an artifact has one
automatic run, of the profile it was authorized for); `NothingIsTakenBack`
(no late report reopens an attempt, `NothingIsReopened`, and an authorization stays);
and `ConversionGoesOn`: leases close, repeated uploads are
published or fail, lost handoffs are made up for.

Properties of `acquisition`: `CampaignIsTrue` (a URL is marked under a run that
fetches it; an archived campaign is cold); `CasesTellTheirRun` (and only passing
failures are retried unasked, with one live replacement); `NothingIsForgotten`:
eligible URLs are settled and failed conversions attended to; and
`NothingRunsForever`: every lease and every execution ends (that a renewal stops at the
hard limit is what makes it true for a worker that renews for ever).

Properties of `outputs`: `CallsAccounted` (one worker at a time is at the provider for a
job; a call that was or may have been answered is repeated only if a managed adapter
reported it as retryable, `RepeatedOnlyIfLost`; evidence settles its job);
`PaymentsAccounted` (a pilot's cell is paid for again only after its answer was thrown
away; the checkpoint tells the evidence); `OneRunPerIntent`;
`ResultsAreHonoured` (of one operator: every contact is on record, the diagnosis
honours a recorded result and lets an attempt without one be retried);
`ArchivedIsUnused`; `OneUnresolvedDestination` (and what
succeeded reached the Vault); `GuardedSteps`, the steps none of these may take
(leave quarantine, dispatch what is not approved, send after a result, leave a contact
out of the audit or write an event twice while two operators submit, remove evidence, write outside the binding's root); and `EverythingSettles`: held jobs
come back, results are finalized, expired artifacts archived.

Why these bounds: three leases let a job be reserved, lost, reserved again and
retried; two workers let a claim reap the other's lease; a lifetime of two
durations lets a renewal meet the hard limit; two attempts reach both the retry
and its exhaustion. Jobs of different runs share only worker capacity and the
domain quota, which `web_domain` covers with several runs. For the scheduler,
two time units are enough to miss a slot and catch up after it. A second crash
does seldom what a first cannot, since the process starts again with an empty
memory; where the durable state counts what went before (the pilot, a delivery),
several are allowed. Two of a kind (sessions, versions, processes,
workers, intents, submits) are what an interleaving needs; a part in which two would
interfere with a property that holds for one alone has a second instance (`Together`
beside `Delivery`, `Expiring` beside `Retained`) or a second subject (one operator and
two, a shared item and a long queue). Limits of queries are set below the
number of rows wherever the order of the query matters.

Deadlock is checked in the runs of the worker protocol, of the scheduler with two
processes, and wherever something is always possible; a cfg that says
`CHECK_DEADLOCK FALSE` is one of bounded parts that come to their end.

**Fairness.** `Fairness` of `WorkerExecution` assumes that time passes and that
`POST /api/leases/reap` is called again and again, which reaps
(`ReapExpired`) and reconciles (`ReconcileExpired`). Nothing is assumed of
workers or administrators: `LeasesEnd` and `ExecutionsEnd` hold when every worker
stops. The scheduler's `Fairness` assumes that time passes, that a tick once begun
goes on (weak fairness of `TickStep`: the handler is synchronous) and that workers
keep polling for jobs, each claim request being a tick. The latter is strong
fairness of `BeginTick`, since a process is busy now and then with other requests.
`NoPlanStarves` speaks of plans whose place in the queue lies before `MaxTime`: the
clock of the model stops there.

In the other modules fairness is of four kinds. A handler, or the body of an upload,
once begun goes on: weak fairness of its steps, as nothing in it waits for anything
but the network and files. Time passes: leases run out, delays end, days and budget
windows begin. What the code repeats by itself is repeated: every claim of a
conversion worker starts the recovery scan, the reconciler of leases and that of
failures (strong fairness, since the handler is busy now and then). And what the
documents ask an operator or a client to repeat is repeated: the campaign script,
the start of a detail run (by some worker, whose runs do not all die before they
claim), the recovery command of the AI jobs, the retention policy, the submit
of an unfinished delivery, the upload of an unanswered file, which the properties
name (`Persistent`, `Persistence`). Where repetition does not help, no property says
it does: see the next section.

## Findings

* `disablement`: `WORKER_REGISTRY_AND_LEASES.md` says that disabling a worker
  returns the jobs of its leases to PENDING. `returnJobToPending` leaves a job
  that is executing as it is; it fails later, when it is reconciled.
* `retry`: `EXECUTION_LIFECYCLE_PROTOCOL_V1.md` says that `retryable` is
  descriptive and creates no attempt. `fail` creates one while attempts are left.
* `jitter`: the seed of the retry jitter reaches 1, and the delay then lies one
  millisecond past the window that the unit test asserts.
* `inspection`: `COLLECTION_SCHEDULER_V1.md` says that `GET /api/scheduler` is
  read-only. `getState` and `listStates` reconcile the plans they show: they
  insert missing rows, and replace the due time after a plan was edited.

Modelling brought up further places where the code does other than its documents or
comments say. They are not runs; the models contain the behaviour, and the
properties are stated for what the code does guarantee. All paths are under
`packages/persistence/src`, `apps/admin/src/server` or `apps/worker/src`.

* `raw-artifact-registry.ts:899`: a session aborted while it is uploaded becomes
  VERIFIED with its file gone, as the verdict is written without another look at the
  status (`ARTIFACT_INGESTION_PROTOCOL_V1.md:54` calls ABORTED terminal). Finalizing
  it fails.
* `raw-artifact-registry.ts:945`: `created_at` is taken before an await and the
  predecessor chosen after it, so that two artifacts of a URI may supersede the same one
  (`SCHEMA_V1.md:17`: version chain).
* `manual-upload-service.ts:322`: the first route claims what is oldest in its source, so
  simultaneous uploads exchange jobs (`MANUAL_UPLOAD_INGESTION_V1.md:81` says they
  must not); and an upload that is repeated after reconciliation, as the error asks,
  may lose its job to another repeat again (`manual-upload-service.ts:326`).
  `RepeatedUploadsStart` is therefore stated for the second route.
* `conversion-runtime-persistence.ts:904`: a renewal leaves the expiry of the grants as it
  was (`CONVERSION_RUNTIME_PERSISTENCE.md:54`: grants expire with the lease).
* `raw-artifact-auto-conversion.ts:368`: the scan looks at the first 25 candidates; 25
  that can never be handed off hide all others (`M10_AUTO_CONVERSION_RECOVERY.md:16`).
* `conversion-failure-recovery.ts:534`: operators and the reconciler use different keys,
  so that a crash in an operator's retry may lead to a second replacement
  (`M11_CONVERSION_FAILURE_RECOVERY.md:75`). `OneLiveReplacement` is stated
  for a run that no operator retries.
* `cnipa-detail-enrichment-queue.ts:636`: one count per workspace; alternating runs of
  two windows reset it. `BudgetKept` is checked and proved for windows that do not overlap.
* `ready-package-v2-delivery-submission.ts:454`: an answer is recorded for the
  latest attempt, not for its own; after overlapping submits the evidence counts as
  inconsistent and a finalized delivery is not replayed
  (`READY_PACKAGE_V2_DELIVERY_V1.md:85`). `ResultsAreHonoured` is stated for one
  submit at a time (`OneOperator` in its theorem).
* `ready-package-v2-delivery-service.ts:159`: the diagnosis reads the last 200 events and
  expects the first among them; after 100 failed attempts a delivery cannot be retried.
  The theorem assumes that the audit fits (`EvidenceFits`: at most 98 attempts).
* `web-acquisition-campaign.ts:1470`: a campaign closed between batch and dispatch still
  gets a run (`K0_4_RETENTION_PLATFORM_OPERATIONS.md:25`).
* `obsidian-vault-projection.ts:237`: a note saved between the look at the target and the
  rename is overwritten (`OBSIDIAN_VAULT_EXPORT_V1.md:107`: never).
* `vault-import-execution-service.ts:227`: an execution may be REJECTED with its document
  staged (`OBSIDIAN_VAULT_IMPORT_EXECUTION_V1.md:31`).
* `vault-inspection-service.ts:272`: only the last 500 exports count as managed.
* `adk-knowledge-job-queue-store.ts:196`: the comparison is on the status alone, so a
  stale worker may take back a count of failures
  (`AI_DISTILLED_KNOWLEDGE_ACQUISITION_V1.md:119`). `CallsAccounted` does not
  depend on the count.
* `adk-knowledge-job-worker.ts:91` and `:387`: of the errors that leave the delivery
  uncertain only the two codes of the direct adapters are quarantined. A managed adapter's
  `MANAGED_AI_HTTP_TIMEOUT`, `MANAGED_AI_HTTP_NETWORK_ERROR` and
  `AI_MANAGED_AI_HTTP_NETWORK_ERROR` (`managed-ai-execution-http-client.ts:186`, `:250`,
  in `packages/worker-runtime/src`) and its failure to resolve an output Core has produced
  (`managed-ai-capability-http-adapter.ts:137`) are retryable, so the job becomes
  RETRY_PENDING and recovery may queue it again
  (`AI_DISTILLED_KNOWLEDGE_ACQUISITION_V1.md:119` and
  `KNOWLEDGE_CAPABILITY_SOURCE_BOUNDARIES.md:119`: such calls are not automatically
  replayed). Core's idempotency is what protects the payment, and nothing does if the
  worker is configured for direct calls in between.
* `adk-live-pilot-resume.ts:370`: a cell leaves the checkpoint's in-flight field after every
  governed error but a timeout or network error, also after `AI_PROVIDER_RESPONSE_INVALID`,
  `AI_PROVIDER_CONTENT_MISSING` and `AI_RESPONSE_TOO_LARGE`
  (`ai-distilled-knowledge-acquirer.ts:138`, `:178`, `:202`; `openai-knowledge-adapter.ts:108`,
  `:137`), which are errors of an answer that was billed. The next start calls and pays for
  that cell again. `PaymentsAccounted` counts these answers (`rejected`).
* `foundational-action-executions.ts:168` and `:319`: a run whose link was lost does not
  count as active, so a target may have two; and a key conflict is found after the run was
  dispatched (`M26_FOUNDATIONAL_COLLECTION_OUTCOME_FEEDBACK.md:59`,
  `M24_CONTROLLED_FOUNDATIONAL_COLLECTION_DISPATCH.md:53`).
* `foundational-action-intent-ledger.ts:319`: of two processes one may approve what the
  other has just cancelled. `CanceledIsFinal` and `DispatchIsApproved` are stated for one process.

## Proofs

Every invariant and every action property that a passing run checks is stated by a
theorem, for every value of the constants (`GuardedSteps` part by part). A theorem about a part of a composition
speaks of that part's specification (`Manual!Spec => []OneUploadOneArtifact`) from the
part's own assumption on its constants, which TLC evaluates in the runs; a run's joint
behaviour moves one part at a time. Where a property needs more than that (one
process, one script, one operator, windows that do not overlap, an audit that fits), the
theorem says so as a hypothesis, the run's instance satisfies it, and the section above
says what happens without it.

**Worker protocol.** `WorkerSafetyProofs` proves, from `LedgerAssumption`,
`RegistryAssumption` and `ExecutionAssumption` alone:

* `TypeCorrect`: `Spec => []TypeOK`. `TypeOK` is not inductive: a claim reads the plan
  of a job's run, and execution reads the job of a lease. The invariant used, `TypeInv`,
  adds `ReferencesHold`: a stored job belongs to a stored run, a lease refers to a
  stored job, and an attempt to a stored lease (the foreign keys of the schema).
* `JobsFollowRuns`, `LeasesExclusive`, `NoJobExecutedTwice` and `EndedRunsStay`
  (`Spec => EndedRunsFrozen`). None of the three invariants is inductive alone: that a
  claimed job is not executing needs the attempts, that a failing job is the last of
  its run needs the run. `SafeInv` joins them with `TypeInv` and with one more fact,
  that a job some attempt was made at is never PENDING, LEASED or CANCELLED again (last
  conjunct of `Agree`; without it a job given back could be executed twice).
* `DisabledWorkersHoldNothing`, `EventsArePaths`, `CapacityIsRespected` and
  `WebDomainQuotasKept`. The last needs the most: a new lease is counted against the
  leases of its domain after the reap of the same transaction, so that the proof follows
  how the set of counted leases shrinks when time passes and leases end and grows by one
  when a job is claimed. `RateLimit` is assumed positive, as the contract of a source
  requires (`schema-v1.ts:558`).
* `OrphansFail` and `ReservationsReturn`, which say what the end of a lease does to
  execution, job and run; both hold of every step from a state in `SafeInv`.
* `RunsFollowLifecycle`: `Spec => ImplementsLifecycle`, the refinement of `RunLifecycle`.
  The initial states map to initial states, and under `LifeInv`, which adds to `SafeInv`
  that a job that was started has the attempt it was started under, every step maps to a stutter, a
  step of one run, or the joint failure of the runs a reconciliation gives up.

The argument has two layers. The lemmas `...Agrees` and `...Keeps` speak of arbitrary
tables and say what each kind of write (closing leases, leasing, offering, a request,
giving up) preserves; this is what a claim needs, which leases on tables its own reap has
just written. The lemmas `Safe...`, one per action, show that the action is such a write.
They also show `LiveOnly`: a step changes only jobs that are live and runs that have not
ended. `EndedRunsStay` follows, as only the last job of a run can be live and the run is
then PENDING or RUNNING (`LiveIsLast`).

**Scheduler.** The first part of `ProgressProofs` proves, for any number of plans, runs and
crashes, from `LedgerAssumption` and `SchedulerAssumption` (of which the finite number of
plans is needed for a tick to have a first plan):

* for any number of processes, `SlotsRunOnce`, `NoOverlap` and `SlotsMoveForward`. For
  the first two the invariant, `SlotInv`, needs nothing of the state rows, the clock or
  the processes: whatever a process believes, the queries inside the dispatch
  transaction decide. The third adds `TickInv`, what a process knows of the slot
  it works at.
* for one process (`OneProcess`), `MissedSlotsRunOnce`, `RowsTellHistory` and
  `PausedPlansStay`. The three fail when a second process writes a row from an older now
  or pauses the plan between read and dispatch, which is why they are stated, and
  checked, for one. `HistoryInv` relates runs and rows through a tick that may die in
  it: every run was requested at or after its slot (`RunsDated`); what a row has due is
  the slot of a run, if the process died before it advanced the row, or lies after every
  request (`New`), and its last slot and run are true (`Tells`); and what the working
  process read still holds (`UpToDate`).

**Detail queue.** The second part of `ProgressProofs` proves, from
`EnrichmentAssumption`, `RowsLiveTheirLife` (`Detail!Spec => RowsFollowTheStateMachine`):
the SQL of the queue implements `DetailItem`, for any number of items and workers and for
windows that overlap too. `RowsInv` adds to the types what a row tells of its times
(`RowSound`: only a row that waits for a retry has a time to come, a held one has none),
on which the order of the due rows rests. A claim, which takes back
every expired lease first, maps to a step of several items.
`BudgetsAreKept` (`BudgetKept`: at most `MaxRequests` requests in a window, and FETCHED means
stored) has the hypothesis `~Overlap`, windows that do not overlap: `BudgetInv` says
that every run uses the current window and that the lane's count is what was requested
in it; `FetchedInv`, that a worker records only what it has stored.

**Artifacts.** `IntakeProofs` proves `RegistryAgrees`
(`Spec => []RegistryAgreesWithStore`) for any number of sessions, calls and crashes. The
inductive invariant joins the property with `CallsInPlace`: what a call in the middle
of an upload or a completion has done already and may still rely on.

**Uploads and imports.** `UploadsHaveOneArtifact` (`OneUploadOneArtifact`), from
`UploadAssumption`, for both routes, any number of repeats, lost leases and crashes. That
a key has one artifact follows from three facts that only hold together (`ManualInv`): a
job that was not started has none (`JobsAgree`), of the calls for a key only one is past
its claim (`OneCallEach`), and this one knows how far it is (`UploadAgrees`).
`ImportsAreReviewedAndKept` (`ImportedOnceAsReviewed`), from `VaultAssumption` and
`ImportAssumption`, although the user may edit the file at every step. `ImportInv` follows
the reviewed bytes from the inspection to the store: an inspection saw what was there
(`ReviewsAreHeld`), a request carries these bytes until it inserts the document, and the
bytes are in the store before the document is (`RequestAgrees`).

**Conversion.** `ConversionProofs` proves, from `PipelineAssumption`, `ConversionExact`
(`Spec => []ConversionIsExact`) and `ClosedStays` (`Spec => NothingIsReopened`), for any
number of documents, runs, attempts, workers and deaths of the control plane. Its first layer
speaks of the transactions of `ConversionRuntime` alone: each of them is `Sound`, that is,
it keeps `RuntimeInv` (types, `LeasesFollowRuns`, events that tell the run and its one
start, nothing stored for a run that was not dispatched) and reopens no attempt. The
second adds what surrounds them: workers and late reports name attempts that exist
(`WorkersInv`, `NetInv`), and a commit has done what the stages before its own do
(`HandlerInv`). This is what makes a replayed commit as good as the first, as
`PublishedOnlyVerified` and `IndexInv` (one run per version, the newest one current, a feed
in order) show for every stage it may have died in.
From `AutomaticAssumption`, `AutomaticRunsOnce` and `AuthorizationStays` for any number of
processes: `HandoffsAgree` says that a process that saw its authorization succeed holds the
profile the artifact has, `RunsAgree` that every automatic run is of this profile. `DocumentsExact` and
`NothingTakenBack` join them as the run states them.

**Campaigns.** `AcquisitionProofs` proves `ArchivedStaysCold` for any number of scripts:
between close and archive nothing is queued (`ClosedIsQuiet`), since every statement that
queues looks whether the campaign is active. `CampaignTrue` (`Spec => []CampaignIsTrue`)
is for one script at a time (`OneScript`), as another one may point the source at its own
batch between two requests. `MarkInv` says what the script knows (`Knows`: from the update of
the source to the dispatch the source holds its batch, and the run to be recorded is one
for its batch) and that every run fetches the batch of its key (`RunsCoverTheirBatch`),
which is what makes a replayed run as good as a new one.

**Recovery.** `FailuresAreTold` (`CasesTellTheirRun`), from `RecoveryAssumption`, for any
number of failed runs, retries, operators' requests and crashes. `RecoveryInv` says what a
reconciliation still knows between two statements (`RequestHolds`: the cases it has to take
are as they were when it chose them) and, for a case no operator touches, where its
attempts are (`AttemptsInTurn`: those before the latest have ended, the next one exists
only if a crash came before the case was written, and none after it). That a case has one
live replacement follows from the second; it is false with an operator.

**AI jobs.** `KnowledgeJobsProofs` proves, from `JobsAssumption`, for any number of jobs,
workers, attempts and crashes, `CallsStayAccounted` (`Spec => []CallsAccounted`),
`DirectJobsCalledOnce` (a job outside `Managed` has at most one call that was or may have been
answered, and is not claimed after it), `QuarantineStays`
(`Spec => [][QuarantineIsFinal]_vars`) and `RowsFollowMoves`: every step moves a row
along the queue's state machine, `Moves`. For jobs in `Managed` the first says that calls
exceed retryable losses by at most one; what the repeated ones cost is up to Core. The queue
compares only the status when it writes, so the argument cannot be that a writer knows the row.
It is that RUNNING is entered only from CLAIMED by the worker that goes to the provider, and
left only by that worker or into quarantine. The invariant joins the types with `QueueHasRows`
and with one conjunct per job and per worker (`JobInv`, `WorkerInv`): who is at the provider or
the sink holds a job that is RUNNING or BLOCKED_RECOVERY, nobody else does, and while a job may
be claimed or queued its calls are all lost ones.

**Pilot and actions.** `OutputsProofs` proves `PilotPaymentsAccounted` (`PaymentsAccounted`)
for any number of cells, deaths and answers thrown away, from `PilotAssumption`. The invariant says that the checkpoint is a
prefix of the plan (`PilotInPlace`) and what was paid, thrown away and registered
beyond it (`PilotAccounted`). `IntentsRunOnce` (`OneRunPerIntent`) is for any number of processes, from
`ActionsAssumption`. What a request holds between two statements must stay true while
others write (`ActionsRequestsHold`: a run to be linked exists and is that of the intent);
uniqueness of runs and links comes from the keys alone. `ConsentHolds` (a canceled intent
stays so, and what is dispatched is approved) is for one server process (`OneServer`): then
nothing comes between a request's read and its write (`ActionsUndisturbed`).

**Retention.** `ArchivedStaysUnused` (`ArchivedIsUnused`) and `RetentionKeepsEvidence`, from
`RetentionAssumption`, for any artifacts, runs and limit. `RetainedInv` adds that a document has a
run, so that none is dispatched for it after it was archived; that the holds of raw
artifacts and of documents are judged in the same transaction is what the step of the
policy rests on.

**Exports.** `OneDestinationAtATime` (`OneUnresolvedDestination`), `ReceiptsAreTrue` and
`WritesFollowTheBinding`, from `VaultAssumption`, for any roots, documents, edits and crashes.
`ExportsInv` says what was in the Vault when (`FilesAreHeld`, `SucceededReachedTheVault`) and what a
request in progress relies on (`CallAgrees`: it writes under the binding of its run, and records
what it found or wrote).

**Deliveries.** `PackageDeliveryProofs` proves, from `DeliveryAssumption`, for any number of
overlapping submits, stops and delayed messages, `ContactRecorded` and `ResultsStay`: one
lemma per action shows `Guarded`, that the invariant is kept and the evidence only grows
(`EvidenceGrows`). With `EvidenceFits` it proves `EventsStayUnique`: no transaction writes a
second event of a type for an attempt, so that the audit's unique index never stops one.
What a transaction checks before it writes is what the diagnosis read, at most
`AuditWindow` events; `Evidence` bounds the length of the audit by the attempts and results
of the row, so that it reads all of them. With `OneOperator`, `EvidenceIsHonoured`: the
diagnosis honours a recorded result and lets an attempt without one be retried, after any
crashes and lost or late answers. `Exact` says that the events are in order and tell the
row, `Awaited` that what the one operator waits for is the outcome of the last attempt; the
second is what a second operator breaks. `ResultsHonouredInTurn` states it of `Outputs`, by
an instance of the proofs.

Checked by TLC only: liveness, which needs fairness (`NobodyStarves`,
`NothingRunsForever`, `NothingIsForgotten`, `UploadsGoOn`, `ConversionGoesOn`,
`EverythingSettles`). `GuardedSteps` joins properties of several specifications, two instances of
`PackageDelivery` among them, and has no theorem as a whole; each of its parts has one
(`QuarantineStays`, `ConsentHolds`, `ResultsStay`, `ContactRecorded`, `EventsStayUnique`,
`RetentionKeepsEvidence`, `WritesFollowTheBinding`). Sequences were given up for relations
and sets of positions where a proof would have needed induction over what a filter or a
sort returns.

## Plan

What would come next, in this order:

1. The V1 intake submission of ready packages, and the converter capabilities of the
   conversion runtime.
2. The composition of retention with `ConversionPipeline` in place of the summary of
   the pipeline that `Retention` contains.
3. A second server process in `ConversionPipeline`, whose handlers are modelled one at a
   time, as they run in one event loop.

## Not modelled

Most of the repository's lines are not state machines: catalogs of national sources and
their coverage (one file alone has twelve thousand lines), scorecards, relevance audits,
contract validators, document parsing and rendering, acquirers that fetch and extract, HTTP
routes, pages, scripts that print a report, and tests. They compute a function of their input
or hold data, and a transition system would only restate them. The files that write durable
state in transactions are less than a sixth of the code; of these the models cover the
parts in which something can come between two steps. The remaining ones are registries
whose only operation is to store or replace one checked document: what such a registry
promises is its version check, which holds by the shape of one statement.

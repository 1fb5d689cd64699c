-------------------------------- MODULE Outputs --------------------------------
(***************************************************************************)
(* What is done with documents and under which governance, side by side:   *)
(* the queue of AI jobs, the paid live pilot, foundational actions, the    *)
(* delivery of a ready package, retention, and the exports to the Vault.   *)
(* They share no state; what each of them promises is stated here, for     *)
(* every value of its constants.                                           *)
(***************************************************************************)
EXTENDS KnowledgeJobs

CONSTANTS
  CellCount, MaxDeaths, MaxRejections,
  Intents, Targets, TargetOf, Actors, Keys, Plans, Processes, NoOne, NoRequest, MaxChanges,
  Operators, Issues, AuditWindow, MaxSends, MaxStops, MaxSwitches,
  Artifacts, Conversions, ArtifactOf, Limit,
  Roots, Documents, Paths, PathOf, Contents, ContentOf, MaxRevisions, MaxEdits, MaxEnds

VARIABLES
  durable, inFlight, pilotPc, cell, paid, rejected, artifacts, accepted, deaths,
  intent, runs, acted, collect, plan, request, changes,
  submission, audit, call, delayed, consumer, bound, configured, stops, switches,
  raw, run, doc, packaged, indexed, cited, old, outdated, before,
  binding, files, holds, ready, exports, export, edits, ends

Pilot == INSTANCE LivePilot WITH pc <- pilotPc

Actions == INSTANCE FoundationalActions WITH Idle <- NoRequest, executions <- acted

Delivery == INSTANCE PackageDelivery WITH Requests <- Operators, MaxAttempts <- MaxSends

Retained == INSTANCE Retention WITH Runs <- Conversions, stale <- outdated

Exports ==
  INSTANCE VaultExport WITH
    Targets <- Paths, TargetOf <- PathOf, MaxCrashes <- MaxEnds,
    held <- holds, call <- export, crashes <- ends

-----------------------------------------------------------------------------
(* Properties *)

\* LivePilot: a cell is paid for again only after its answer was thrown away, the
\* checkpoint names only cells whose evidence exists, once, and an accepted pilot has
\* the evidence of every cell.
PaymentsAccounted ==
  /\ Pilot!TypeOK /\ Pilot!PaymentsAccounted
  /\ Pilot!CheckpointTellsEvidence /\ Pilot!AcceptedIsWhole

\* FoundationalActions: an intent has one run, however many processes execute it,
\* and an execution names that run and its target.
OneRunPerIntent == Actions!TypeOK /\ Actions!OneRunPerIntent /\ Actions!LinksAreTrue

\* PackageDelivery: a request the consumer may have seen is recorded as attempted;
\* the diagnosis honours a recorded result and lets an attempt without one be
\* retried.  The last two need requests that follow one another.
ResultsAreHonoured ==
  /\ Delivery!TypeOK /\ Delivery!ContactIsRecorded
  /\ Delivery!ResultsAreHonoured /\ Delivery!UnknownMayBeRetried

\* Retention: nothing in use is archived.
ArchivedIsUnused == Retained!TypeOK /\ Retained!ArchivedIsUnused

\* VaultExport: a document has one pending destination, a destination one run,
\* and a run with a receipt left its content in the Vault.
OneUnresolvedDestination ==
  /\ Exports!ExportTypeOK /\ Exports!OneUnresolvedDestination
  /\ Exports!SucceededReachedTheVault
=============================================================================

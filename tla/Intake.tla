--------------------------------- MODULE Intake ---------------------------------
(***************************************************************************)
(* The ways by which files come in, side by side: what workers collect     *)
(* (raw artifacts and their store), what operators upload, and what is     *)
(* imported from the Vault.  They share no state here; what each of them   *)
(* promises is stated for every value of its constants.                    *)
(***************************************************************************)
EXTENDS ArtifactIngestion

CONSTANTS
  Requests, Intents, Nobody, Persistent, MaxEnds,
  Roots, Targets, Contents, Documents, TargetOf, ContentOf, None, Acceptable, ListLimit,
  MaxRevisions, MaxEdits, MaxStops, MaxInspections, MaxFailures

VARIABLES
  request, job, holder, expired, queue, artifacts, upload, busy, ends,
  binding, files, held, ready, exports, import, edits, stops,
  inspections, intents, executions, staged, blobs, verdicts, finalized, failures

ingestVars == <<clock, crashes, attempt, evidence, session, artifact, refs, part, object, call>>
uploadVars == <<request, job, holder, expired, queue, artifacts, upload, busy, ends>>
importVars ==
  <<binding, files, held, ready, exports, import, edits, stops,
    inspections, intents, executions, staged, blobs, verdicts, finalized, failures>>

Manual == INSTANCE ManualUpload WITH CrashLimit <- MaxEnds, call <- upload, crashes <- ends

Imports == INSTANCE VaultImport WITH MaxCrashes <- MaxStops, call <- import, crashes <- stops

-----------------------------------------------------------------------------
(* Properties *)

\* ManualUpload: an upload repeated through crashes and lost leases has one
\* artifact, and a job of the second route is leased to its own upload only.
OneUploadOneArtifact == Manual!TypeOK /\ Manual!UploadedOnce /\ Manual!IntentsKeepTheirJobs

\* VaultImport: what is imported was reviewed, byte for byte, has one document
\* however often the import is retried, and its bytes stay in the store.
ImportedOnceAsReviewed ==
  /\ Imports!TypeOK /\ Imports!ImportedAsReviewed
  /\ Imports!OneDocumentPerIntent /\ Imports!DocumentsKeepTheirBytes
=============================================================================

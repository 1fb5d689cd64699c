------------------------------- MODULE Retention -------------------------------
(***************************************************************************)
(* Retention of raw artifacts and staging documents                        *)
(* (retention-execution.ts) against the work that uses them: conversion    *)
(* runs, verification, ready packages, the retrieval index and evidence    *)
(* sets.  An execution scans, judges the holds and archives in one         *)
(* transaction; the work goes on before and after it, with the checks its  *)
(* own transactions make.  One workspace; artifacts are the versions of    *)
(* one document, numbered in the order they were created.                  *)
(***************************************************************************)
EXTENDS Integers, FiniteSets

CONSTANTS
  Artifacts,    \* raw artifacts, 1 .. n
  Runs,         \* conversion runs, each with its staging document
  ArtifactOf,   \* Run -> the artifact it converts
  Limit         \* candidates of an execution (1000 in the code)

RetentionAssumption ==
  /\ Artifacts \subseteq Nat /\ IsFiniteSet(Artifacts) /\ IsFiniteSet(Runs)
  /\ ArtifactOf \in [Runs -> Artifacts]
  /\ Limit \in Nat \ {0}

VARIABLES
  raw,        \* Artifact -> its status
  run,        \* Run -> its status
  doc,        \* Run -> the status of its staging document
  packaged,   \* runs whose document is in a ready package
  indexed,    \* runs whose document is in the retrieval index
  cited,      \* runs whose document is in an evidence set
  old,        \* artifacts past the cutoff
  stale,      \* runs whose document is past the cutoff
  before      \* <<q, r>>: both documents exist and q was updated before r

vars == <<raw, run, doc, packaged, indexed, cited, old, stale, before>>
workVars == <<run, packaged, indexed, cited>>

RawStatus == {"NONE", "READY_FOR_CONVERSION", "ARCHIVED"}
RunStatus == {"NONE", "LIVE", "COMPLETED", "FAILED"}
DocStatus == {"NONE", "GENERATED", "READY", "BLOCKED", "ARCHIVED"}

Init ==
  /\ raw = [a \in Artifacts |-> "NONE"]
  /\ run = [r \in Runs |-> "NONE"]
  /\ doc = [r \in Runs |-> "NONE"]
  /\ packaged = {} /\ indexed = {} /\ cited = {}
  /\ old = {} /\ stale = {}
  /\ before = {}

RunsOf(a) == {r \in Runs: ArtifactOf[r] = a}

Staged == {r \in Runs: doc[r] # "NONE"}

\* updated_at of the documents of S is now: they are last in the order, as they
\* were among themselves, and not past the cutoff.
Touch(S) ==
  /\ before' = {p \in before: p[1] \in S => p[2] \in S} \cup (Staged \ S) \X S
  /\ stale' = stale \ S

-----------------------------------------------------------------------------
\* The work that uses artifacts and documents.

Register(a) ==
  /\ raw[a] = "NONE"
  /\ \A b \in Artifacts: b < a => raw[b] # "NONE"
  /\ raw' = [raw EXCEPT ![a] = "READY_FOR_CONVERSION"]
  /\ UNCHANGED <<doc, old, stale, before, workVars>>

dispatch(r) ==
  /\ raw[ArtifactOf[r]] = "READY_FOR_CONVERSION"
  /\ run[r] = "NONE"
  /\ run' = [run EXCEPT ![r] = "LIVE"]
  /\ UNCHANGED <<raw, doc, packaged, indexed, cited, old, stale, before>>

registerStaging(r) ==
  /\ run[r] = "LIVE"
  /\ doc[r] = "NONE"
  /\ doc' = [doc EXCEPT ![r] = "GENERATED"]
  /\ Touch({r})
  /\ UNCHANGED <<raw, old, workVars>>

verify(r, outcome) ==
  /\ run[r] = "LIVE"
  /\ doc[r] = "GENERATED"
  /\ doc' = [doc EXCEPT ![r] = outcome]
  /\ Touch({r})
  /\ UNCHANGED <<raw, old, workVars>>

\* A run may also fail before its document exists or is verified.
finalize(r) ==
  /\ run[r] = "LIVE"
  /\ \/ doc[r] = "READY" /\ run' = [run EXCEPT ![r] = "COMPLETED"]
     \/ doc[r] # "READY" /\ run' = [run EXCEPT ![r] = "FAILED"]
  /\ UNCHANGED <<raw, doc, packaged, indexed, cited, old, stale, before>>

\* The request that publishes finalizes again first, which an archived document refuses.
createVerified(r) ==
  /\ run[r] = "COMPLETED"
  /\ doc[r] = "READY"
  /\ packaged' = packaged \cup {r}
  /\ UNCHANGED <<raw, run, doc, indexed, cited, old, stale, before>>

indexVerified(r) ==
  /\ r \in packaged \ indexed
  /\ RunsOf(ArtifactOf[r]) \cap indexed = {}
  /\ indexed' = indexed \cup {r}
  /\ UNCHANGED <<raw, run, doc, packaged, cited, old, stale, before>>

\* The indexed document of the highest version.
current == {r \in indexed: \A q \in indexed: ArtifactOf[q] <= ArtifactOf[r]}

cite(r) ==
  /\ r \in indexed
  /\ cited' = cited \cup {r}
  /\ UNCHANGED <<raw, run, doc, packaged, indexed, old, stale, before>>

-----------------------------------------------------------------------------
\* Retention.

ArtifactAges(a) ==
  /\ raw[a] # "NONE" /\ a \notin old
  /\ \A b \in Artifacts: b < a => b \in old
  /\ old' = old \cup {a}
  /\ UNCHANGED <<raw, doc, stale, before, workVars>>

DocumentAges(r) ==
  /\ doc[r] # "NONE" /\ r \notin stale
  /\ \A q \in Runs: <<q, r>> \in before => q \in stale
  /\ stale' = stale \cup {r}
  /\ UNCHANGED <<raw, doc, old, before, workVars>>

Ended == {"NONE", "COMPLETED", "FAILED"}

\* Holds that forget the document between a run's end and its package.
ForgetsStaging(a) ==
  \/ \E r \in RunsOf(a): run[r] \notin Ended
  \/ \E r \in RunsOf(a): r \in packaged \cup current \cup cited

\* Holds that an archived document still exercises.
HeldByArchived(a) ==
  \/ \E r \in RunsOf(a): run[r] \notin Ended
  \/ \E r \in RunsOf(a): doc[r] # "NONE"
  \/ \E r \in RunsOf(a): r \in packaged \cup current \cup cited

rawHolds(a) ==
  \/ \E r \in RunsOf(a): run[r] \notin Ended
  \/ \E r \in RunsOf(a): doc[r] \notin {"NONE", "ARCHIVED"}
  \/ \E r \in RunsOf(a): r \in packaged \cup current \cup cited

stagingHolds(r) == run[r] \notin Ended \/ r \in packaged \cup current \cup cited

\* The oldest artifacts, and with what is left of the limit the oldest documents.
rawCandidates ==
  LET due == {a \in old: raw[a] # "ARCHIVED"}
  IN {a \in due: Cardinality({b \in due: b < a}) < Limit}

stagingCandidates ==
  LET due == {r \in stale: doc[r] # "ARCHIVED"}
  IN {r \in due: Cardinality({q \in due: <<q, r>> \in before}) < Limit - Cardinality(rawCandidates)}

archiveStagingDocument(r) ==
  IF r \in stagingCandidates /\ ~ stagingHolds(r) THEN "ARCHIVED" ELSE doc[r]

\* Expired artifacts are removed.
DeletesArtifacts(a) == IF a \in rawCandidates /\ ~ rawHolds(a) THEN "NONE" ELSE raw[a]

archiveRawArtifact(a) ==
  IF a \in rawCandidates /\ ~ rawHolds(a) THEN "ARCHIVED" ELSE raw[a]

\* APPLY; a dry run changes nothing but its audit row.
executeRetentionPolicy ==
  /\ raw' = [a \in Artifacts |-> archiveRawArtifact(a)]
  /\ doc' = [r \in Runs |-> archiveStagingDocument(r)]
  /\ Touch({r \in Runs: doc[r] # archiveStagingDocument(r)})
  /\ UNCHANGED <<old, workVars>>

Next ==
  \/ \E a \in Artifacts: Register(a) \/ ArtifactAges(a)
  \/ \E r \in Runs:
       \/ dispatch(r) \/ registerStaging(r) \/ finalize(r)
       \/ createVerified(r) \/ indexVerified(r) \/ cite(r) \/ DocumentAges(r)
       \/ \E outcome \in {"READY", "BLOCKED"}: verify(r, outcome)
  \/ executeRetentionPolicy

Spec == Init /\ [][Next]_vars

\* Operators apply the policy again and again, and time passes.
Fairness ==
  /\ WF_vars(executeRetentionPolicy)
  /\ \A r \in Runs: WF_vars(DocumentAges(r))

FairSpec == Spec /\ Fairness

-----------------------------------------------------------------------------
(* Properties *)

\* Statuses are those of their tables and updated_at orders the staged documents.
TypeOK ==
  /\ raw \in [Artifacts -> RawStatus] /\ run \in [Runs -> RunStatus] /\ doc \in [Runs -> DocStatus]
  /\ packaged \subseteq Runs /\ indexed \subseteq packaged /\ cited \subseteq indexed
  /\ old \subseteq Artifacts /\ stale \subseteq Runs
  /\ before \subseteq Staged \X Staged
  /\ \A q, r \in Staged: <<q, r>> \in before <=> q # r /\ <<r, q>> \notin before
  /\ \A p, q, r \in Staged: <<p, q>> \in before /\ <<q, r>> \in before => <<p, r>> \in before

\* Nothing in use is archived, whenever the use began: an archived artifact has
\* no unended run and no document that is not archived too, and an archived
\* document is in no package, no current retrieval and no evidence set.
ArchivedIsUnused ==
  /\ \A a \in Artifacts: raw[a] = "ARCHIVED" =>
       \A r \in RunsOf(a): run[r] \in Ended /\ doc[r] \in {"NONE", "ARCHIVED"}
  /\ \A r \in Runs: doc[r] = "ARCHIVED" =>
       run[r] \in Ended /\ r \notin packaged \cup current \cup cited

\* A step removes no row, and leaves archived what is archived.
EvidenceIsKept ==
  /\ \A a \in Artifacts: raw[a] # "NONE" => raw'[a] \in {raw[a], "ARCHIVED"}
  /\ \A r \in Runs: doc[r] # "NONE" => doc'[r] # "NONE"
  /\ \A r \in Runs: doc[r] = "ARCHIVED" => doc'[r] = "ARCHIVED"

\* An artifact past the cutoff is archived in the end unless something holds it
\* or is at work on it: its documents go first and no longer hold it then.
ExpiredAreArchived ==
  \A a \in Artifacts:
    (a \in old /\ \A r \in RunsOf(a): run[r] \in {"COMPLETED", "FAILED"} /\ r \notin packaged)
      ~> (raw[a] = "ARCHIVED" \/ \E r \in RunsOf(a): r \in packaged)
=============================================================================

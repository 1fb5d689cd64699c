-------------------------- MODULE ArtifactIngestion --------------------------
(***************************************************************************)
(* How a worker's files become raw artifacts                               *)
(* (packages/persistence/src/raw-artifact-registry.ts).                    *)
(*                                                                         *)
(* Every method of the repository runs on one event loop: what it does     *)
(* between two awaits is one step, and anything else may happen at an      *)
(* await.  A request in flight is a call; it remembers what it read before *)
(* its await.  The database and the files survive a crash, calls do not.   *)
(* All sessions here are for one canonical URI of one source, the case in  *)
(* which artifacts supersede each other; quarantined files are not kept.   *)
(***************************************************************************)
EXTENDS Integers, FiniteSets

CONSTANTS
  Sessions,       \* ingestion sessions, one for each idempotency key
  Digests,        \* SHA-256 content identities
  Leases,         \* leases of started executions, one attempt each
  Calls,          \* requests that can be in flight together
  NoSession,      \* the predecessor of a first version
  ClockLimit,     \* bound on the clock
  CrashLimit      \* bound on the number of crashes

ASSUME NoSessionAssumption == NoSession \notin Sessions
ASSUME SessionsAssumption == IsFiniteSet(Sessions)
ASSUME LimitsAssumption == ClockLimit \in Nat /\ CrashLimit \in Nat

VARIABLES
  clock,      \* the time of the server
  crashes,    \* crashes so far
  attempt,    \* Lease -> state of its execution attempt
  evidence,   \* Lease -> sessions whose receipts its completion lists
  session,    \* Session -> row of artifact_ingestion_sessions
  artifact,   \* Session -> row of raw_artifacts with that session_id
  refs,       \* Digest -> reference_count in content_objects
  part,       \* Session -> its file sessions/<id>/content.part
  object,     \* Digest -> its file under objects/sha256
  call        \* Call -> the request in flight

vars == <<clock, crashes, attempt, evidence, session, artifact, refs, part, object, call>>

SessionStatus == {"CREATED", "UPLOADING", "VERIFIED", "FINALIZED", "ABORTED", "QUARANTINED"}
AttemptStatus == {"ACTIVE", "COMPLETED", "ENDED"}

\* A file that is whole, or one whose bytes are not those that were hashed.
FileState == {"NONE", "WHOLE", "TORN"}

NoRow == [status |-> "NONE"]
SessionRecord ==
  [status: SessionStatus, lease: Leases, digest: Digests, updated: 0..ClockLimit]

NoArtifact == [version |-> 0]
ArtifactRecord ==
  [version: Nat \ {0}, supersedes: Sessions \cup {NoSession}, digest: Digests,
   lease: Leases, created: 0..ClockLimit]

Idle == [step |-> "IDLE"]
CallRecord ==
  [step: {"OPENING", "WRITING", "REJECTING", "LINKING", "CHECKING", "COMMITTING"},
   session: Sessions, started: 0..ClockLimit]

Init ==
  /\ clock = 0 /\ crashes = 0
  /\ attempt = [l \in Leases |-> "ACTIVE"]
  /\ evidence = [l \in Leases |-> {}]
  /\ session = [s \in Sessions |-> NoRow]
  /\ artifact = [s \in Sessions |-> NoArtifact]
  /\ refs = [d \in Digests |-> 0]
  /\ part = [s \in Sessions |-> "NONE"]
  /\ object = [d \in Digests |-> "NONE"]
  /\ call = [c \in Calls |-> Idle]

----------------------------------------------------------------------------
(* Helpers. *)

Registered == {s \in Sessions : artifact[s] # NoArtifact}

\* The lease that owns session s is active, and so is its attempt.
Authentic(s) == attempt[session[s].lease] = "ACTIVE"

\* updateSession writes the row without looking at the status it has by then.
Written(s, status) ==
  session' = [session EXCEPT ![s].status = status, ![s].updated = clock]

Begin(c, s, step) ==
  /\ call[c] = Idle
  /\ call' = [call EXCEPT ![c] = [step |-> step, session |-> s, started |-> clock]]

At(c, step) == call[c] # Idle /\ call[c].step = step
GoTo(c, step) == call' = [call EXCEPT ![c].step = step]
Return(c) == call' = [call EXCEPT ![c] = Idle]

\* The artifact a new one supersedes: the latest by its creation time.  The
\* order of identifiers made in one millisecond is random.
Latest == {s \in Registered : \A t \in Registered : artifact[t].created <= artifact[s].created}

----------------------------------------------------------------------------
(* createSession for the descriptor with digest d; a repeated key changes  *)
(* nothing.                                                                *)

CreateSession(s, l, d) ==
  /\ session[s] = NoRow
  /\ attempt[l] = "ACTIVE"
  /\ session' = [session EXCEPT ![s] =
       [status |-> "CREATED", lease |-> l, digest |-> d, updated |-> clock]]
  /\ UNCHANGED <<clock, crashes, attempt, evidence, artifact, refs, part, object, call>>

(* uploadContent: UPLOADING is recorded, then the body is streamed into a  *)
(* new file while it is hashed, then the verdict is recorded.              *)

UploadContent(c, s) ==
  /\ session[s].status = "CREATED"
  /\ Authentic(s)
  /\ Begin(c, s, "OPENING")
  /\ Written(s, "UPLOADING")
  /\ UNCHANGED <<clock, crashes, attempt, evidence, artifact, refs, part, object>>

OpenPart(c) ==
  /\ At(c, "OPENING")
  /\ part[call[c].session] = "NONE"
  /\ part' = [part EXCEPT ![call[c].session] = "TORN"]
  /\ GoTo(c, "WRITING")
  /\ UNCHANGED <<clock, crashes, attempt, evidence, session, artifact, refs, object>>

\* The stream has ended with the declared identity.  The file may have been
\* removed meanwhile, or hold less than was hashed (a short write is not noticed).
VerifyUpload(c) ==
  /\ At(c, "WRITING")
  /\ LET s == call[c].session IN
     /\ \E bytes \in {"WHOLE", "TORN"} :
          part' = [part EXCEPT ![s] = IF @ = "NONE" THEN "NONE" ELSE bytes]
     /\ Written(s, "VERIFIED")
  /\ Return(c)
  /\ UNCHANGED <<clock, crashes, attempt, evidence, artifact, refs, object>>

\* The stream has ended with another identity: the file goes to quarantine/.
QuarantinePart(c) ==
  /\ At(c, "WRITING")
  /\ part' = [part EXCEPT ![call[c].session] = "NONE"]
  /\ GoTo(c, "REJECTING")
  /\ UNCHANGED <<clock, crashes, attempt, evidence, session, artifact, refs, object>>

RejectWithoutRecord(c) ==
  /\ At(c, "REJECTING")
  /\ Return(c)
  /\ UNCHANGED <<clock, crashes, attempt, evidence, session, artifact, refs, part, object>>

RejectUpload(c) ==
  /\ At(c, "REJECTING")
  /\ Written(call[c].session, "QUARANTINED")
  /\ Return(c)
  /\ UNCHANGED <<clock, crashes, attempt, evidence, artifact, refs, part, object>>

\* The stream or the file system failed, or the body is too large.
FailUpload(c) ==
  /\ At(c, "OPENING") \/ At(c, "WRITING")
  /\ part' = IF At(c, "WRITING") THEN [part EXCEPT ![call[c].session] = "NONE"] ELSE part
  /\ Written(call[c].session, "QUARANTINED")
  /\ Return(c)
  /\ UNCHANGED <<clock, crashes, attempt, evidence, artifact, refs, object>>

(* finalize: the file is linked to its digest's place, what is there is    *)
(* rehashed, the file is removed, and one transaction registers the        *)
(* artifact.                                                               *)

Finalize(c, s) ==
  /\ session[s].status = "VERIFIED"
  /\ Authentic(s)
  /\ Begin(c, s, "LINKING")
  /\ UNCHANGED <<clock, crashes, attempt, evidence, session, artifact, refs, part, object>>

LinkObject(c) ==
  /\ At(c, "LINKING")
  /\ LET s == call[c].session
         d == session[s].digest IN
     IF part[s] = "NONE"
     THEN Return(c) /\ UNCHANGED object
     ELSE /\ object' = [object EXCEPT ![d] = IF @ = "NONE" THEN part[s] ELSE @]
          /\ GoTo(c, "CHECKING")
  /\ UNCHANGED <<clock, crashes, attempt, evidence, session, artifact, refs, part>>

CheckNothing(c) ==
  /\ At(c, "CHECKING")
  /\ part' = [part EXCEPT ![call[c].session] = "NONE"]
  /\ GoTo(c, "COMMITTING")
  /\ UNCHANGED <<clock, crashes, attempt, evidence, session, artifact, refs, object>>

CheckObject(c) ==
  /\ At(c, "CHECKING")
  /\ LET s == call[c].session IN
     IF object[session[s].digest] # "WHOLE"
     THEN Return(c) /\ UNCHANGED part
     ELSE part' = [part EXCEPT ![s] = "NONE"] /\ GoTo(c, "COMMITTING")
  /\ UNCHANGED <<clock, crashes, attempt, evidence, session, artifact, refs, object>>

\* What the transaction of call c writes for session s, after version `previous`.
Registering(c, s, p, previous) ==
  LET d == session[s].digest IN
  /\ artifact' = [artifact EXCEPT ![s] =
       [version |-> previous + 1, supersedes |-> p, digest |-> d,
        lease |-> session[s].lease, created |-> call[c].started]]
  /\ refs' = [refs EXCEPT ![d] = @ + 1]
  /\ session' = [session EXCEPT ![s].status = "FINALIZED", ![s].updated = call[c].started]

RegisterFrom(c, s, first) ==
  IF Latest = {} THEN Registering(c, s, NoSession, first)
  ELSE \E p \in Latest : Registering(c, s, p, artifact[p].version)

RegisterFromZero(c, s) == RegisterFrom(c, s, -1)
Register(c, s) == RegisterFrom(c, s, 0)

RegisterAgain(c) ==
  /\ At(c, "COMMITTING")
  /\ Register(c, call[c].session)
  /\ Return(c)
  /\ UNCHANGED <<clock, crashes, attempt, evidence, part, object>>

\* UNIQUE (session_id) rolls a second registration of the session back.
RegisterArtifact(c) ==
  /\ At(c, "COMMITTING")
  /\ IF call[c].session \in Registered
     THEN UNCHANGED <<session, artifact, refs>>
     ELSE Register(c, call[c].session)
  /\ Return(c)
  /\ UNCHANGED <<clock, crashes, attempt, evidence, part, object>>

(* abort and cleanupAbandoned remove the session's directory and record    *)
(* ABORTED.                                                                *)

AbortAnything(s) ==
  /\ session[s].status \in {"CREATED", "UPLOADING", "VERIFIED", "FINALIZED"}
  /\ Authentic(s)
  /\ part' = [part EXCEPT ![s] = "NONE"]
  /\ Written(s, "ABORTED")
  /\ UNCHANGED <<clock, crashes, attempt, evidence, artifact, refs, object, call>>

Abort(s) ==
  /\ session[s].status \in {"CREATED", "UPLOADING", "VERIFIED"}
  /\ Authentic(s)
  /\ part' = [part EXCEPT ![s] = "NONE"]
  /\ Written(s, "ABORTED")
  /\ UNCHANGED <<clock, crashes, attempt, evidence, artifact, refs, object, call>>

CleanupAbandoned(olderThan) ==
  LET rows == {s \in Sessions : /\ session[s].status \in {"CREATED", "UPLOADING"}
                                /\ session[s].updated < olderThan} IN
  /\ rows # {}
  /\ part' = [s \in Sessions |-> IF s \in rows THEN "NONE" ELSE part[s]]
  /\ session' = [s \in Sessions |->
       IF s \in rows THEN [session[s] EXCEPT !.status = "ABORTED", !.updated = clock]
                     ELSE session[s]]
  /\ UNCHANGED <<clock, crashes, attempt, evidence, artifact, refs, object, call>>

----------------------------------------------------------------------------
(* The execution around the ingestion: it completes with receipts that     *)
(* assertFinalizedArtifactReceipts accepts (none when metadataOnly), or    *)
(* its lease ends.                                                         *)

FinalizedReceipts(l) ==
  {s \in Registered : session[s].status = "FINALIZED" /\ artifact[s].lease = l}

CompleteExecution(l) ==
  /\ attempt[l] = "ACTIVE"
  /\ attempt' = [attempt EXCEPT ![l] = "COMPLETED"]
  /\ \E receipts \in SUBSET FinalizedReceipts(l) :
       evidence' = [evidence EXCEPT ![l] = receipts]
  /\ UNCHANGED <<clock, crashes, session, artifact, refs, part, object, call>>

EndLease(l) ==
  /\ attempt[l] = "ACTIVE"
  /\ attempt' = [attempt EXCEPT ![l] = "ENDED"]
  /\ UNCHANGED <<clock, crashes, evidence, session, artifact, refs, part, object, call>>

ClockTick ==
  /\ clock < ClockLimit
  /\ clock' = clock + 1
  /\ UNCHANGED <<crashes, attempt, evidence, session, artifact, refs, part, object, call>>

Crash ==
  /\ crashes < CrashLimit
  /\ crashes' = crashes + 1
  /\ call' = [c \in Calls |-> Idle]
  /\ UNCHANGED <<clock, attempt, evidence, session, artifact, refs, part, object>>

UploadStep(c) ==
  OpenPart(c) \/ VerifyUpload(c) \/ QuarantinePart(c) \/ RejectUpload(c) \/ FailUpload(c)

FinalizeStep(c) == LinkObject(c) \/ CheckObject(c) \/ RegisterArtifact(c)

Next ==
  \/ \E s \in Sessions, l \in Leases, d \in Digests : CreateSession(s, l, d)
  \/ \E s \in Sessions : Abort(s)
  \/ \E c \in Calls, s \in Sessions : UploadContent(c, s) \/ Finalize(c, s)
  \/ \E c \in Calls : UploadStep(c) \/ FinalizeStep(c)
  \/ \E olderThan \in 1..ClockLimit : CleanupAbandoned(olderThan)
  \/ \E l \in Leases : CompleteExecution(l) \/ EndLease(l)
  \/ ClockTick
  \/ Crash

\* A body that is being read ends or fails: the server awaits nothing else.
Fairness == \A c \in Calls : WF_vars(UploadStep(c))

Spec == Init /\ [][Next]_vars /\ Fairness

----------------------------------------------------------------------------
(* Properties. *)

TypeOK ==
  /\ clock \in 0..ClockLimit /\ crashes \in 0..CrashLimit
  /\ attempt \in [Leases -> AttemptStatus]
  /\ evidence \in [Leases -> SUBSET Sessions]
  /\ session \in [Sessions -> SessionRecord \cup {NoRow}]
  /\ artifact \in [Sessions -> ArtifactRecord \cup {NoArtifact}]
  /\ refs \in [Digests -> Nat]
  /\ part \in [Sessions -> FileState]
  /\ object \in [Digests -> FileState]
  /\ call \in [Calls -> CallRecord \cup {Idle}]

\* The bytes behind every registered artifact are stored whole, whatever
\* uploads, aborts, short writes and crashes happened in between: finalize
\* rehashes what is at the object's place before the registering transaction.
ArtifactsStored == \A s \in Registered : object[artifact[s].digest] = "WHOLE"

\* reference_count of a content object is the number of artifacts that use it,
\* also when two finalizations of one session race or a crash divides them.
ReferencesCounted ==
  \A d \in Digests : refs[d] = Cardinality({s \in Registered : artifact[s].digest = d})

\* A session is FINALIZED exactly when its artifact is registered, although an
\* abort or a cleanup may be answered between the link and the transaction.
FinalizedIffRegistered == \A s \in Sessions : session[s].status = "FINALIZED" <=> s \in Registered

\* The receipts a completed execution was accepted with stay finalized artifacts
\* of that execution: late writes of its own requests cannot take them back.
EvidenceStays ==
  \A l \in Leases : \A s \in evidence[l] :
    session[s].status = "FINALIZED" /\ artifact[s].lease = l

\* The registry and the store agree: all of the above.
RegistryAgreesWithStore ==
  TypeOK /\ ArtifactsStored /\ ReferencesCounted /\ FinalizedIffRegistered /\ EvidenceStays

\* Without a crash no upload is left in UPLOADING for ever: the request that
\* recorded it records its verdict.
UploadsSettle ==
  \A s \in Sessions :
    session[s].status = "UPLOADING" /\ crashes = 0
      ~> session[s].status # "UPLOADING" \/ crashes > 0
============================================================================

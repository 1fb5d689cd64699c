------------------------------ MODULE IntakeProofs ------------------------------
(***************************************************************************)
(* Theorems about Intake: the raw artifact registry and the content store  *)
(* agree, an upload has one artifact, an import has one document and what  *)
(* it holds was reviewed, for any number of sessions, digests, leases,     *)
(* requests, contents and crashes.                                         *)
(***************************************************************************)
EXTENDS Intake, FiniteSetTheorems, SequenceTheorems, TLAPS

\* A request that is still receiving the body of its session.
Uploading(c) == call[c].step \in {"OPENING", "WRITING", "REJECTING"}

\* What a request in flight may rely on after its await.  The one that receives the
\* body has the session to itself, and nothing but an abort or a cleanup has moved
\* it; a finalization finds the session where it left it, aborted, or finalized by
\* another one; and at the transaction the object is there as it was rehashed.
CallsInPlace ==
  \A c \in Calls : call[c] # Idle =>
    /\ Uploading(c) => /\ session[call[c].session].status \in {"UPLOADING", "ABORTED"}
                       /\ \A k \in Calls : k # c /\ call[k] # Idle =>
                            call[k].session # call[c].session
    /\ ~Uploading(c) => session[call[c].session].status \in {"VERIFIED", "FINALIZED", "ABORTED"}
    /\ call[c].step = "COMMITTING" => object[session[call[c].session].digest] = "WHOLE"

IInv == RegistryAgreesWithStore /\ CallsInPlace

-----------------------------------------------------------------------------
(* What the helpers write. *)

LEMMA Rows ==
  ASSUME TypeOK
  PROVE  /\ \A s \in Sessions : session[s].status # "NONE" => session[s] \in SessionRecord
         /\ \A s \in Sessions : session[s] # NoRow => session[s].status # "NONE"
         /\ \A c \in Calls : call[c] # Idle => call[c] \in CallRecord
         /\ \A s \in Registered : artifact[s] \in ArtifactRecord
         /\ NoArtifact \notin ArtifactRecord /\ Idle \notin CallRecord
BY DEF TypeOK, NoRow, Idle, NoArtifact, Registered, SessionRecord, SessionStatus, CallRecord,
       ArtifactRecord

LEMMA WrittenRow ==
  ASSUME TypeOK, NEW s \in Sessions, session[s].status # "NONE", NEW x \in SessionStatus,
         NEW t \in 0..ClockLimit, session' = [session EXCEPT ![s].status = x, ![s].updated = t]
  PROVE  /\ session' \in [Sessions -> SessionRecord \cup {NoRow}]
         /\ session'[s].status = x /\ session'[s].digest = session[s].digest
         /\ session'[s].lease = session[s].lease
         /\ \A u \in Sessions : u # s => session'[u] = session[u]
<1>1. session[s] \in SessionRecord
  BY Rows
<1> DEFINE row == [session[s] EXCEPT !.status = x, !.updated = t]
<1>2. session' = [session EXCEPT ![s] = row]
  BY <1>1 DEF TypeOK, SessionRecord
<1>3. /\ row \in SessionRecord /\ row.status = x
      /\ row.digest = session[s].digest /\ row.lease = session[s].lease
  BY <1>1 DEF SessionRecord
<1> HIDE DEF row
<1> QED BY <1>2, <1>3 DEF TypeOK

LEMMA BegunCall ==
  ASSUME TypeOK, NEW c \in Calls, NEW s \in Sessions, NEW x \in {"OPENING", "LINKING"}, Begin(c, s, x)
  PROVE  /\ call' \in [Calls -> CallRecord \cup {Idle}]
         /\ call[c] = Idle /\ call'[c] # Idle /\ call'[c].step = x /\ call'[c].session = s
         /\ \A k \in Calls : k # c => call'[k] = call[k]
<1> DEFINE new == [step |-> x, session |-> s, started |-> clock]
<1>1. new \in CallRecord /\ new.step = x /\ new.session = s
  BY DEF TypeOK, CallRecord
<1>2. call[c] = Idle /\ call' = [call EXCEPT ![c] = new]
  BY DEF Begin
<1> HIDE DEF new
<1> QED BY <1>1, <1>2, Rows DEF TypeOK

LEMMA MovedCall ==
  ASSUME TypeOK, NEW c \in Calls, call[c] # Idle,
         NEW x \in {"WRITING", "REJECTING", "CHECKING", "COMMITTING"}, GoTo(c, x)
  PROVE  /\ call' \in [Calls -> CallRecord \cup {Idle}]
         /\ call'[c] # Idle /\ call'[c].step = x /\ call'[c].session = call[c].session
         /\ \A k \in Calls : k # c => call'[k] = call[k]
<1> DEFINE new == [call[c] EXCEPT !.step = x]
<1>0. call[c] \in CallRecord
  BY Rows
<1>1. new \in CallRecord /\ new.step = x /\ new.session = call[c].session
  BY <1>0 DEF CallRecord
<1>2. call' = [call EXCEPT ![c] = new]
  BY DEF GoTo
<1> HIDE DEF new
<1> QED BY <1>1, <1>2, Rows DEF TypeOK

LEMMA ReturnedCall ==
  ASSUME TypeOK, NEW c \in Calls, Return(c)
  PROVE  /\ call' \in [Calls -> CallRecord \cup {Idle}] /\ call'[c] = Idle
         /\ \A k \in Calls : k # c => call'[k] = call[k]
BY DEF TypeOK, Return

\* The request in flight c.
LEMMA InFlight ==
  ASSUME TypeOK, CallsInPlace, NEW c \in Calls, call[c] # Idle
  PROVE  /\ call[c] \in CallRecord /\ call[c].session \in Sessions
         /\ session[call[c].session] \in SessionRecord
         /\ session[call[c].session].status # "NONE"
<1>1. call[c] \in CallRecord /\ call[c].session \in Sessions
  BY Rows DEF CallRecord
<1>2. session[call[c].session].status # "NONE"
  BY DEF CallsInPlace
<1> QED BY <1>1, <1>2, Rows

-----------------------------------------------------------------------------
(* The registry. *)

\* A step that registers nothing and finalizes nothing keeps the registry.
LEMMA RegistryStays ==
  ASSUME RegistryAgreesWithStore, artifact' = artifact, refs' = refs, evidence' = evidence,
         \A s \in Sessions : session'[s].status = "FINALIZED" <=> session[s].status = "FINALIZED",
         \A d \in Digests : object[d] = "WHOLE" => object'[d] = "WHOLE"
  PROVE  ArtifactsStored' /\ ReferencesCounted' /\ FinalizedIffRegistered' /\ EvidenceStays'
<1>1. Registered' = Registered
  BY DEF Registered
<1>2. ArtifactsStored'
  BY <1>1, Rows DEF RegistryAgreesWithStore, ArtifactsStored, ArtifactRecord
<1>3. ReferencesCounted' /\ FinalizedIffRegistered'
  BY <1>1 DEF RegistryAgreesWithStore, ReferencesCounted, FinalizedIffRegistered
<1>4. EvidenceStays'
  BY DEF RegistryAgreesWithStore, EvidenceStays, TypeOK
<1> QED BY <1>2, <1>3, <1>4

-----------------------------------------------------------------------------
(* The steps. *)

LEMMA InvInit == Init => IInv
<1> SUFFICES ASSUME Init PROVE IInv
  OBVIOUS
<1>1. TypeOK
  BY LimitsAssumption DEF Init, TypeOK, AttemptStatus, FileState
<1>2. Registered = {} /\ \A s \in Sessions : session[s].status = "NONE"
  BY DEF Init, Registered, NoRow
<1>3. ReferencesCounted
  <2>1. \A d \in Digests : {s \in Registered : artifact[s].digest = d} = {}
    BY <1>2
  <2> QED BY <2>1, FS_EmptySet DEF Init, ReferencesCounted
<1>4. ArtifactsStored /\ FinalizedIffRegistered /\ EvidenceStays
  BY <1>2 DEF Init, ArtifactsStored, FinalizedIffRegistered, EvidenceStays
<1>5. CallsInPlace
  BY DEF Init, CallsInPlace
<1> QED BY <1>1, <1>3, <1>4, <1>5 DEF IInv, RegistryAgreesWithStore

\* createSession.  No request is in flight for a session without a row.
LEMMA CreateSessionStep ==
  ASSUME IInv, NEW s \in Sessions, NEW l \in Leases, NEW d \in Digests, CreateSession(s, l, d)
  PROVE  IInv'
<1> DEFINE row == [status |-> "CREATED", lease |-> l, digest |-> d, updated |-> clock]
<1>0. TypeOK /\ CallsInPlace /\ RegistryAgreesWithStore
  BY DEF IInv, RegistryAgreesWithStore
<1>1. row \in SessionRecord /\ row.status = "CREATED"
  BY <1>0 DEF TypeOK, SessionRecord, SessionStatus
<1>2. session[s].status = "NONE" /\ session' = [session EXCEPT ![s] = row]
  BY DEF CreateSession, NoRow
<1> HIDE DEF row
<1>3. session'[s].status = "CREATED" /\ \A u \in Sessions : u # s => session'[u] = session[u]
  BY <1>0, <1>1, <1>2 DEF TypeOK
<1>4. TypeOK'
  BY <1>0, <1>1, <1>2 DEF CreateSession, TypeOK
<1>5. CallsInPlace'
  <2>1. \A c \in Calls : call[c] # Idle => call[c].session \in Sessions /\ call[c].session # s
    BY <1>0, <1>2, InFlight
  <2>2. call' = call /\ object' = object
    BY DEF CreateSession
  <2> QED BY <1>0, <1>3, <2>1, <2>2 DEF CallsInPlace, Uploading
<1>6. ArtifactsStored' /\ ReferencesCounted' /\ FinalizedIffRegistered' /\ EvidenceStays'
  <2>1. \A u \in Sessions : session'[u].status = "FINALIZED" <=> session[u].status = "FINALIZED"
    BY <1>2, <1>3
  <2> QED BY <1>0, <2>1, RegistryStays DEF CreateSession
<1> QED BY <1>4, <1>5, <1>6 DEF IInv, RegistryAgreesWithStore

\* Steps that write no row of a session, no artifact and no object: what they do to
\* the calls is all that matters.
LEMMA QuietStep ==
  ASSUME IInv, UNCHANGED <<session, artifact, refs, evidence>>,
         \A d \in Digests : object[d] = "WHOLE" => object'[d] = "WHOLE",
         TypeOK', CallsInPlace'
  PROVE  IInv'
BY RegistryStays DEF IInv, RegistryAgreesWithStore

\* Steps of the upload and of the finalization that leave the rows alone, the start
\* of a finalization, the clock, the end of a lease and a crash.
LEMMA OtherSteps ==
  ASSUME IInv,
         \/ \E c \in Calls : OpenPart(c) \/ QuarantinePart(c) \/ LinkObject(c) \/ CheckObject(c)
         \/ \E c \in Calls, s \in Sessions : Finalize(c, s)
         \/ \E l \in Leases : EndLease(l)
         \/ ClockTick \/ Crash
  PROVE  IInv'
<1>0. TypeOK /\ CallsInPlace
  BY DEF IInv, RegistryAgreesWithStore
<1>1. ASSUME NEW c \in Calls, OpenPart(c) PROVE IInv'
  <2>0. call[c] # Idle /\ call[c].session \in Sessions /\ call[c].step = "OPENING"
    BY <1>0, <1>1, InFlight DEF OpenPart, At
  <2>1. /\ call' \in [Calls -> CallRecord \cup {Idle}]
        /\ call'[c] # Idle /\ call'[c].step = "WRITING" /\ call'[c].session = call[c].session
        /\ \A k \in Calls : k # c => call'[k] = call[k]
    BY <1>0, <1>1, <2>0, MovedCall DEF OpenPart
  <2>2. TypeOK'
    BY <1>0, <1>1, <2>0, <2>1 DEF OpenPart, TypeOK, FileState
  <2>3. session' = session /\ object' = object
    BY <1>1 DEF OpenPart
  <2>4. CallsInPlace'
    BY <1>0, <2>0, <2>1, <2>3 DEF CallsInPlace, Uploading
  <2> QED BY <1>1, <2>2, <2>3, <2>4, QuietStep DEF OpenPart
<1>2. ASSUME NEW c \in Calls, QuarantinePart(c) PROVE IInv'
  <2>0. call[c] # Idle /\ call[c].session \in Sessions /\ call[c].step = "WRITING"
    BY <1>0, <1>2, InFlight DEF QuarantinePart, At
  <2>1. /\ call' \in [Calls -> CallRecord \cup {Idle}]
        /\ call'[c] # Idle /\ call'[c].step = "REJECTING" /\ call'[c].session = call[c].session
        /\ \A k \in Calls : k # c => call'[k] = call[k]
    BY <1>0, <1>2, <2>0, MovedCall DEF QuarantinePart
  <2>2. TypeOK'
    BY <1>0, <1>2, <2>0, <2>1 DEF QuarantinePart, TypeOK, FileState
  <2>3. session' = session /\ object' = object
    BY <1>2 DEF QuarantinePart
  <2>4. CallsInPlace'
    BY <1>0, <2>0, <2>1, <2>3 DEF CallsInPlace, Uploading
  <2> QED BY <1>2, <2>2, <2>3, <2>4, QuietStep DEF QuarantinePart
<1>3. ASSUME NEW c \in Calls, LinkObject(c) PROVE IInv'
  <2> DEFINE s == call[c].session
             d == session[s].digest
  <2>0. call[c] # Idle /\ s \in Sessions /\ d \in Digests /\ call[c].step = "LINKING"
    BY <1>0, <1>3, InFlight DEF LinkObject, At, SessionRecord
  <2>1. UNCHANGED <<clock, crashes, attempt, evidence, session, artifact, refs, part>>
    BY <1>3 DEF LinkObject
  <2>2. CASE Return(c) /\ UNCHANGED object
    <3>1. /\ call' \in [Calls -> CallRecord \cup {Idle}] /\ call'[c] = Idle
          /\ \A k \in Calls : k # c => call'[k] = call[k]
      BY <1>0, <2>2, ReturnedCall
    <3>2. TypeOK'
      BY <1>0, <2>1, <2>2, <3>1 DEF TypeOK
    <3>3. CallsInPlace'
      BY <1>0, <2>1, <2>2, <3>1 DEF CallsInPlace, Uploading
    <3> QED BY <2>1, <2>2, <3>2, <3>3, QuietStep
  <2>3. CASE /\ object' = [object EXCEPT ![d] = IF @ = "NONE" THEN part[s] ELSE @]
             /\ GoTo(c, "CHECKING")
    <3>1. /\ call' \in [Calls -> CallRecord \cup {Idle}]
          /\ call'[c] # Idle /\ call'[c].step = "CHECKING" /\ call'[c].session = s
          /\ \A k \in Calls : k # c => call'[k] = call[k]
      BY <1>0, <2>0, <2>3, MovedCall
    <3> HIDE DEF s, d
    <3>2. object' \in [Digests -> FileState] /\ \A e : object[e] = "WHOLE" => object'[e] = "WHOLE"
      BY <1>0, <2>0, <2>3 DEF TypeOK, FileState
    <3>3. TypeOK'
      BY <1>0, <2>1, <3>1, <3>2 DEF TypeOK
    <3>4. CallsInPlace'
      BY <1>0, <2>0, <2>1, <3>1, <3>2 DEF CallsInPlace, Uploading, s
    <3> QED BY <2>1, <3>2, <3>3, <3>4, QuietStep
  <2> QED BY <1>3, <2>2, <2>3 DEF LinkObject
<1>4. ASSUME NEW c \in Calls, CheckObject(c) PROVE IInv'
  <2> DEFINE s == call[c].session
  <2>0. call[c] # Idle /\ s \in Sessions /\ call[c].step = "CHECKING"
    BY <1>0, <1>4, InFlight DEF CheckObject, At
  <2>1. UNCHANGED <<clock, crashes, attempt, evidence, session, artifact, refs, object>>
    BY <1>4 DEF CheckObject
  <2>2. CASE Return(c) /\ UNCHANGED part
    <3>1. /\ call' \in [Calls -> CallRecord \cup {Idle}] /\ call'[c] = Idle
          /\ \A k \in Calls : k # c => call'[k] = call[k]
      BY <1>0, <2>2, ReturnedCall
    <3>2. TypeOK'
      BY <1>0, <2>1, <2>2, <3>1 DEF TypeOK
    <3>3. CallsInPlace'
      BY <1>0, <2>1, <2>2, <3>1 DEF CallsInPlace, Uploading
    <3> QED BY <2>1, <2>2, <3>2, <3>3, QuietStep
  <2>3. CASE /\ object[session[s].digest] = "WHOLE"
             /\ part' = [part EXCEPT ![s] = "NONE"] /\ GoTo(c, "COMMITTING")
    <3>1. /\ call' \in [Calls -> CallRecord \cup {Idle}]
          /\ call'[c] # Idle /\ call'[c].step = "COMMITTING" /\ call'[c].session = s
          /\ \A k \in Calls : k # c => call'[k] = call[k]
      BY <1>0, <2>0, <2>3, MovedCall
    <3>2. TypeOK'
      BY <1>0, <2>0, <2>1, <2>3, <3>1 DEF TypeOK, FileState
    <3>3. CallsInPlace'
      BY <1>0, <2>0, <2>1, <2>3, <3>1 DEF CallsInPlace, Uploading
    <3> QED BY <2>1, <3>2, <3>3, QuietStep
  <2> QED BY <1>4, <2>2, <2>3 DEF CheckObject
<1>5. ASSUME NEW c \in Calls, NEW s \in Sessions, Finalize(c, s) PROVE IInv'
  <2>1. /\ call' \in [Calls -> CallRecord \cup {Idle}]
        /\ call[c] = Idle /\ call'[c] # Idle /\ call'[c].step = "LINKING" /\ call'[c].session = s
        /\ \A k \in Calls : k # c => call'[k] = call[k]
    BY <1>0, <1>5, BegunCall DEF Finalize
  <2>2. TypeOK'
    BY <1>0, <1>5, <2>1 DEF Finalize, TypeOK
  <2>3. session' = session /\ object' = object /\ session[s].status = "VERIFIED"
    BY <1>5 DEF Finalize
  <2>4. CallsInPlace'
    BY <1>0, <2>1, <2>3 DEF CallsInPlace, Uploading
  <2> QED BY <1>5, <2>2, <2>3, <2>4, QuietStep DEF Finalize
<1>6. ASSUME NEW l \in Leases, EndLease(l) PROVE IInv'
  <2>1. TypeOK'
    BY <1>0, <1>6 DEF EndLease, TypeOK, AttemptStatus
  <2>2. CallsInPlace'
    BY <1>0, <1>6 DEF EndLease, CallsInPlace, Uploading
  <2> QED BY <1>6, <2>1, <2>2, QuietStep DEF EndLease
<1>7. CASE ClockTick
  <2>1. TypeOK'
    BY <1>0, <1>7, LimitsAssumption DEF ClockTick, TypeOK
  <2>2. CallsInPlace'
    BY <1>0, <1>7 DEF ClockTick, CallsInPlace, Uploading
  <2> QED BY <1>7, <2>1, <2>2, QuietStep DEF ClockTick
<1>8. CASE Crash
  <2>1. TypeOK'
    BY <1>0, <1>8, LimitsAssumption DEF Crash, TypeOK
  <2>2. CallsInPlace'
    BY <1>0, <1>8 DEF Crash, CallsInPlace
  <2> QED BY <1>8, <2>1, <2>2, QuietStep DEF Crash
<1> QED BY <1>1, <1>2, <1>3, <1>4, <1>5, <1>6, <1>7, <1>8

\* A step that writes the status of one session, neither from nor to FINALIZED.
LEMMA StatusStep ==
  ASSUME IInv, NEW s \in Sessions, session[s].status \notin {"NONE", "FINALIZED"},
         NEW x \in SessionStatus, x # "FINALIZED", Written(s, x),
         UNCHANGED <<clock, crashes, attempt, evidence, artifact, refs, object>>,
         part' \in [Sessions -> FileState], call' \in [Calls -> CallRecord \cup {Idle}],
         CallsInPlace'
  PROVE  IInv'
<1>0. TypeOK
  BY DEF IInv, RegistryAgreesWithStore
<1>1. /\ session' \in [Sessions -> SessionRecord \cup {NoRow}] /\ session'[s].status = x
      /\ \A u \in Sessions : u # s => session'[u] = session[u]
  <2>1. clock \in 0..ClockLimit /\ session' = [session EXCEPT ![s].status = x, ![s].updated = clock]
    BY <1>0 DEF TypeOK, Written
  <2> QED BY <1>0, <2>1, WrittenRow
<1>2. TypeOK'
  BY <1>0, <1>1 DEF TypeOK
<1>3. \A u \in Sessions : session'[u].status = "FINALIZED" <=> session[u].status = "FINALIZED"
  BY <1>1
<1>4. ArtifactsStored' /\ ReferencesCounted' /\ FinalizedIffRegistered' /\ EvidenceStays'
  BY <1>3, RegistryStays DEF IInv
<1> QED BY <1>2, <1>4 DEF IInv, RegistryAgreesWithStore

\* What such a step writes, for the calls.
LEMMA StatusWritten ==
  ASSUME TypeOK, NEW s \in Sessions, session[s].status # "NONE",
         NEW x \in SessionStatus, Written(s, x)
  PROVE  /\ session'[s].status = x /\ session'[s].digest = session[s].digest
         /\ \A u \in Sessions : u # s => session'[u] = session[u]
<1>1. clock \in 0..ClockLimit /\ session' = [session EXCEPT ![s].status = x, ![s].updated = clock]
  BY DEF TypeOK, Written
<1> QED BY <1>1, WrittenRow

\* uploadContent.  A CREATED session has no request in flight, so this one has it
\* to itself.
LEMMA UploadContentStep ==
  ASSUME IInv, NEW c \in Calls, NEW s \in Sessions, UploadContent(c, s)
  PROVE  IInv'
<1>0. TypeOK /\ CallsInPlace /\ session[s].status = "CREATED"
  BY DEF IInv, RegistryAgreesWithStore, UploadContent
<1>1. /\ call' \in [Calls -> CallRecord \cup {Idle}]
      /\ call[c] = Idle /\ call'[c] # Idle /\ call'[c].step = "OPENING" /\ call'[c].session = s
      /\ \A k \in Calls : k # c => call'[k] = call[k]
  BY <1>0, BegunCall DEF UploadContent
<1>2. "UPLOADING" \in SessionStatus
  BY DEF SessionStatus
<1>3. session'[s].status = "UPLOADING" /\ \A u \in Sessions : u # s => session'[u] = session[u]
  BY <1>0, <1>2, StatusWritten DEF UploadContent
<1>4. \A k \in Calls : call[k] # Idle => call[k].session \in Sessions /\ call[k].session # s
  <2>1. \A k \in Calls : call[k] # Idle => call[k].session \in Sessions
    BY <1>0, InFlight
  <2> QED BY <1>0, <2>1 DEF CallsInPlace
<1>5. CallsInPlace'
  <2>1. object' = object
    BY DEF UploadContent
  <2> QED BY <1>0, <1>1, <1>3, <1>4, <2>1 DEF CallsInPlace, Uploading
<1>6. part' \in [Sessions -> FileState]
  BY <1>0 DEF UploadContent, TypeOK
<1> QED BY <1>0, <1>1, <1>2, <1>5, <1>6, StatusStep DEF UploadContent

\* The verdict on an upload: whatever abort or cleanup wrote meanwhile is
\* overwritten, but the session is not finalized, for no other request is in flight.
LEMMA VerdictStep ==
  ASSUME IInv, NEW c \in Calls, NEW x \in {"VERIFIED", "QUARANTINED"},
         call[c] # Idle, Uploading(c), Written(call[c].session, x), Return(c),
         part' \in [Sessions -> FileState],
         UNCHANGED <<clock, crashes, attempt, evidence, artifact, refs, object>>
  PROVE  IInv'
<1>0. TypeOK /\ CallsInPlace
  BY DEF IInv, RegistryAgreesWithStore
<1>1. PICK s \in Sessions : s = call[c].session
  BY <1>0, InFlight
<1>2. session[s].status \in {"UPLOADING", "ABORTED"}
  BY <1>0, <1>1 DEF CallsInPlace
<1>3. x \in SessionStatus /\ x # "FINALIZED" /\ Written(s, x)
  BY <1>1 DEF SessionStatus, Written
<1>4. \A u \in Sessions : u # s => session'[u] = session[u]
  BY <1>0, <1>2, <1>3, StatusWritten
<1>5. /\ call' \in [Calls -> CallRecord \cup {Idle}] /\ call'[c] = Idle
      /\ \A k \in Calls : k # c => call'[k] = call[k]
  BY <1>0, ReturnedCall
<1>6. \A k \in Calls : k # c /\ call[k] # Idle => call[k].session \in Sessions /\ call[k].session # s
  <2>1. \A k \in Calls : call[k] # Idle => call[k].session \in Sessions
    BY <1>0, InFlight
  <2> QED BY <1>0, <1>1, <2>1 DEF CallsInPlace
<1>7. CallsInPlace'
  BY <1>0, <1>4, <1>5, <1>6 DEF CallsInPlace, Uploading
<1> QED BY <1>2, <1>3, <1>5, <1>7, StatusStep

LEMMA UploadVerdicts ==
  ASSUME IInv, NEW c \in Calls, VerifyUpload(c) \/ RejectUpload(c) \/ FailUpload(c)
  PROVE  IInv'
<1>0. TypeOK /\ CallsInPlace
  BY DEF IInv, RegistryAgreesWithStore
<1>1. call[c] # Idle /\ Uploading(c) /\ Return(c)
  BY DEF VerifyUpload, RejectUpload, FailUpload, At, Uploading
<1>2. call[c].session \in Sessions
  BY <1>0, <1>1, InFlight
<1>3. part' \in [Sessions -> FileState]
  BY <1>0, <1>2 DEF TypeOK, FileState, VerifyUpload, RejectUpload, FailUpload
<1>4. UNCHANGED <<clock, crashes, attempt, evidence, artifact, refs, object>>
  BY DEF VerifyUpload, RejectUpload, FailUpload
<1>5. Written(call[c].session, "VERIFIED") \/ Written(call[c].session, "QUARANTINED")
  BY DEF VerifyUpload, RejectUpload, FailUpload
<1> QED BY <1>1, <1>3, <1>4, <1>5, VerdictStep

\* abort may hit a session with requests in flight, which CallsInPlace allows for.
LEMMA AbortStep ==
  ASSUME IInv, NEW s \in Sessions, Abort(s)
  PROVE  IInv'
<1>0. TypeOK /\ CallsInPlace /\ session[s].status \in {"CREATED", "UPLOADING", "VERIFIED"}
  BY DEF IInv, RegistryAgreesWithStore, Abort
<1>1. "ABORTED" \in SessionStatus /\ Written(s, "ABORTED")
  BY DEF SessionStatus, Abort
<1>2. /\ session'[s].status = "ABORTED" /\ session'[s].digest = session[s].digest
      /\ \A u \in Sessions : u # s => session'[u] = session[u]
  BY <1>0, <1>1, StatusWritten
<1>3. \A k \in Calls : call[k] # Idle => call[k].session \in Sessions
  BY <1>0, InFlight
<1>4. call' = call /\ object' = object
  BY DEF Abort
<1>5. CallsInPlace'
  BY <1>0, <1>2, <1>3, <1>4 DEF CallsInPlace, Uploading
<1>6. part' \in [Sessions -> FileState] /\ call' \in [Calls -> CallRecord \cup {Idle}]
  BY <1>0 DEF Abort, TypeOK, FileState
<1> QED BY <1>0, <1>1, <1>5, <1>6, StatusStep DEF Abort

LEMMA CleanupStep ==
  ASSUME IInv, NEW olderThan \in 1..ClockLimit, CleanupAbandoned(olderThan)
  PROVE  IInv'
<1> DEFINE rows == {s \in Sessions : /\ session[s].status \in {"CREATED", "UPLOADING"}
                                     /\ session[s].updated < olderThan}
<1>0. TypeOK /\ CallsInPlace /\ RegistryAgreesWithStore
  BY DEF IInv, RegistryAgreesWithStore
<1>1. /\ part' = [s \in Sessions |-> IF s \in rows THEN "NONE" ELSE part[s]]
      /\ session' = [s \in Sessions |->
           IF s \in rows THEN [session[s] EXCEPT !.status = "ABORTED", !.updated = clock]
                         ELSE session[s]]
      /\ UNCHANGED <<clock, crashes, attempt, evidence, artifact, refs, object, call>>
  BY DEF CleanupAbandoned
<1>2. \A s \in rows : s \in Sessions /\ session[s].status \in {"CREATED", "UPLOADING"}
  OBVIOUS
<1> HIDE DEF rows
<1>3. ASSUME NEW s \in rows
      PROVE  /\ session'[s] \in SessionRecord /\ session'[s].status = "ABORTED"
             /\ session'[s].digest = session[s].digest
  <2>1. session[s] \in SessionRecord /\ clock \in 0..ClockLimit
    BY <1>0, <1>2, Rows DEF TypeOK
  <2>2. session'[s] = [session[s] EXCEPT !.status = "ABORTED", !.updated = clock]
    BY <1>1, <1>2
  <2> QED BY <2>1, <2>2 DEF SessionRecord, SessionStatus
<1>4. \A s \in Sessions \ rows : session'[s] = session[s]
  BY <1>1
<1>5. TypeOK'
  <2>1. session' \in [Sessions -> SessionRecord \cup {NoRow}]
    <3>1. \A s \in Sessions : session'[s] \in SessionRecord \cup {NoRow}
      BY <1>0, <1>3, <1>4 DEF TypeOK
    <3> QED BY <1>1, <3>1
  <2>2. part' \in [Sessions -> FileState]
    BY <1>0, <1>1 DEF TypeOK, FileState
  <2> QED BY <1>0, <1>1, <2>1, <2>2 DEF TypeOK
<1>6. CallsInPlace'
  <2>1. \A k \in Calls : call[k] # Idle => call[k].session \in Sessions
    BY <1>0, InFlight
  <2>2. call' = call /\ object' = object
    BY <1>1
  <2>3. \A s \in Sessions : /\ session'[s].digest = session[s].digest
                            /\ \/ session'[s].status = session[s].status
                               \/ /\ session'[s].status = "ABORTED"
                                  /\ session[s].status \in {"CREATED", "UPLOADING"}
    BY <1>2, <1>3, <1>4
  <2> QED BY <1>0, <2>1, <2>2, <2>3 DEF CallsInPlace, Uploading
<1>7. ArtifactsStored' /\ ReferencesCounted' /\ FinalizedIffRegistered' /\ EvidenceStays'
  <2>1. \A s \in Sessions : session'[s].status = "FINALIZED" <=> session[s].status = "FINALIZED"
    BY <1>2, <1>3, <1>4
  <2> QED BY <1>0, <1>1, <2>1, RegistryStays
<1> QED BY <1>5, <1>6, <1>7 DEF IInv, RegistryAgreesWithStore

\* The completion lists receipts of artifacts that are finalized now.
LEMMA CompleteStep ==
  ASSUME IInv, NEW l \in Leases, CompleteExecution(l)
  PROVE  IInv'
<1>0. TypeOK /\ CallsInPlace /\ RegistryAgreesWithStore
  BY DEF IInv, RegistryAgreesWithStore
<1>1. PICK receipts \in SUBSET FinalizedReceipts(l) : evidence' = [evidence EXCEPT ![l] = receipts]
  BY DEF CompleteExecution
<1>2. UNCHANGED <<clock, crashes, session, artifact, refs, part, object, call>>
  BY DEF CompleteExecution
<1>3. \A s \in receipts : s \in Sessions /\ session[s].status = "FINALIZED" /\ artifact[s].lease = l
  BY DEF FinalizedReceipts, Registered
<1>4. TypeOK'
  BY <1>0, <1>1, <1>2, <1>3 DEF CompleteExecution, TypeOK, AttemptStatus
<1>5. EvidenceStays'
  BY <1>0, <1>1, <1>2, <1>3 DEF RegistryAgreesWithStore, EvidenceStays, TypeOK
<1>6. ArtifactsStored' /\ ReferencesCounted' /\ FinalizedIffRegistered'
  BY <1>0, <1>2 DEF RegistryAgreesWithStore, ArtifactsStored, ReferencesCounted,
                    FinalizedIffRegistered, Registered
<1>7. CallsInPlace'
  BY <1>0, <1>2 DEF CallsInPlace, Uploading
<1> QED BY <1>4, <1>5, <1>6, <1>7 DEF IInv, RegistryAgreesWithStore

\* The registering transaction of request c for session s, after predecessor p.
LEMMA RegisteringStep ==
  ASSUME IInv, NEW c \in Calls, At(c, "COMMITTING"), NEW s \in Sessions, s = call[c].session,
         s \notin Registered, NEW p \in Sessions \cup {NoSession}, NEW n \in Nat,
         Registering(c, s, p, n), Return(c),
         UNCHANGED <<clock, crashes, attempt, evidence, part, object>>
  PROVE  IInv'
<1> DEFINE d == session[s].digest
           new == [version |-> n + 1, supersedes |-> p, digest |-> d,
                   lease |-> session[s].lease, created |-> call[c].started]
<1>0. TypeOK /\ CallsInPlace /\ RegistryAgreesWithStore
  BY DEF IInv, RegistryAgreesWithStore
<1>1. /\ call[c] # Idle /\ call[c] \in CallRecord /\ session[s] \in SessionRecord
      /\ session[s].status # "NONE" /\ ~Uploading(c) /\ d \in Digests /\ object[d] = "WHOLE"
  <2>1. call[c] # Idle /\ call[c].step = "COMMITTING"
    BY DEF At
  <2>2. /\ call[c] \in CallRecord /\ session[s] \in SessionRecord /\ session[s].status # "NONE"
    BY <1>0, <2>1, InFlight
  <2> QED BY <1>0, <2>1, <2>2 DEF CallsInPlace, Uploading, SessionRecord
<1>2. new \in ArtifactRecord /\ new.digest = d
  BY <1>1 DEF CallRecord, SessionRecord, ArtifactRecord
<1>3. /\ artifact' = [artifact EXCEPT ![s] = new] /\ refs' = [refs EXCEPT ![d] = @ + 1]
      /\ session' = [session EXCEPT ![s].status = "FINALIZED", ![s].updated = call[c].started]
  BY DEF Registering
<1>4. /\ session' \in [Sessions -> SessionRecord \cup {NoRow}]
      /\ session'[s].status = "FINALIZED" /\ session'[s].digest = d
      /\ \A u \in Sessions : u # s => session'[u] = session[u]
  <2>1. call[c].started \in 0..ClockLimit /\ "FINALIZED" \in SessionStatus
    BY <1>1 DEF CallRecord, SessionStatus
  <2> QED BY <1>0, <1>1, <1>3, <2>1, WrittenRow
<1>5. /\ call' \in [Calls -> CallRecord \cup {Idle}] /\ call'[c] = Idle
      /\ \A k \in Calls : k # c => call'[k] = call[k]
  BY <1>0, ReturnedCall
<1> HIDE DEF new
<1>6. /\ artifact'[s] = new /\ \A u \in Sessions : u # s => artifact'[u] = artifact[u]
      /\ new # NoArtifact
  BY <1>0, <1>2, <1>3, Rows DEF TypeOK
<1>7. Registered' = Registered \cup {s}
  BY <1>6 DEF Registered
<1>8. TypeOK'
  <2>1. artifact' \in [Sessions -> ArtifactRecord \cup {NoArtifact}]
    BY <1>0, <1>2, <1>3 DEF TypeOK
  <2>2. refs' \in [Digests -> Nat]
    BY <1>0, <1>1, <1>3 DEF TypeOK
  <2> QED BY <1>0, <1>4, <1>5, <2>1, <2>2 DEF TypeOK
<1>9. ArtifactsStored'
  BY <1>0, <1>1, <1>2, <1>6, <1>7 DEF RegistryAgreesWithStore, ArtifactsStored, Registered
<1>10. FinalizedIffRegistered'
  BY <1>0, <1>4, <1>7 DEF RegistryAgreesWithStore, FinalizedIffRegistered
<1>11. ReferencesCounted'
  <2> SUFFICES ASSUME NEW e \in Digests
               PROVE  refs'[e] = Cardinality({u \in Registered' : artifact'[u].digest = e})
    BY DEF ReferencesCounted
  <2> DEFINE Old == {u \in Registered : artifact[u].digest = e}
             New == {u \in Registered' : artifact'[u].digest = e}
  <2>1. IsFiniteSet(Old) /\ s \notin Old
    BY SessionsAssumption, FS_Subset DEF Registered
  <2>2. refs[e] = Cardinality(Old) /\ refs[e] \in Nat
    BY <1>0 DEF RegistryAgreesWithStore, ReferencesCounted, TypeOK
  <2>3. CASE e = d
    <3>1. New = Old \cup {s}
      BY <1>2, <1>6, <1>7, <2>3 DEF Registered
    <3>2. refs'[e] = refs[e] + 1
      BY <1>0, <1>1, <1>3, <2>3 DEF TypeOK
    <3> HIDE DEF Old, New
    <3>3. Cardinality(New) = Cardinality(Old) + 1
      BY <2>1, <3>1, FS_AddElement
    <3> QED BY <2>2, <3>2, <3>3 DEF New
  <2>4. CASE e # d
    <3>1. New = Old
      BY <1>2, <1>6, <1>7, <2>4 DEF Registered
    <3>2. refs'[e] = refs[e]
      BY <1>0, <1>1, <1>3, <2>4 DEF TypeOK
    <3> HIDE DEF Old
    <3> QED BY <2>2, <3>1, <3>2
  <2> QED BY <2>3, <2>4
<1>12. EvidenceStays'
  <2>1. \A l \in Leases : \A u \in evidence[l] : u \in Sessions /\ u # s
    BY <1>0 DEF RegistryAgreesWithStore, EvidenceStays, FinalizedIffRegistered, TypeOK
  <2> QED BY <1>0, <1>4, <1>6, <2>1 DEF RegistryAgreesWithStore, EvidenceStays
<1>13. CallsInPlace'
  <2>1. \A k \in Calls : call[k] # Idle => call[k].session \in Sessions
    BY <1>0, InFlight
  <2>2. \A k \in Calls : k # c /\ call[k] # Idle /\ call[k].session = s => ~Uploading(k)
    BY <1>0, <1>1 DEF CallsInPlace
  <2>3. object' = object
    OBVIOUS
  <2> QED BY <1>0, <1>4, <1>5, <2>1, <2>2, <2>3 DEF CallsInPlace, Uploading
<1> QED BY <1>8, <1>9, <1>10, <1>11, <1>12, <1>13 DEF IInv, RegistryAgreesWithStore

\* A finalization registers its session, unless another one has.
LEMMA RegisterStep ==
  ASSUME IInv, NEW c \in Calls, RegisterArtifact(c)
  PROVE  IInv'
<1>0. TypeOK /\ CallsInPlace
  BY DEF IInv, RegistryAgreesWithStore
<1>1. At(c, "COMMITTING") /\ Return(c) /\ UNCHANGED <<clock, crashes, attempt, evidence, part, object>>
  BY DEF RegisterArtifact
<1>2. PICK s \in Sessions : s = call[c].session
  BY <1>0, <1>1, InFlight DEF At
<1>3. CASE UNCHANGED <<session, artifact, refs>>
  <2>1. /\ call' \in [Calls -> CallRecord \cup {Idle}] /\ call'[c] = Idle
        /\ \A k \in Calls : k # c => call'[k] = call[k]
    BY <1>0, <1>1, ReturnedCall
  <2>2. TypeOK'
    BY <1>0, <1>1, <1>3, <2>1 DEF TypeOK
  <2>3. CallsInPlace'
    BY <1>0, <1>1, <1>3, <2>1 DEF CallsInPlace, Uploading
  <2> QED BY <1>1, <1>3, <2>2, <2>3, QuietStep
<1>4. CASE s \notin Registered /\ Register(c, s)
  <2>1. \/ Registering(c, s, NoSession, 0)
        \/ \E p \in Latest : Registering(c, s, p, artifact[p].version)
    BY <1>4 DEF Register, RegisterFrom
  <2>2. \A p \in Latest : p \in Sessions /\ artifact[p].version \in Nat
    BY <1>0, Rows DEF Latest, Registered, ArtifactRecord
  <2>3. ASSUME NEW p \in Latest, Registering(c, s, p, artifact[p].version) PROVE IInv'
    <3>1. PICK n \in Nat : n = artifact[p].version
      BY <2>2
    <3>2. PICK q \in Sessions : q = p
      BY <2>2
    <3>3. Registering(c, s, q, n)
      BY <2>3, <3>1, <3>2 DEF Registering
    <3> QED BY <1>1, <1>2, <1>4, <3>3, RegisteringStep
  <2>4. ASSUME Registering(c, s, NoSession, 0) PROVE IInv'
    BY <1>1, <1>2, <1>4, <2>4, RegisteringStep
  <2> QED BY <2>1, <2>3, <2>4
<1>5. Register(c, call[c].session) => Register(c, s)
  BY <1>2 DEF Register, RegisterFrom, Registering
<1> QED BY <1>2, <1>3, <1>4, <1>5 DEF RegisterArtifact

\* The registry of raw artifacts and the content store agree in every reachable
\* state, however uploads, finalizations, aborts, cleanups, completions and crashes
\* interleave: every registered artifact's bytes are stored whole, reference counts
\* are exact, a session is FINALIZED exactly when its artifact is registered, and
\* the receipts of a completed execution stay valid.
THEOREM RegistryAgrees == Spec => []RegistryAgreesWithStore
<1>1. IInv /\ [Next]_vars => IInv'
  <2> SUFFICES ASSUME IInv, [Next]_vars PROVE IInv'
    OBVIOUS
  <2>1. CASE UNCHANGED vars
    <3>1. TypeOK' /\ CallsInPlace'
      BY <2>1 DEF vars, IInv, RegistryAgreesWithStore, TypeOK, CallsInPlace, Uploading
    <3> QED BY <2>1, <3>1, QuietStep DEF vars
  <2>2. CASE Next
    BY <2>2, CreateSessionStep, AbortStep, UploadContentStep, UploadVerdicts, RegisterStep,
       CleanupStep, CompleteStep, OtherSteps DEF Next, UploadStep, FinalizeStep
  <2> QED BY <2>1, <2>2
<1>2. IInv => RegistryAgreesWithStore
  BY DEF IInv
<1> QED BY <1>1, <1>2, InvInit, PTL DEF Spec

-----------------------------------------------------------------------------
(* Manual uploads. *)

\* A call that has its key's job.
Executing(c) == upload[c].step \in {"START", "UPLOAD", "FINALIZE", "COMPLETE", "RECORD"}

\* How far a call is, its job and its artifact agree.  Between the claim and the
\* start, and between the completion and the request's row, it is the one that runs.
UploadAgrees(c) ==
  /\ upload[c].step \in {"DISPATCH", "BIND", "FIND", "RECORD"} => upload[c].key \in Requests
  /\ upload[c].step \in {"START", "RECORD"} => busy = c
  /\ upload[c].step = "START" => job[upload[c].key] = "LEASED"
  /\ upload[c].step \in {"UPLOAD", "FINALIZE", "COMPLETE"} =>
       job[upload[c].key] \in {"RUNNING", "FAILED"}
  /\ upload[c].step \in {"START", "UPLOAD", "FINALIZE"} => artifacts[upload[c].key] = 0
  /\ upload[c].step \in {"COMPLETE", "RECORD"} => artifacts[upload[c].key] = 1

\* A job that was not started has no artifact, and it is started once.
JobsAgree ==
  \A k \in Manual!Keys :
    /\ expired[k] => job[k] \in {"LEASED", "RUNNING"}
    /\ job[k] \in {"NONE", "PENDING", "LEASED"} => artifacts[k] = 0

OneCallEach ==
  \A c, o \in Calls : Executing(c) /\ Executing(o) /\ upload[c].key = upload[o].key => c = o

ManualInv ==
  /\ Manual!TypeOK /\ Manual!UploadedOnce /\ Manual!IntentsKeepTheirJobs
  /\ JobsAgree /\ OneCallEach
  /\ \A c \in Calls : UploadAgrees(c)

LEMMA ManualInvInit == ASSUME Manual!UploadAssumption, Manual!Init PROVE ManualInv
<1> USE DEF Manual!Init
<1>1. Manual!TypeOK
  BY DEF Manual!TypeOK, Manual!UploadAssumption, Manual!RequestStatus, Manual!JobStatus
<1>2. Manual!UploadedOnce /\ Manual!IntentsKeepTheirJobs /\ JobsAgree
  BY DEF Manual!UploadedOnce, Manual!IntentsKeepTheirJobs, JobsAgree, Manual!Keys
<1>3. OneCallEach /\ \A c \in Calls : UploadAgrees(c)
  BY DEF OneCallEach, Executing, UploadAgrees, Manual!Idle
<1> QED  BY <1>1, <1>2, <1>3 DEF ManualInv

\* A call in flight has a key.
LEMMA CallsHaveKeys ==
  ASSUME ManualInv, NEW c \in Calls
  PROVE  /\ upload[c] \in Manual!CallRecord \cup {Manual!Idle}
         /\ upload[c].step # "IDLE" => upload[c] \in Manual!CallRecord /\ upload[c].key \in Manual!Keys
BY DEF ManualInv, Manual!TypeOK, Manual!CallRecord, Manual!Idle

\* What one call does to its own job and artifact does not disturb the others.
LEMMA CallStep ==
  ASSUME Manual!UploadAssumption, ManualInv, NEW c \in Calls, busy \in {c, Nobody},
         \A o \in Calls : o # c => upload'[o] = upload[o],
         UploadAgrees(c)',
         \A k \in Manual!Keys :
           job[k] \in {"RUNNING", "FAILED"} =>
             job'[k] \in {"RUNNING", "FAILED"} \/ (Executing(c) /\ k = upload[c].key),
         \A k \in Manual!Keys :
           artifacts'[k] = artifacts[k] \/ (Executing(c) /\ k = upload[c].key),
         \/ ~(Executing(c)')
         \/ Executing(c) /\ upload'[c].key = upload[c].key
         \/ \A o \in Calls : o # c /\ Executing(o) => upload[o].key # upload'[c].key
  PROVE  (\A o \in Calls : UploadAgrees(o)') /\ OneCallEach'
<1>1. ASSUME NEW o \in Calls, o # c
      PROVE  /\ UploadAgrees(o)' /\ (Executing(o)' <=> Executing(o))
             /\ upload'[o] = upload[o]
  <2>1. upload'[o] = upload[o] /\ UploadAgrees(o)  BY <1>1 DEF ManualInv
  <2>2. busy # o  BY <1>1 DEF Manual!UploadAssumption, Manual!Keys
  <2>3. upload[o].step \notin {"START", "RECORD"}  BY <2>1, <2>2 DEF UploadAgrees
  <2>4. CASE upload[o].step \in {"UPLOAD", "FINALIZE", "COMPLETE"}
    <3>1. upload[o].key \in Manual!Keys  BY <2>4, CallsHaveKeys
    <3>2. Executing(o)  BY <2>4 DEF Executing
    <3>3. ~(Executing(c) /\ upload[o].key = upload[c].key)
      BY <1>1, <3>2 DEF ManualInv, OneCallEach
    <3> QED  BY <2>1, <2>3, <2>4, <3>1, <3>3 DEF UploadAgrees, Executing
  <2>5. CASE upload[o].step \notin {"UPLOAD", "FINALIZE", "COMPLETE"}
    BY <2>1, <2>3, <2>5 DEF UploadAgrees, Executing
  <2> QED  BY <2>1, <2>4, <2>5
<1>2. OneCallEach'
  <2>1. ASSUME NEW o \in Calls, o # c, Executing(o), Executing(c)', upload[o].key = upload'[c].key
        PROVE  FALSE
    BY <2>1 DEF ManualInv, OneCallEach
  <2>2. ASSUME NEW o \in Calls, NEW p \in Calls, o # p, Executing(o)', Executing(p)',
               upload'[o].key = upload'[p].key
        PROVE  FALSE
    <3>1. CASE o = c  BY <1>1, <2>1, <2>2, <3>1
    <3>2. CASE p = c  BY <1>1, <2>1, <2>2, <3>2
    <3>3. CASE o # c /\ p # c  BY <1>1, <2>2, <3>3 DEF ManualInv, OneCallEach
    <3> QED  BY <3>1, <3>2, <3>3
  <2> QED  BY <2>2 DEF OneCallEach
<1> QED  BY <1>1, <1>2

\* How a call moves.
LEMMA CallMoves ==
  ASSUME Manual!UploadAssumption, ManualInv, NEW c \in Calls,
         NEW new \in Manual!CallRecord \cup {Manual!Idle},
         upload' = [upload EXCEPT ![c] = new], busy' \in {c, Nobody}
  PROVE  /\ upload' \in [Calls -> Manual!CallRecord \cup {Manual!Idle}]
         /\ upload'[c] = new /\ \A o \in Calls : o # c => upload'[o] = upload[o]
         /\ busy' \in Calls \cup {Nobody}
BY DEF ManualInv, Manual!TypeOK

LEMMA GoesTo ==
  ASSUME Manual!UploadAssumption, ManualInv, NEW c \in Calls, upload[c].step # "IDLE",
         NEW step \in {"BIND", "FIND", "CLAIM", "START", "UPLOAD", "FINALIZE", "COMPLETE", "RECORD"},
         upload' = [upload EXCEPT ![c].step = step], busy' \in {c, Nobody}
  PROVE  /\ upload' \in [Calls -> Manual!CallRecord \cup {Manual!Idle}]
         /\ upload'[c] = [step |-> step, key |-> upload[c].key]
         /\ upload'[c].step = step /\ upload'[c].key = upload[c].key
         /\ \A o \in Calls : o # c => upload'[o] = upload[o]
         /\ busy' \in Calls \cup {Nobody}
<1>1. upload[c] \in Manual!CallRecord  BY CallsHaveKeys
<1> DEFINE new == [step |-> step, key |-> upload[c].key]
<1>2. new \in Manual!CallRecord /\ [upload[c] EXCEPT !.step = step] = new
  BY <1>1 DEF Manual!CallRecord
<1>3. new.step = step /\ new.key = upload[c].key  OBVIOUS
<1>4. upload' = [upload EXCEPT ![c] = new]  BY <1>2 DEF ManualInv, Manual!TypeOK
<1> HIDE DEF new
<1>5. /\ upload' \in [Calls -> Manual!CallRecord \cup {Manual!Idle}]
      /\ upload'[c] = new /\ \A o \in Calls : o # c => upload'[o] = upload[o]
      /\ busy' \in Calls \cup {Nobody}
  BY <1>2, <1>4, CallMoves
<1> QED  BY <1>3, <1>5 DEF new

LEMMA ReturnsIdle ==
  ASSUME Manual!UploadAssumption, ManualInv, NEW c \in Calls, Manual!Return(c)
  PROVE  /\ upload' \in [Calls -> Manual!CallRecord \cup {Manual!Idle}]
         /\ upload'[c].step = "IDLE" /\ \A o \in Calls : o # c => upload'[o] = upload[o]
         /\ busy' \in Calls \cup {Nobody}
         /\ UploadAgrees(c)' /\ ~(Executing(c)')
<1>1. upload' = [upload EXCEPT ![c] = Manual!Idle] /\ busy' = Nobody  BY DEF Manual!Return
<1>2. Manual!Idle.step = "IDLE"  BY DEF Manual!Idle
<1>3. /\ upload' \in [Calls -> Manual!CallRecord \cup {Manual!Idle}]
      /\ upload'[c] = Manual!Idle /\ \A o \in Calls : o # c => upload'[o] = upload[o]
      /\ busy' \in Calls \cup {Nobody}
  BY <1>1, CallMoves
<1> QED  BY <1>2, <1>3 DEF UploadAgrees, Executing

\* A step that changes no job, no lease and no artifact.
LEMMA QuietCall ==
  ASSUME Manual!UploadAssumption, ManualInv, NEW c \in Calls, busy \in {c, Nobody},
         UNCHANGED <<job, holder, expired, queue, artifacts, ends>>,
         \A o \in Calls : o # c => upload'[o] = upload[o],
         upload' \in [Calls -> Manual!CallRecord \cup {Manual!Idle}],
         busy' \in Calls \cup {Nobody},
         request' \in [Requests -> Manual!RequestStatus],
         \A r \in Requests : request'[r] = "COMPLETED" => artifacts[r] = 1,
         UploadAgrees(c)', ~(Executing(c)')
  PROVE  ManualInv'
<1>1. Manual!TypeOK'  BY DEF ManualInv, Manual!TypeOK
<1>2. Manual!UploadedOnce' /\ Manual!IntentsKeepTheirJobs' /\ JobsAgree'
  BY DEF ManualInv, Manual!UploadedOnce, Manual!IntentsKeepTheirJobs, JobsAgree
<1>3. (\A o \in Calls : UploadAgrees(o)') /\ OneCallEach'  BY CallStep
<1> QED  BY <1>1, <1>2, <1>3 DEF ManualInv

\* A step of a call that runs, whose key's job, lease or artifact it may change.
LEMMA WorkingCall ==
  ASSUME Manual!UploadAssumption, ManualInv, NEW c \in Calls, upload[c].step # "IDLE",
         busy \in {c, Nobody},
         \A o \in Calls : o # c => upload'[o] = upload[o],
         upload' \in [Calls -> Manual!CallRecord \cup {Manual!Idle}],
         busy' \in Calls \cup {Nobody},
         UploadAgrees(c)', Executing(c)' => upload'[c].key = upload[c].key,
         job' \in [Manual!Keys -> Manual!JobStatus],
         artifacts' \in [Manual!Keys -> Nat],
         \A k \in Manual!Keys : k # upload[c].key => job'[k] = job[k] /\ artifacts'[k] = artifacts[k],
         Executing(c),
         LET k == upload[c].key
         IN  /\ expired[k] => job'[k] \in {"LEASED", "RUNNING"}
             /\ job'[k] \in {"NONE", "PENDING", "LEASED"} => artifacts'[k] = 0
             /\ artifacts'[k] <= 1 /\ artifacts[k] <= artifacts'[k]
             /\ job'[k] = "COMPLETED" => artifacts'[k] = 1,
         UNCHANGED <<request, holder, expired, queue, ends>>
  PROVE  ManualInv'
<1>1. upload[c].key \in Manual!Keys  BY CallsHaveKeys
<1>2. Manual!TypeOK'  BY DEF ManualInv, Manual!TypeOK
<1>3. \A k \in Manual!Keys : artifacts'[k] <= 1 /\ (artifacts[k] = 1 => artifacts'[k] = 1)
  BY <1>1 DEF ManualInv, Manual!UploadedOnce, Manual!TypeOK
<1>4. Manual!UploadedOnce'
  <2>1. \A k \in Manual!Keys : job'[k] = "COMPLETED" => artifacts'[k] = 1
    BY <1>1 DEF ManualInv, Manual!UploadedOnce
  <2>2. \A r \in Requests : r \in Manual!Keys  BY DEF Manual!Keys
  <2> QED  BY <1>3, <2>1, <2>2 DEF ManualInv, Manual!UploadedOnce
<1>5. Manual!IntentsKeepTheirJobs'  BY DEF ManualInv, Manual!IntentsKeepTheirJobs
<1>6. JobsAgree'  BY <1>1 DEF ManualInv, JobsAgree
<1>7. (\A o \in Calls : UploadAgrees(o)') /\ OneCallEach'
  BY CallStep
<1> QED  BY <1>2, <1>4, <1>5, <1>6, <1>7 DEF ManualInv

\* A claim, of either route: the leases that ran out are taken back first, and the
\* call goes on with its own job or ends.
LEMMA ClaimStep ==
  ASSUME Manual!UploadAssumption, ManualInv, NEW c \in Calls, upload[c].step = "CLAIM",
         busy \in {c, Nobody},
         NEW jobs \in [Manual!Keys -> Manual!JobStatus],
         \A k \in Manual!Keys :
           \/ jobs[k] = job[k]
           \/ expired[k] /\ job[k] = "LEASED" /\ jobs[k] = "PENDING"
           \/ expired[k] /\ job[k] = "RUNNING" /\ jobs[k] = "FAILED",
         \/ /\ job' = jobs /\ UNCHANGED holder /\ Manual!Return(c)
         \/ \E k \in Manual!Keys :
              /\ jobs[k] = "PENDING"
              /\ job' = [jobs EXCEPT ![k] = "LEASED"]
              /\ holder' = [holder EXCEPT ![k] = upload[c].key]
              /\ k \in Intents => k = upload[c].key
              /\ IF k = upload[c].key THEN Manual!GoTo(c, "START") ELSE Manual!Return(c),
         expired' \in [Manual!Keys -> BOOLEAN],
         \A k \in Manual!Keys : expired'[k] =>
           expired[k] /\ job[k] = "RUNNING" /\ job'[k] = "RUNNING",
         UNCHANGED <<request, queue, artifacts, ends>>
  PROVE  ManualInv'
<1>0. /\ upload[c].key \in Manual!Keys /\ ManualInv /\ Manual!TypeOK /\ JobsAgree
  BY CallsHaveKeys DEF ManualInv
<1>1. ~Executing(c)  BY DEF Executing
<1>2. \A k \in Manual!Keys :
        /\ jobs[k] \in {"NONE", "PENDING", "LEASED"} => artifacts[k] = 0
        /\ jobs[k] = "COMPLETED" => job[k] = "COMPLETED"
        /\ job[k] \in {"RUNNING", "FAILED"} => jobs[k] \in {"RUNNING", "FAILED"}
  BY <1>0 DEF JobsAgree
<1>3. CASE job' = jobs /\ UNCHANGED holder /\ Manual!Return(c)
  <2>1. /\ upload' \in [Calls -> Manual!CallRecord \cup {Manual!Idle}]
        /\ \A o \in Calls : o # c => upload'[o] = upload[o]
        /\ busy' \in Calls \cup {Nobody} /\ UploadAgrees(c)' /\ ~(Executing(c)')
    BY <1>0, <1>3, ReturnsIdle
  <2>2. Manual!TypeOK'  BY <1>0, <1>3, <2>1 DEF Manual!TypeOK
  <2>3. Manual!UploadedOnce' /\ Manual!IntentsKeepTheirJobs' /\ JobsAgree'
    BY <1>0, <1>2, <1>3
       DEF ManualInv, Manual!UploadedOnce, Manual!IntentsKeepTheirJobs, JobsAgree
  <2>4. (\A o \in Calls : UploadAgrees(o)') /\ OneCallEach'
    BY <1>0, <1>2, <1>3, <2>1, CallStep
  <2> QED  BY <2>2, <2>3, <2>4 DEF ManualInv
<1>4. ASSUME NEW k \in Manual!Keys, jobs[k] = "PENDING",
             job' = [jobs EXCEPT ![k] = "LEASED"],
             holder' = [holder EXCEPT ![k] = upload[c].key],
             k \in Intents => k = upload[c].key,
             IF k = upload[c].key THEN Manual!GoTo(c, "START") ELSE Manual!Return(c)
      PROVE  ManualInv'
  <2>1. /\ job'[k] = "LEASED" /\ \A q \in Manual!Keys : q # k => job'[q] = jobs[q]
        /\ job' \in [Manual!Keys -> Manual!JobStatus]
        /\ holder' \in [Manual!Keys -> Manual!Keys \cup {Nobody}]
        /\ holder'[k] = upload[c].key /\ \A q \in Manual!Keys : q # k => holder'[q] = holder[q]
    BY <1>0, <1>4 DEF Manual!TypeOK, Manual!JobStatus
  <2>2. artifacts[k] = 0 /\ job[k] \in {"PENDING", "LEASED"}
    <3>1. \/ jobs[k] = job[k]
          \/ expired[k] /\ job[k] = "LEASED" /\ jobs[k] = "PENDING"
          \/ expired[k] /\ job[k] = "RUNNING" /\ jobs[k] = "FAILED"
      BY <1>4
    <3> QED  BY <1>2, <1>4, <3>1
  <2>3. /\ upload' \in [Calls -> Manual!CallRecord \cup {Manual!Idle}]
        /\ \A o \in Calls : o # c => upload'[o] = upload[o]
        /\ busy' \in Calls \cup {Nobody} /\ UploadAgrees(c)'
        /\ Executing(c)' => upload'[c].key = k
    <3>1. CASE k = upload[c].key
      <4>1. upload' = [upload EXCEPT ![c].step = "START"] /\ busy' = c
        BY <1>4, <3>1 DEF Manual!GoTo
      <4>2. /\ upload' \in [Calls -> Manual!CallRecord \cup {Manual!Idle}]
            /\ upload'[c].step = "START" /\ upload'[c].key = k
            /\ \A o \in Calls : o # c => upload'[o] = upload[o]
            /\ busy' \in Calls \cup {Nobody}
        BY <1>0, <3>1, <4>1, GoesTo
      <4> QED  BY <2>1, <2>2, <4>1, <4>2 DEF UploadAgrees
    <3>2. CASE k # upload[c].key  BY <1>0, <1>4, <3>2, ReturnsIdle
    <3> QED  BY <3>1, <3>2
  <2>4. \A o \in Calls : o # c /\ Executing(o) => upload[o].key # k
    <3>1. ASSUME NEW o \in Calls, o # c, Executing(o), upload[o].key = k PROVE FALSE
      <4>1. UploadAgrees(o)  BY <1>0 DEF ManualInv
      <4>2. busy # o  BY <3>1 DEF Manual!UploadAssumption
      <4> QED  BY <2>2, <3>1, <4>1, <4>2 DEF UploadAgrees, Executing
    <3> QED  BY <3>1
  <2>5. Manual!TypeOK'  BY <1>0, <2>1, <2>3 DEF Manual!TypeOK
  <2>6. Manual!UploadedOnce'
    BY <1>0, <1>2, <2>1 DEF ManualInv, Manual!UploadedOnce
  <2>7. Manual!IntentsKeepTheirJobs'
    BY <1>0, <1>4, <2>1 DEF ManualInv, Manual!IntentsKeepTheirJobs, Manual!Keys
  <2>8. JobsAgree'  BY <1>0, <1>2, <2>1, <2>2 DEF JobsAgree
  <2>9. (\A o \in Calls : UploadAgrees(o)') /\ OneCallEach'
    <3>1. \A q \in Manual!Keys : job[q] \in {"RUNNING", "FAILED"} => job'[q] \in {"RUNNING", "FAILED"}
      BY <1>2, <2>1, <2>2
    <3> QED  BY <1>0, <2>3, <2>4, <3>1, CallStep
  <2> QED  BY <2>5, <2>6, <2>7, <2>8, <2>9 DEF ManualInv
<1> QED  BY <1>3, <1>4

LEMMA DispatchRequestStep ==
  ASSUME Manual!UploadAssumption, ManualInv, NEW c \in Calls, Manual!DispatchRequest(c)
  PROVE  ManualInv'
<1> DEFINE r == upload[c].key
<1>1. upload[c].step = "DISPATCH" /\ busy \in {c, Nobody}
  BY DEF Manual!DispatchRequest, Manual!At, Manual!Runs
<1>2. r \in Requests /\ r \in Manual!Keys /\ Manual!TypeOK /\ JobsAgree
  BY <1>1, CallsHaveKeys DEF ManualInv, UploadAgrees
<1>3. /\ upload' \in [Calls -> Manual!CallRecord \cup {Manual!Idle}]
      /\ upload'[c].step = "BIND" /\ upload'[c].key = r
      /\ \A o \in Calls : o # c => upload'[o] = upload[o]
      /\ busy' \in Calls \cup {Nobody}
  BY <1>1, GoesTo DEF Manual!DispatchRequest, Manual!GoTo
<1>4. UploadAgrees(c)' /\ ~(Executing(c)')
  BY <1>2, <1>3 DEF UploadAgrees, Executing
<1>5. \/ UNCHANGED <<job, queue>>
      \/ job[r] = "NONE" /\ job' = [job EXCEPT ![r] = "PENDING"] /\ queue' = Append(queue, r)
  BY DEF Manual!DispatchRequest
<1>6. /\ job' \in [Manual!Keys -> Manual!JobStatus] /\ queue' \in Seq(Requests)
      /\ \A k \in Manual!Keys : job'[k] = job[k] \/ (job[k] = "NONE" /\ job'[k] = "PENDING")
  <2>1. job \in [Manual!Keys -> Manual!JobStatus] /\ queue \in Seq(Requests) /\ r \in Requests
    BY <1>2 DEF Manual!TypeOK
  <2>2. Append(queue, r) \in Seq(Requests)
    BY <2>1
  <2>3. "PENDING" \in Manual!JobStatus
    BY DEF Manual!JobStatus
  <2> QED  BY <1>2, <1>5, <2>1, <2>2, <2>3
<1>7. UNCHANGED <<request, holder, expired, artifacts, ends>>
  BY DEF Manual!DispatchRequest
<1>8. Manual!TypeOK'
  BY <1>2, <1>3, <1>6, <1>7 DEF Manual!TypeOK
<1>9. Manual!UploadedOnce' /\ Manual!IntentsKeepTheirJobs' /\ JobsAgree'
  BY <1>2, <1>6, <1>7 DEF ManualInv, Manual!UploadedOnce, Manual!IntentsKeepTheirJobs, JobsAgree
<1>10. (\A o \in Calls : UploadAgrees(o)') /\ OneCallEach'
  BY <1>1, <1>3, <1>4, <1>6, <1>7, CallStep
<1> QED  BY <1>8, <1>9, <1>10 DEF ManualInv

LEMMA BeginStep ==
  ASSUME Manual!UploadAssumption, ManualInv, NEW c \in Calls, NEW k \in Manual!Keys,
         Manual!Begin(c, k)
  PROVE  ManualInv'
<1>1. PICK step \in {"DISPATCH", "FIND", "CLAIM"} :
        /\ Manual!Enter(c, k, step)
        /\ step \in {"DISPATCH", "FIND"} => k \in Requests
  BY DEF Manual!Begin, Manual!Prepare, Manual!DispatchIntent
<1> DEFINE new == [step |-> step, key |-> k]
<1>2. upload' = [upload EXCEPT ![c] = new] /\ busy = Nobody /\ busy' = c
  BY <1>1 DEF Manual!Enter
<1>3. new \in Manual!CallRecord /\ new.step = step /\ new.key = k
  BY DEF Manual!CallRecord
<1> HIDE DEF new
<1>4. /\ upload' \in [Calls -> Manual!CallRecord \cup {Manual!Idle}]
      /\ upload'[c] = new /\ \A o \in Calls : o # c => upload'[o] = upload[o]
      /\ busy' \in Calls \cup {Nobody}
  BY <1>2, <1>3, CallMoves
<1>5. UploadAgrees(c)' /\ ~(Executing(c)')
  BY <1>1, <1>3, <1>4 DEF UploadAgrees, Executing
<1>6. CASE k \in Requests /\ Manual!Prepare(c, k)
  <2>1. /\ request' \in [Requests -> Manual!RequestStatus]
        /\ \A r \in Requests : request'[r] = "COMPLETED" => request[r] = "COMPLETED"
    BY <1>6 DEF Manual!Prepare, ManualInv, Manual!TypeOK, Manual!RequestStatus
  <2>2. \A r \in Requests : request'[r] = "COMPLETED" => artifacts[r] = 1
    BY <2>1 DEF ManualInv, Manual!UploadedOnce
  <2>3. UNCHANGED <<job, holder, expired, queue, artifacts, ends>>
    BY <1>6 DEF Manual!Prepare
  <2> QED  BY <1>2, <1>4, <1>5, <2>1, <2>2, <2>3, QuietCall
<1>7. CASE k \in Intents /\ Manual!DispatchIntent(c, k)
  <2>1. /\ job[k] \in {"NONE", "PENDING"} /\ job' = [job EXCEPT ![k] = "PENDING"]
        /\ UNCHANGED <<request, holder, expired, queue, artifacts, ends>>
    BY <1>7 DEF Manual!DispatchIntent
  <2>2. /\ job' \in [Manual!Keys -> Manual!JobStatus]
        /\ \A q \in Manual!Keys : job'[q] = job[q] \/ (job[q] = "NONE" /\ job'[q] = "PENDING")
    BY <2>1 DEF ManualInv, Manual!TypeOK, Manual!JobStatus
  <2>3. Manual!TypeOK'
    BY <1>4, <2>1, <2>2 DEF ManualInv, Manual!TypeOK
  <2>4. Manual!UploadedOnce' /\ Manual!IntentsKeepTheirJobs' /\ JobsAgree'
    BY <2>1, <2>2 DEF ManualInv, Manual!UploadedOnce, Manual!IntentsKeepTheirJobs, JobsAgree
  <2>5. (\A o \in Calls : UploadAgrees(o)') /\ OneCallEach'
    BY <1>2, <1>4, <1>5, <2>1, <2>2, CallStep
  <2> QED  BY <2>3, <2>4, <2>5 DEF ManualInv
<1> QED  BY <1>6, <1>7 DEF Manual!Begin

\* The row of a request is bound, and completed when the run has its artifact.
LEMMA RequestRowStep ==
  ASSUME Manual!UploadAssumption, ManualInv, NEW c \in Calls,
         Manual!BindRun(c) \/ Manual!FindArtifact(c) \/ Manual!CompleteRequest(c)
  PROVE  ManualInv'
<1> DEFINE r == upload[c].key
<1>1. /\ upload[c].step \in {"BIND", "FIND", "RECORD"} /\ busy \in {c, Nobody}
      /\ UNCHANGED <<job, holder, expired, queue, artifacts, ends>>
  BY DEF Manual!BindRun, Manual!FindArtifact, Manual!CompleteRequest, Manual!At, Manual!Runs
<1>2. r \in Requests /\ r \in Manual!Keys /\ Manual!TypeOK
  BY <1>1, CallsHaveKeys DEF ManualInv, UploadAgrees
<1>3. \/ request' = [request EXCEPT ![r] = "RUN_BOUND"] /\ Manual!GoTo(c, "FIND")
      \/ artifacts[r] = 0 /\ UNCHANGED request /\ Manual!GoTo(c, "CLAIM")
      \/ artifacts[r] = 1 /\ request' = [request EXCEPT ![r] = "COMPLETED"] /\ Manual!Return(c)
  <2>1. artifacts[r] \in Nat /\ artifacts[r] <= 1
    BY <1>2 DEF ManualInv, Manual!TypeOK, Manual!UploadedOnce
  <2>2. CASE Manual!BindRun(c)  BY <2>2 DEF Manual!BindRun
  <2>3. CASE Manual!FindArtifact(c)  BY <2>1, <2>3 DEF Manual!FindArtifact
  <2>4. CASE Manual!CompleteRequest(c)
    BY <2>4 DEF Manual!CompleteRequest, Manual!At, ManualInv, UploadAgrees
  <2> QED  BY <2>2, <2>3, <2>4
<1>4. /\ request' \in [Requests -> Manual!RequestStatus]
      /\ \A q \in Requests : request'[q] = "COMPLETED" => artifacts[q] = 1
  BY <1>2, <1>3 DEF ManualInv, Manual!TypeOK, Manual!RequestStatus, Manual!UploadedOnce
<1>5. ASSUME NEW step \in {"FIND", "CLAIM"}, Manual!GoTo(c, step) PROVE ManualInv'
  <2>1. /\ upload' \in [Calls -> Manual!CallRecord \cup {Manual!Idle}]
        /\ upload'[c].step = step /\ upload'[c].key = r
        /\ \A o \in Calls : o # c => upload'[o] = upload[o]
        /\ busy' \in Calls \cup {Nobody}
    BY <1>1, <1>5, GoesTo DEF Manual!GoTo
  <2>2. UploadAgrees(c)' /\ ~(Executing(c)')
    BY <1>2, <2>1 DEF UploadAgrees, Executing
  <2> QED  BY <1>1, <1>4, <2>1, <2>2, QuietCall
<1>6. ASSUME Manual!Return(c) PROVE ManualInv'
  BY <1>1, <1>4, <1>6, ReturnsIdle, QuietCall
<1> QED  BY <1>3, <1>5, <1>6

\* Both claims take back the leases that ran out; the first route's takes the oldest
\* pending job, of its own requests only, and the second's its own.
LEMMA ClaimAnyStep ==
  ASSUME Manual!UploadAssumption, ManualInv, NEW c \in Calls, Manual!ClaimAny(c)
  PROVE  ManualInv'
<1> DEFINE jobs == Manual!Reaped
<1>1. /\ upload[c].step = "CLAIM" /\ busy \in {c, Nobody}
      /\ UNCHANGED <<request, queue, artifacts, ends>> /\ expired' = Manual!NotExpired
  BY DEF Manual!ClaimAny, Manual!At, Manual!Runs
<1>2. /\ jobs \in [Manual!Keys -> Manual!JobStatus]
      /\ \A k \in Manual!Keys :
           \/ jobs[k] = job[k]
           \/ expired[k] /\ job[k] = "LEASED" /\ jobs[k] = "PENDING"
           \/ expired[k] /\ job[k] = "RUNNING" /\ jobs[k] = "FAILED"
  BY DEF Manual!Reaped, ManualInv, Manual!TypeOK, Manual!JobStatus, JobsAgree
<1>3. /\ expired' \in [Manual!Keys -> BOOLEAN]
      /\ \A k \in Manual!Keys : ~expired'[k]
  BY <1>1 DEF Manual!NotExpired
<1>4. \A i \in DOMAIN queue : queue[i] \in Requests /\ queue[i] \in Manual!Keys /\ queue[i] \notin Intents
  BY DEF ManualInv, Manual!TypeOK, Manual!Keys, Manual!UploadAssumption
<1>5. \/ job' = jobs /\ UNCHANGED holder /\ Manual!Return(c)
      \/ \E i \in Manual!Pending(jobs) :
           /\ job' = [jobs EXCEPT ![queue[i]] = "LEASED"]
           /\ holder' = [holder EXCEPT ![queue[i]] = upload[c].key]
           /\ IF queue[i] = upload[c].key THEN Manual!GoTo(c, "START") ELSE Manual!Return(c)
  BY DEF Manual!ClaimAny
<1> HIDE DEF jobs
<1>6. \/ job' = jobs /\ UNCHANGED holder /\ Manual!Return(c)
      \/ \E k \in Manual!Keys :
           /\ jobs[k] = "PENDING"
           /\ job' = [jobs EXCEPT ![k] = "LEASED"]
           /\ holder' = [holder EXCEPT ![k] = upload[c].key]
           /\ k \in Intents => k = upload[c].key
           /\ IF k = upload[c].key THEN Manual!GoTo(c, "START") ELSE Manual!Return(c)
  <2>1. ASSUME NEW i \in Manual!Pending(jobs)
        PROVE  /\ queue[i] \in Manual!Keys /\ queue[i] \notin Intents /\ jobs[queue[i]] = "PENDING"
    BY <1>4 DEF Manual!Pending
  <2> QED  BY <1>5, <2>1
<1> QED  BY <1>1, <1>2, <1>3, <1>6, ClaimStep

LEMMA ClaimSpecificStep ==
  ASSUME Manual!UploadAssumption, ManualInv, NEW c \in Calls, Manual!ClaimSpecific(c)
  PROVE  ManualInv'
<1> DEFINE jobs == Manual!Returned
           k == upload[c].key
<1>1. /\ upload[c].step = "CLAIM" /\ busy \in {c, Nobody}
      /\ UNCHANGED <<request, queue, artifacts, ends>>
      /\ k \in Intents /\ k \in Manual!Keys /\ job[k] = "PENDING"
      /\ job' = [jobs EXCEPT ![k] = "LEASED"] /\ holder' = [holder EXCEPT ![k] = k]
      /\ expired' = [q \in Manual!Keys |-> expired[q] /\ job[q] # "LEASED"]
      /\ Manual!GoTo(c, "START")
  BY DEF Manual!ClaimSpecific, Manual!At, Manual!Runs, Manual!Keys
<1>2. /\ jobs \in [Manual!Keys -> Manual!JobStatus] /\ jobs[k] = "PENDING"
      /\ \A q \in Manual!Keys :
           \/ jobs[q] = job[q]
           \/ expired[q] /\ job[q] = "LEASED" /\ jobs[q] = "PENDING"
  BY <1>1 DEF Manual!Returned, ManualInv, Manual!TypeOK, Manual!JobStatus
<1> HIDE DEF jobs
<1>3. /\ expired' \in [Manual!Keys -> BOOLEAN]
      /\ \A q \in Manual!Keys :
           expired'[q] => expired[q] /\ job[q] = "RUNNING" /\ job'[q] = "RUNNING"
  <2>1. ASSUME NEW q \in Manual!Keys, expired'[q]
        PROVE  expired[q] /\ job[q] = "RUNNING" /\ job'[q] = "RUNNING"
    <3>1. expired[q] /\ job[q] # "LEASED"  BY <1>1, <2>1
    <3>2. job[q] = "RUNNING" /\ q # k  BY <1>1, <3>1 DEF ManualInv, JobsAgree
    <3>3. jobs[q] = "RUNNING"  BY <1>2, <3>2
    <3> QED  BY <1>1, <1>2, <3>1, <3>2, <3>3
  <2>2. expired' \in [Manual!Keys -> BOOLEAN]
    BY <1>1 DEF ManualInv, Manual!TypeOK
  <2> QED  BY <2>1, <2>2
<1> QED  BY <1>1, <1>2, <1>3, ClaimStep

\* The steps of a call that has its key's job.
LEMMA ExecutionStep ==
  ASSUME Manual!UploadAssumption, ManualInv, NEW c \in Calls,
         \/ Manual!Start(c) \/ Manual!UploadContent(c) \/ Manual!UploadFails(c)
         \/ Manual!FinalizeArtifact(c) \/ Manual!CompleteJob(c)
  PROVE  ManualInv'
<1> DEFINE k == upload[c].key
<1>1. /\ upload[c].step \in {"START", "UPLOAD", "FINALIZE", "COMPLETE"} /\ busy \in {c, Nobody}
      /\ UNCHANGED <<request, holder, expired, queue, ends>>
  BY DEF Manual!Start, Manual!UploadContent, Manual!UploadFails, Manual!FinalizeArtifact,
         Manual!CompleteJob, Manual!Throw, Manual!At, Manual!Runs
<1>2. /\ Executing(c) /\ k \in Manual!Keys /\ UploadAgrees(c)
      /\ job \in [Manual!Keys -> Manual!JobStatus] /\ artifacts \in [Manual!Keys -> Nat]
      /\ artifacts[k] \in Nat /\ artifacts[k] <= 1
      /\ expired[k] => job[k] \in {"LEASED", "RUNNING"}
  BY <1>1, CallsHaveKeys
     DEF Executing, ManualInv, Manual!TypeOK, Manual!UploadedOnce, JobsAgree
<1>3. CASE Manual!Start(c)
  <2>1. /\ upload[c].step = "START" /\ UNCHANGED artifacts
        /\ job' = [job EXCEPT ![k] = "RUNNING"] /\ Manual!Await(c, "UPLOAD")
    BY <1>3 DEF Manual!Start, Manual!At
  <2>2. /\ upload' \in [Calls -> Manual!CallRecord \cup {Manual!Idle}]
        /\ upload'[c].step = "UPLOAD" /\ upload'[c].key = k
        /\ \A o \in Calls : o # c => upload'[o] = upload[o]
        /\ busy' \in Calls \cup {Nobody}
    BY <1>1, <2>1, GoesTo DEF Manual!Await
  <2>3. /\ job' \in [Manual!Keys -> Manual!JobStatus] /\ job'[k] = "RUNNING"
        /\ \A q \in Manual!Keys : q # k => job'[q] = job[q]
    BY <1>2, <2>1 DEF Manual!JobStatus
  <2>4. UploadAgrees(c)'  BY <1>2, <2>1, <2>2, <2>3 DEF UploadAgrees
  <2> QED  BY <1>1, <1>2, <2>1, <2>2, <2>3, <2>4, WorkingCall
<1>4. CASE Manual!UploadContent(c)
  <2>1. /\ upload[c].step = "UPLOAD" /\ UNCHANGED <<job, artifacts>>
        /\ Manual!Await(c, "FINALIZE") /\ job[k] = "RUNNING"
    BY <1>4 DEF Manual!UploadContent, Manual!At, Manual!Live
  <2>2. /\ upload' \in [Calls -> Manual!CallRecord \cup {Manual!Idle}]
        /\ upload'[c].step = "FINALIZE" /\ upload'[c].key = k
        /\ \A o \in Calls : o # c => upload'[o] = upload[o]
        /\ busy' \in Calls \cup {Nobody}
    BY <1>1, <2>1, GoesTo DEF Manual!Await
  <2>3. UploadAgrees(c)'  BY <1>2, <2>1, <2>2 DEF UploadAgrees
  <2> QED  BY <1>1, <1>2, <2>1, <2>2, <2>3, WorkingCall
<1>5. ASSUME Manual!Throw(c), upload[c].step # "START" PROVE ManualInv'
  <2>1. /\ upload' \in [Calls -> Manual!CallRecord \cup {Manual!Idle}]
        /\ \A o \in Calls : o # c => upload'[o] = upload[o]
        /\ busy' \in Calls \cup {Nobody} /\ UploadAgrees(c)' /\ ~(Executing(c)')
    BY <1>5, ReturnsIdle DEF Manual!Throw
  <2>2. /\ job' \in [Manual!Keys -> Manual!JobStatus] /\ UNCHANGED artifacts
        /\ \A q \in Manual!Keys : q # k => job'[q] = job[q]
        /\ job'[k] = job[k] \/ (~expired[k] /\ job'[k] = "FAILED")
    BY <1>2, <1>5 DEF Manual!Throw, Manual!Live, Manual!JobStatus
  <2>3. /\ job[k] \in {"RUNNING", "FAILED"}
    BY <1>1, <1>2, <1>5 DEF UploadAgrees
  <2> QED  BY <1>1, <1>2, <2>1, <2>2, <2>3, WorkingCall
<1>6. CASE Manual!UploadFails(c)
  BY <1>5, <1>6 DEF Manual!UploadFails, Manual!At
<1>7. CASE Manual!FinalizeArtifact(c)
  <2>1. /\ upload[c].step = "FINALIZE" /\ UNCHANGED job
        /\ artifacts' = [artifacts EXCEPT ![k] = @ + 1] /\ Manual!Await(c, "COMPLETE")
    BY <1>7 DEF Manual!FinalizeArtifact, Manual!At
  <2>2. /\ upload' \in [Calls -> Manual!CallRecord \cup {Manual!Idle}]
        /\ upload'[c].step = "COMPLETE" /\ upload'[c].key = k
        /\ \A o \in Calls : o # c => upload'[o] = upload[o]
        /\ busy' \in Calls \cup {Nobody}
    BY <1>1, <2>1, GoesTo DEF Manual!Await
  <2>3. artifacts[k] = 0 /\ job[k] \in {"RUNNING", "FAILED"}
    BY <1>2, <2>1 DEF UploadAgrees
  <2>4. /\ artifacts' \in [Manual!Keys -> Nat] /\ artifacts'[k] = 1
        /\ \A q \in Manual!Keys : q # k => artifacts'[q] = artifacts[q]
    BY <1>2, <2>1, <2>3
  <2>5. UploadAgrees(c)'  BY <2>1, <2>2, <2>3, <2>4 DEF UploadAgrees
  <2> QED  BY <1>1, <1>2, <2>1, <2>2, <2>3, <2>4, <2>5, WorkingCall
<1>8. CASE Manual!CompleteJob(c)
  <2>1. upload[c].step = "COMPLETE"
    BY <1>8 DEF Manual!CompleteJob, Manual!At
  <2>2. artifacts[k] = 1  BY <1>2, <2>1 DEF UploadAgrees
  <2>3. CASE Manual!Live(k)
    <3>1. /\ ~expired[k] /\ job' = [job EXCEPT ![k] = "COMPLETED"] /\ UNCHANGED artifacts
          /\ \/ k \in Requests /\ Manual!GoTo(c, "RECORD")
             \/ Manual!Return(c)
      BY <1>8, <2>3 DEF Manual!CompleteJob, Manual!Live
    <3>2. /\ job' \in [Manual!Keys -> Manual!JobStatus] /\ job'[k] = "COMPLETED"
          /\ \A q \in Manual!Keys : q # k => job'[q] = job[q]
      BY <1>2, <3>1 DEF Manual!JobStatus
    <3>3. CASE k \in Requests /\ Manual!GoTo(c, "RECORD")
      <4>1. upload' = [upload EXCEPT ![c].step = "RECORD"] /\ busy' = c
        BY <3>3 DEF Manual!GoTo
      <4>2. /\ upload' \in [Calls -> Manual!CallRecord \cup {Manual!Idle}]
            /\ upload'[c].step = "RECORD" /\ upload'[c].key = k
            /\ \A o \in Calls : o # c => upload'[o] = upload[o]
            /\ busy' \in Calls \cup {Nobody}
        BY <1>1, <4>1, GoesTo
      <4>3. UploadAgrees(c)'  BY <2>2, <3>1, <3>3, <4>1, <4>2 DEF UploadAgrees
      <4> QED  BY <1>1, <1>2, <2>2, <3>1, <3>2, <4>2, <4>3, WorkingCall
    <3>4. CASE Manual!Return(c)
      <4>1. /\ upload' \in [Calls -> Manual!CallRecord \cup {Manual!Idle}]
            /\ \A o \in Calls : o # c => upload'[o] = upload[o]
            /\ busy' \in Calls \cup {Nobody} /\ UploadAgrees(c)' /\ ~(Executing(c)')
        BY <3>4, ReturnsIdle
      <4> QED  BY <1>1, <1>2, <2>2, <3>1, <3>2, <4>1, WorkingCall
    <3> QED  BY <3>1, <3>3, <3>4
  <2>4. CASE ~Manual!Live(k)
    BY <1>5, <1>8, <2>1, <2>4 DEF Manual!CompleteJob
  <2> QED  BY <2>3, <2>4
<1> QED  BY <1>3, <1>4, <1>6, <1>7, <1>8

\* Leases run out and are reaped between the steps of the calls, and a crash ends
\* all calls.
LEMMA AroundStep ==
  ASSUME Manual!UploadAssumption, ManualInv,
         Manual!Reap \/ Manual!Crash \/ \E k \in Manual!Keys : Manual!ExpireLease(k)
  PROVE  ManualInv'
<1>0. Manual!TypeOK  BY DEF ManualInv
<1>1. ASSUME UNCHANGED <<upload, busy, artifacts, request, holder>>,
             \A k \in Manual!Keys : job[k] \in {"RUNNING", "FAILED"} => job'[k] \in {"RUNNING", "FAILED"},
             \A c \in Calls : upload[c].step # "START"
      PROVE  OneCallEach' /\ \A c \in Calls : UploadAgrees(c)'
  <2>1. OneCallEach'  BY <1>1 DEF ManualInv, OneCallEach, Executing
  <2>2. ASSUME NEW c \in Calls PROVE UploadAgrees(c)'
    <3>1. upload[c].step \in {"UPLOAD", "FINALIZE", "COMPLETE"} => upload[c].key \in Manual!Keys
      BY CallsHaveKeys
    <3> QED  BY <1>1, <3>1 DEF ManualInv, UploadAgrees
  <2> QED  BY <2>1, <2>2
<1>2. CASE Manual!Reap
  <2>1. /\ busy = Nobody /\ job' = Manual!Reaped /\ expired' = Manual!NotExpired
        /\ UNCHANGED <<request, holder, queue, artifacts, upload, busy, ends>>
    BY <1>2 DEF Manual!Reap
  <2>2. /\ job' \in [Manual!Keys -> Manual!JobStatus]
        /\ \A k \in Manual!Keys :
             \/ job'[k] = job[k]
             \/ expired[k] /\ job[k] = "LEASED" /\ job'[k] = "PENDING"
             \/ expired[k] /\ job[k] = "RUNNING" /\ job'[k] = "FAILED"
    BY <2>1 DEF Manual!Reaped, ManualInv, Manual!TypeOK, Manual!JobStatus, JobsAgree
  <2>3. /\ expired' \in [Manual!Keys -> BOOLEAN] /\ \A k \in Manual!Keys : ~expired'[k]
    BY <2>1 DEF Manual!NotExpired
  <2>4. \A c \in Calls : upload[c].step # "START"
    BY <2>1 DEF ManualInv, UploadAgrees, Manual!UploadAssumption
  <2>5. \A k \in Manual!Keys : job[k] \in {"RUNNING", "FAILED"} => job'[k] \in {"RUNNING", "FAILED"}
    BY <2>2
  <2>6. OneCallEach' /\ \A c \in Calls : UploadAgrees(c)'
    BY <1>1, <2>1, <2>4, <2>5
  <2>7. Manual!TypeOK'  BY <1>0, <2>1, <2>2, <2>3 DEF Manual!TypeOK
  <2>8. Manual!UploadedOnce' /\ Manual!IntentsKeepTheirJobs' /\ JobsAgree'
    BY <2>1, <2>2, <2>3
       DEF ManualInv, Manual!UploadedOnce, Manual!IntentsKeepTheirJobs, JobsAgree
  <2> QED  BY <2>6, <2>7, <2>8 DEF ManualInv
<1>3. CASE Manual!Crash
  <2>1. /\ upload' = [c \in Calls |-> Manual!Idle] /\ busy' = Nobody /\ ends' \in 0..MaxEnds
        /\ UNCHANGED <<request, job, holder, expired, queue, artifacts>>
    BY <1>0, <1>3 DEF Manual!Crash, Manual!TypeOK, Manual!UploadAssumption
  <2>2. \A c \in Calls : upload'[c].step = "IDLE"  BY <2>1 DEF Manual!Idle
  <2>3. Manual!TypeOK'  BY <1>0, <2>1 DEF Manual!TypeOK
  <2>4. OneCallEach' /\ \A c \in Calls : UploadAgrees(c)'
    BY <2>2 DEF OneCallEach, Executing, UploadAgrees
  <2> QED  BY <2>1, <2>3, <2>4
           DEF ManualInv, Manual!UploadedOnce, Manual!IntentsKeepTheirJobs, JobsAgree
<1>4. ASSUME NEW k \in Manual!Keys, Manual!ExpireLease(k) PROVE ManualInv'
  <2>1. /\ job[k] \in {"LEASED", "RUNNING"} /\ busy = Nobody
        /\ expired' = [expired EXCEPT ![k] = TRUE]
        /\ UNCHANGED <<request, job, holder, queue, artifacts, upload, busy, ends>>
    BY <1>4 DEF Manual!ExpireLease
  <2>2. Manual!TypeOK'  BY <1>0, <2>1 DEF Manual!TypeOK
  <2>3. JobsAgree'  BY <1>0, <2>1 DEF ManualInv, JobsAgree, Manual!TypeOK
  <2>4. OneCallEach' /\ \A c \in Calls : UploadAgrees(c)'
    BY <2>1 DEF ManualInv, OneCallEach, Executing, UploadAgrees
  <2> QED  BY <2>1, <2>2, <2>3, <2>4
           DEF ManualInv, Manual!UploadedOnce, Manual!IntentsKeepTheirJobs
<1> QED  BY <1>2, <1>3, <1>4

LEMMA ManualInvStep ==
  ASSUME Manual!UploadAssumption, ManualInv, [Manual!Next]_(Manual!vars)
  PROVE  ManualInv'
<1>1. CASE UNCHANGED Manual!vars
  BY <1>1 DEF Manual!vars, ManualInv, Manual!TypeOK, Manual!UploadedOnce,
     Manual!IntentsKeepTheirJobs, JobsAgree, OneCallEach, Executing, UploadAgrees
<1>2. CASE Manual!Next
  <2>1. ASSUME NEW c \in Calls, Manual!Step(c) PROVE ManualInv'
    BY <2>1, DispatchRequestStep, RequestRowStep, ClaimAnyStep, ClaimSpecificStep, ExecutionStep
       DEF Manual!Step
  <2> QED  BY <1>2, <2>1, BeginStep, AroundStep DEF Manual!Next
<1> QED  BY <1>1, <1>2

\* However often uploads are repeated, through crashes, lost leases and claims by
\* other uploads, for any set of keys and calls: the run of a key has at most one
\* artifact, what is reported as completed has one, and a job of the second route is
\* only ever leased to the upload that dispatched it.
THEOREM UploadsHaveOneArtifact ==
  ASSUME Manual!UploadAssumption
  PROVE  Manual!Spec => []OneUploadOneArtifact
<1>1. ManualInv => OneUploadOneArtifact
  BY DEF ManualInv, OneUploadOneArtifact
<1>2. Manual!Init => ManualInv
  BY ManualInvInit
<1>3. ManualInv /\ [Manual!Next]_(Manual!vars) => ManualInv'
  BY ManualInvStep
<1> QED  BY <1>1, <1>2, <1>3, PTL DEF Manual!Spec

-----------------------------------------------------------------------------
(* Imports from the Vault. *)

ExportSteps == {"CONTINUE", "PROJECT", "WRITE", "RECORD", "FINALIZE"}
ImportSteps == {"READ", "STORE", "INSERT", "CREATE", "RECEIVE", "CLOSE"}

VaultCall ==
  [at : ExportSteps \cup ImportSteps \cup {"IDLE"}, item : Nat,
   found : Contents \cup {"NONE", "WRITTEN", "ALREADY_PRESENT"}]

VaultTyped ==
  /\ binding \in Imports!Binding
  /\ binding.status # "NONE" => binding.root \in Roots /\ binding.revision \in 1 .. MaxRevisions
  /\ files \in [Imports!Path -> Contents \cup {None}]
  /\ held \subseteq Imports!Path \X Contents
  /\ ready \subseteq Documents
  /\ exports \in Seq(Imports!Export)
  /\ edits \in 0 .. MaxEdits /\ stops \in 0 .. MaxStops

\* Of the files that are there the history knows the contents.
FilesAreHeld == \A f \in Imports!Path : files[f] # None => <<f, files[f]>> \in held

TablesTyped ==
  /\ inspections \in Seq(Imports!Inspection) /\ Len(inspections) <= MaxInspections
  /\ intents \in Seq(Imports!Intent)
  /\ \A j \in 1 .. Len(intents) : intents[j].inspection <= Len(inspections)
  /\ executions \in Seq(Imports!ExecutionState) /\ Len(executions) = Len(intents)
  /\ staged \in Seq([intent : Nat, content : Contents])
  /\ \A k \in 1 .. Len(staged) : staged[k].intent \in 1 .. Len(intents)
  /\ blobs \subseteq Contents
  /\ DOMAIN verdicts \subseteq 1 .. Len(staged) /\ DOMAIN finalized \subseteq DOMAIN verdicts

\* What was seen was there, and only what was there is reviewed.
ReviewsAreHeld ==
  /\ \A n \in 1 .. Len(inspections), t \in Targets :
       /\ inspections[n].found[t].content # None =>
            <<[root |-> inspections[n].root, target |-> t], inspections[n].found[t].content>> \in held
       /\ inspections[n].found[t].class = "IMPORT_CANDIDATE" =>
            inspections[n].found[t].content # None
  /\ \A j \in 1 .. Len(intents) :
       inspections[intents[j].inspection].found[intents[j].target].class = "IMPORT_CANDIDATE"

\* How far a request is and what it relies on: an import has the reviewed bytes in
\* hand until it inserts them, and the document there is when it records the receipt.
RequestAgrees ==
  /\ import \in VaultCall
  /\ import.at \in ExportSteps => import.item \in 1 .. Len(exports)
  /\ import.at = "RECORD" => import.found \in {"WRITTEN", "ALREADY_PRESENT"}
  /\ import.at \in ImportSteps => import.item \in 1 .. Len(intents)
  /\ import.at \in {"STORE", "INSERT", "CREATE"} =>
       import.found = Imports!Reviewed(import.item) /\ Imports!StagedOf(import.item) = {}
  /\ import.at \in {"INSERT", "CREATE"} => import.found \in blobs
  /\ import.at = "RECEIVE" => Imports!StagedOf(import.item) # {}
  /\ import.at = "CLOSE" => executions[import.item] = "RECEIPT"

ImportInv ==
  /\ VaultTyped /\ FilesAreHeld /\ TablesTyped /\ ReviewsAreHeld /\ RequestAgrees
  /\ Imports!ImportedAsReviewed /\ Imports!OneDocumentPerIntent /\ Imports!DocumentsKeepTheirBytes

LEMMA ImportInvIsEnough == ImportInv => ImportedOnceAsReviewed
<1> SUFFICES ASSUME ImportInv PROVE ImportedOnceAsReviewed
  OBVIOUS
<1>1. Imports!ExportTypeOK
  BY DEF ImportInv, VaultTyped, RequestAgrees, ExportSteps, Imports!ExportTypeOK
<1>2. Imports!TypeOK
  <2> DEFINE Document == [intent : Nat, content : Contents]
  <2>1. TablesTyped /\ staged \in Seq(Document)
    BY DEF ImportInv, TablesTyped
  <2>2. \A k \in 1 .. Len(staged) : staged[k] \in Document
    <3> HIDE DEF Document
    <3> QED  BY <2>1
  <2>3. \A k \in 1 .. Len(staged) : staged[k].content \in Contents
    BY <2>2
  <2>4. /\ \A n \in 1 .. Len(inspections) : inspections[n] \in Imports!Inspection
        /\ \A j \in 1 .. Len(intents) : intents[j] \in Imports!Intent
        /\ \A j \in 1 .. Len(executions) : executions[j] \in Imports!ExecutionState
    BY <2>1 DEF TablesTyped
  <2> HIDE DEF Document
  <2> QED  BY <1>1, <2>1, <2>3, <2>4 DEF TablesTyped, Imports!TypeOK
<1> QED  BY <1>2 DEF ImportInv, ImportedOnceAsReviewed

LEMMA ImportInvInit ==
  ASSUME Imports!VaultAssumption, Imports!ImportAssumption, Imports!Init PROVE ImportInv
<1> USE DEF Imports!Init, Imports!ExportInit
<1>1. VaultTyped
  <2>1. binding \in Imports!Binding  BY DEF Imports!VaultAssumption, Imports!Binding
  <2>2. edits \in 0 .. MaxEdits /\ stops \in 0 .. MaxStops  BY DEF Imports!VaultAssumption
  <2> QED  BY <2>1, <2>2 DEF VaultTyped
<1>2. import \in VaultCall /\ import.at = "IDLE"
  BY DEF VaultCall, Imports!Idle
<1>3. RequestAgrees
  BY <1>2 DEF RequestAgrees, ExportSteps, ImportSteps
<1>4. \A d \in Documents : ContentOf[d] \in Contents
  BY DEF Imports!VaultAssumption
<1>5. TablesTyped /\ Imports!DocumentsKeepTheirBytes
  BY <1>4
     DEF TablesTyped, Imports!DocumentsKeepTheirBytes, Imports!Stored, Imports!ImportAssumption
<1>6. FilesAreHeld /\ ReviewsAreHeld /\ Imports!ImportedAsReviewed /\ Imports!OneDocumentPerIntent
  BY DEF FilesAreHeld, ReviewsAreHeld, Imports!ImportedAsReviewed, Imports!OneDocumentPerIntent
<1> QED  BY <1>1, <1>3, <1>5, <1>6 DEF ImportInv

\* Where a run goes and what it writes there.
LEMMA ExportRuns ==
  ASSUME Imports!VaultAssumption, VaultTyped, NEW i \in 1 .. Len(exports)
  PROVE  /\ exports[i] \in Imports!Export
         /\ Imports!Destination(i) \in Imports!Path /\ Imports!Expected(i) \in Contents
<1>1. exports[i] \in Imports!Export  BY DEF VaultTyped
<1>2. exports[i].document \in Documents /\ exports[i].root \in Roots
  BY <1>1 DEF Imports!Export
<1> QED
  BY <1>1, <1>2
     DEF Imports!VaultAssumption, Imports!Destination, Imports!Expected, Imports!Path

\* Where an import comes from and what was reviewed.
LEMMA ImportIntents ==
  ASSUME ImportInv, NEW j \in 1 .. Len(intents)
  PROVE  /\ intents[j] \in Imports!Intent /\ intents[j].inspection \in 1 .. Len(inspections)
         /\ executions[j] \in Imports!ExecutionState
         /\ Imports!Source(j) \in Imports!Path /\ Imports!Reviewed(j) \in Contents
         /\ <<Imports!Source(j), Imports!Reviewed(j)>> \in held
<1> DEFINE n == intents[j].inspection
           t == intents[j].target
<1>1. /\ intents[j] \in Imports!Intent /\ n \in 1 .. Len(inspections) /\ t \in Targets
      /\ executions[j] \in Imports!ExecutionState
  <2>1. intents[j] \in Imports!Intent /\ n <= Len(inspections)  BY DEF ImportInv, TablesTyped
  <2>2. n \in 1 .. MaxInspections /\ t \in Targets  BY <2>1 DEF Imports!Intent
  <2> QED  BY <2>1, <2>2 DEF ImportInv, TablesTyped
<1>2. inspections[n] \in Imports!Inspection  BY <1>1 DEF ImportInv, TablesTyped
<1>3. /\ inspections[n].root \in Roots
      /\ inspections[n].found[t].content \in Contents \cup {None}
  BY <1>1, <1>2 DEF Imports!Inspection
<1>4. /\ inspections[n].found[t].content # None
      /\ <<[root |-> inspections[n].root, target |-> t], inspections[n].found[t].content>> \in held
  BY <1>1 DEF ImportInv, ReviewsAreHeld
<1> QED
  BY <1>1, <1>3, <1>4 DEF Imports!Source, Imports!Reviewed, Imports!Path

\* A step of the exports, of the user or of the binding: the imports' tables stay.
LEMMA TablesStay ==
  ASSUME ImportInv, UNCHANGED Imports!importVars, held \subseteq held',
         VaultTyped', FilesAreHeld', RequestAgrees'
  PROVE  ImportInv'
<1>1. UNCHANGED <<inspections, intents, executions, staged, blobs, verdicts, finalized, failures>>
  BY DEF Imports!importVars
<1>2. TablesTyped' /\ ReviewsAreHeld'
  BY <1>1 DEF ImportInv, TablesTyped, ReviewsAreHeld
<1>3. Imports!ImportedAsReviewed'
  BY <1>1 DEF ImportInv, Imports!ImportedAsReviewed, Imports!Reviewed, Imports!Source
<1>4. Imports!OneDocumentPerIntent' /\ Imports!DocumentsKeepTheirBytes'
  BY <1>1
     DEF ImportInv, Imports!OneDocumentPerIntent, Imports!StagedOf, Imports!DocumentsKeepTheirBytes
<1> QED  BY <1>2, <1>3, <1>4 DEF ImportInv

\* The request in progress stays as it is, or ends, or is one of the exports.
LEMMA ExportRequest ==
  ASSUME ImportInv, UNCHANGED Imports!importVars, Len(exports) <= Len(exports'),
         exports \in Seq(Imports!Export), exports' \in Seq(Imports!Export),
         \/ UNCHANGED import
         \/ import' = Imports!Idle
         \/ /\ import' \in VaultCall /\ import'.at \in ExportSteps
            /\ import'.item \in 1 .. Len(exports')
            /\ import'.at = "RECORD" => import'.found \in {"WRITTEN", "ALREADY_PRESENT"}
  PROVE  RequestAgrees'
<1>1. UNCHANGED <<inspections, intents, executions, staged, blobs, verdicts, finalized, failures>>
  BY DEF Imports!importVars
<1>2. RequestAgrees  BY DEF ImportInv
<1>3. CASE UNCHANGED import
  BY <1>1, <1>2, <1>3 DEF RequestAgrees, Imports!Reviewed, Imports!StagedOf
<1>4. CASE import' = Imports!Idle
  <2>1. import' \in VaultCall /\ import'.at = "IDLE"  BY <1>4 DEF VaultCall, Imports!Idle
  <2> QED  BY <2>1 DEF RequestAgrees, ExportSteps, ImportSteps
<1>5. CASE /\ import' \in VaultCall /\ import'.at \in ExportSteps
           /\ import'.item \in 1 .. Len(exports')
           /\ import'.at = "RECORD" => import'.found \in {"WRITTEN", "ALREADY_PRESENT"}
  BY <1>5 DEF RequestAgrees, ExportSteps, ImportSteps
<1> QED  BY <1>3, <1>4, <1>5

LEMMA VaultSubmitStep ==
  ASSUME Imports!VaultAssumption, ImportInv, UNCHANGED Imports!importVars,
         NEW d \in Documents, Imports!submit(d)
  PROVE  ImportInv'
<1>1. UNCHANGED <<binding, files, held, ready, edits, stops>> /\ VaultTyped
  BY DEF Imports!submit, ImportInv
<1>2. \E i \in Nat : import' = [at |-> "CONTINUE", item |-> i, found |-> "NONE"] /\ i \in 1 .. Len(exports')
      /\ exports' \in Seq(Imports!Export) /\ Len(exports) <= Len(exports')
  <2>1. CASE (\E i \in Imports!Pending(d) : Imports!Goes("CONTINUE", i)) /\ UNCHANGED exports
    BY <1>1, <2>1 DEF Imports!Pending, Imports!Goes, VaultTyped
  <2>2. CASE /\ binding.status = "ACTIVE"
             /\ exports' = Append(exports, [document |-> d, root |-> binding.root,
                                            revision |-> binding.revision,
                                            state |-> "PENDING", receipt |-> "NONE"])
             /\ Imports!Goes("CONTINUE", Len(exports) + 1)
    <3> DEFINE new == [document |-> d, root |-> binding.root, revision |-> binding.revision,
                       state |-> "PENDING", receipt |-> "NONE"]
    <3>1. new \in Imports!Export
      BY <1>1, <2>2 DEF VaultTyped, Imports!Export
    <3>2. exports' = Append(exports, new)  BY <2>2
    <3>3. import' = [at |-> "CONTINUE", item |-> Len(exports) + 1, found |-> "NONE"]
      BY <2>2 DEF Imports!Goes
    <3>4. exports \in Seq(Imports!Export)  BY <1>1 DEF VaultTyped
    <3> HIDE DEF new
    <3>5. /\ exports' \in Seq(Imports!Export) /\ Len(exports') = Len(exports) + 1
          /\ Len(exports) \in Nat
      BY <3>1, <3>2, <3>4
    <3>6. Len(exports) + 1 \in 1 .. Len(exports') /\ Len(exports) + 1 \in Nat
          /\ Len(exports) <= Len(exports')
      BY <3>5
    <3> QED  BY <3>3, <3>5, <3>6
  <2> QED  BY <2>1, <2>2 DEF Imports!submit
<1>3. import' \in VaultCall /\ import'.at = "CONTINUE" /\ import'.item \in 1 .. Len(exports')
  BY <1>2 DEF VaultCall, ExportSteps
<1>4. RequestAgrees'
  BY <1>1, <1>2, <1>3, ExportRequest DEF VaultTyped, ExportSteps
<1>5. VaultTyped' /\ FilesAreHeld'
  BY <1>1, <1>2 DEF ImportInv, VaultTyped, FilesAreHeld
<1> QED  BY <1>1, <1>4, <1>5, TablesStay

\* The request of an export goes on, and perhaps writes its file.
LEMMA ExportMoves ==
  ASSUME Imports!VaultAssumption, ImportInv, UNCHANGED Imports!importVars,
         Imports!Continue \/ Imports!project \/ Imports!projectWrites
  PROVE  ImportInv'
<1> DEFINE i == import.item
<1>1. /\ import.at \in ExportSteps /\ UNCHANGED <<binding, ready, exports, edits, stops>>
      /\ VaultTyped /\ RequestAgrees
  BY DEF Imports!Continue, Imports!project, Imports!projectWrites, ExportSteps, ImportInv
<1>2. i \in 1 .. Len(exports) /\ import \in VaultCall /\ i \in Nat
  BY <1>1 DEF RequestAgrees, VaultCall
<1>3. \/ import' = Imports!Idle
      \/ /\ import' \in VaultCall /\ import'.at \in ExportSteps /\ import'.item = i
         /\ import'.at = "RECORD" => import'.found \in {"WRITTEN", "ALREADY_PRESENT"}
  <2>1. CASE Imports!Continue
    <3> DEFINE next == Imports!continuePending(i)
    <3>1. import' = IF next.at = "IDLE" THEN Imports!Idle
                    ELSE [at |-> next.at, item |-> i, found |-> next.found]
      BY <2>1 DEF Imports!Continue
    <3>2. \/ next = [at |-> "FINALIZE", found |-> "NONE"]
          \/ next = [at |-> "IDLE", found |-> "NONE"]
          \/ next = [at |-> "RECORD", found |-> "ALREADY_PRESENT"]
          \/ next = [at |-> "PROJECT", found |-> "NONE"]
      BY DEF Imports!continuePending
    <3> HIDE DEF next
    <3>3. \/ import' = Imports!Idle
          \/ import' = [at |-> "FINALIZE", item |-> i, found |-> "NONE"]
          \/ import' = [at |-> "RECORD", item |-> i, found |-> "ALREADY_PRESENT"]
          \/ import' = [at |-> "PROJECT", item |-> i, found |-> "NONE"]
      BY <3>1, <3>2
    <3> QED  BY <1>2, <3>3 DEF VaultCall, ExportSteps
  <2>2. CASE Imports!project
    <3>1. \/ import' = [import EXCEPT !.at = "WRITE"]
          \/ import' = [import EXCEPT !.at = "RECORD", !.found = "ALREADY_PRESENT"]
          \/ import' = Imports!Idle
      BY <2>2 DEF Imports!project
    <3> QED  BY <1>2, <3>1 DEF VaultCall, ExportSteps
  <2>3. CASE Imports!projectWrites
    <3>1. import' = [import EXCEPT !.at = "RECORD", !.found = "WRITTEN"]
      BY <2>3 DEF Imports!projectWrites
    <3> QED  BY <1>2, <3>1 DEF VaultCall, ExportSteps
  <2> QED  BY <2>1, <2>2, <2>3
<1>4. RequestAgrees'
  BY <1>1, <1>2, <1>3, ExportRequest DEF VaultTyped
<1>5. \/ UNCHANGED <<files, held>>
      \/ \E f \in Imports!Path, c \in Contents :
           files' = [files EXCEPT ![f] = c] /\ held' = held \cup {<<f, c>>}
  BY <1>1, <1>2, ExportRuns DEF Imports!Continue, Imports!project, Imports!projectWrites
<1>6. VaultTyped' /\ FilesAreHeld' /\ held \subseteq held'
  BY <1>1, <1>5 DEF ImportInv, VaultTyped, FilesAreHeld
<1> QED  BY <1>4, <1>6, TablesStay

\* A receipt or the end of an export's run.
LEMMA ExportRecords ==
  ASSUME Imports!VaultAssumption, ImportInv, UNCHANGED Imports!importVars,
         Imports!recordProjectionReceipt \/ Imports!finalize
  PROVE  ImportInv'
<1> DEFINE i == import.item
<1>1. /\ import.at \in ExportSteps /\ UNCHANGED <<binding, files, held, ready, edits, stops>>
      /\ VaultTyped /\ RequestAgrees
  BY DEF Imports!recordProjectionReceipt, Imports!finalize, ExportSteps, ImportInv
<1>2. /\ i \in 1 .. Len(exports) /\ import \in VaultCall /\ i \in Nat
      /\ exports[i] \in Imports!Export /\ exports \in Seq(Imports!Export)
  BY <1>1, ExportRuns DEF RequestAgrees, VaultCall, VaultTyped
<1>3. \E row \in Imports!Export : exports' = [exports EXCEPT ![i] = row]
  <2>1. CASE Imports!recordProjectionReceipt
    <3>1. /\ import.found \in {"WRITTEN", "ALREADY_PRESENT"}
          /\ exports' = [exports EXCEPT ![i] = [exports[i] EXCEPT !.receipt = import.found]]
      BY <1>1, <2>1 DEF Imports!recordProjectionReceipt, RequestAgrees
    <3>2. [exports[i] EXCEPT !.receipt = import.found] \in Imports!Export
      BY <1>2, <3>1 DEF Imports!Export
    <3> QED  BY <3>1, <3>2
  <2>2. CASE Imports!finalize
    <3>1. exports' = [exports EXCEPT ![i] = [exports[i] EXCEPT !.state = "SUCCEEDED"]]
      BY <2>2 DEF Imports!finalize
    <3>2. [exports[i] EXCEPT !.state = "SUCCEEDED"] \in Imports!Export
      BY <1>2 DEF Imports!Export
    <3> QED  BY <3>1, <3>2
  <2> QED  BY <2>1, <2>2
<1>4. exports' \in Seq(Imports!Export) /\ Len(exports') = Len(exports) /\ Len(exports) \in Nat
  BY <1>2, <1>3
<1>5. \/ import' = Imports!Idle
      \/ /\ import' \in VaultCall /\ import'.at \in ExportSteps /\ import'.item = i
         /\ import'.at # "RECORD"
  <2>1. \/ import' = [at |-> "FINALIZE", item |-> i, found |-> "NONE"]
        \/ import' = Imports!Idle
    BY DEF Imports!recordProjectionReceipt, Imports!finalize, Imports!Goes, Imports!Returns
  <2> QED  BY <1>2, <2>1 DEF VaultCall, ExportSteps
<1>6. RequestAgrees'
  BY <1>2, <1>4, <1>5, ExportRequest
<1>7. VaultTyped' /\ FilesAreHeld'
  BY <1>1, <1>4 DEF ImportInv, VaultTyped, FilesAreHeld
<1> QED  BY <1>1, <1>6, <1>7, TablesStay

\* What others do: the binding, retention, the user, the end of the process.
LEMMA VaultAround ==
  ASSUME Imports!VaultAssumption, ImportInv, UNCHANGED Imports!importVars,
         \/ \E root \in Roots : Imports!configure(root)
         \/ \E status \in {"ACTIVE", "DISABLED"} : Imports!setStatus(status)
         \/ \E d \in Documents : Imports!Archive(d)
         \/ \E f \in Imports!Path, content \in Contents \cup {None} : Imports!Edit(f, content)
         \/ Imports!Crash
  PROVE  ImportInv'
<1>0. VaultTyped /\ UNCHANGED exports /\ exports \in Seq(Imports!Export) /\ Len(exports) <= Len(exports')
  BY DEF Imports!configure, Imports!setStatus, Imports!Archive, Imports!Edit, Imports!Crash,
         ImportInv, VaultTyped
<1>1. import' \in {import, Imports!Idle}
  BY DEF Imports!configure, Imports!setStatus, Imports!Archive, Imports!Edit, Imports!Crash,
         Imports!Returns
<1>2. RequestAgrees'
  BY <1>0, <1>1, ExportRequest
<1>3. VaultTyped' /\ FilesAreHeld' /\ held \subseteq held'
  <2>1. ASSUME NEW root \in Roots, Imports!configure(root)
        PROVE  VaultTyped' /\ FilesAreHeld' /\ held \subseteq held'
    <3>1. /\ binding.revision < MaxRevisions
          /\ binding' = [status |-> IF binding.status = "NONE" THEN "ACTIVE" ELSE binding.status,
                         root |-> root, revision |-> binding.revision + 1]
          /\ UNCHANGED <<files, held, ready, edits, stops>>
      BY <2>1 DEF Imports!configure
    <3>2. /\ binding' \in Imports!Binding /\ binding'.root \in Roots
          /\ binding'.revision \in 1 .. MaxRevisions
      BY <1>0, <3>1 DEF VaultTyped, Imports!Binding, Imports!VaultAssumption
    <3> QED  BY <1>0, <3>1, <3>2 DEF ImportInv, VaultTyped, FilesAreHeld
  <2>2. ASSUME NEW st \in {"ACTIVE", "DISABLED"}, Imports!setStatus(st)
        PROVE  VaultTyped' /\ FilesAreHeld' /\ held \subseteq held'
    <3>1. /\ binding.status # "NONE" /\ binding.revision < MaxRevisions
          /\ binding' = [binding EXCEPT !.status = st, !.revision = @ + 1]
          /\ UNCHANGED <<files, held, ready, edits, stops>>
      BY <2>2 DEF Imports!setStatus
    <3>2. /\ binding \in Imports!Binding /\ binding.root \in Roots
          /\ binding.revision \in 1 .. MaxRevisions
      BY <1>0, <3>1 DEF VaultTyped
    <3>3. binding.revision + 1 \in 1 .. MaxRevisions /\ binding.revision + 1 \in 0 .. MaxRevisions
      BY <3>1, <3>2 DEF Imports!VaultAssumption
    <3>4. binding' = [status |-> st, root |-> binding.root, revision |-> binding.revision + 1]
      BY <3>1, <3>2 DEF Imports!Binding
    <3>5. /\ binding' \in Imports!Binding /\ binding'.root \in Roots
          /\ binding'.revision \in 1 .. MaxRevisions
      BY <3>2, <3>3, <3>4 DEF Imports!Binding
    <3> QED  BY <1>0, <3>1, <3>5 DEF ImportInv, VaultTyped, FilesAreHeld
  <2>3. ASSUME NEW d \in Documents, Imports!Archive(d)
        PROVE  VaultTyped' /\ FilesAreHeld' /\ held \subseteq held'
    BY <1>0, <2>3 DEF Imports!Archive, ImportInv, VaultTyped, FilesAreHeld
  <2>4. ASSUME NEW f \in Imports!Path, NEW content \in Contents \cup {None},
               Imports!Edit(f, content)
        PROVE  VaultTyped' /\ FilesAreHeld' /\ held \subseteq held'
    <3>1. /\ files' = [files EXCEPT ![f] = content] /\ UNCHANGED <<binding, ready, stops>>
          /\ held' = IF content = None THEN held ELSE held \cup {<<f, content>>}
      BY <2>4 DEF Imports!Edit
    <3>2. edits' \in 0 .. MaxEdits
      BY <1>0, <2>4 DEF Imports!Edit, VaultTyped, Imports!VaultAssumption
    <3>3. held' \subseteq Imports!Path \X Contents /\ held \subseteq held'
      BY <1>0, <3>1 DEF VaultTyped
    <3> QED  BY <1>0, <3>1, <3>2, <3>3 DEF ImportInv, VaultTyped, FilesAreHeld
  <2>5. CASE Imports!Crash
    <3>1. stops' \in 0 .. MaxStops
      BY <1>0, <2>5 DEF Imports!Crash, VaultTyped, Imports!VaultAssumption
    <3> QED  BY <1>0, <2>5, <3>1 DEF Imports!Crash, ImportInv, VaultTyped, FilesAreHeld
  <2> QED  BY <2>1, <2>2, <2>3, <2>4, <2>5
<1> QED  BY <1>2, <1>3, TablesStay

\* A step of an import that leaves the Vault, the reviews and the documents alone.
LEMMA ImportMoves ==
  ASSUME ImportInv,
         UNCHANGED <<binding, files, held, ready, exports, edits, stops>>,
         UNCHANGED <<inspections, intents, staged, verdicts, finalized>>,
         executions' \in Seq(Imports!ExecutionState), Len(executions') = Len(executions),
         \A j \in 1 .. Len(intents) :
           executions'[j] \in {"RECEIPT", "SUCCEEDED"} => Imports!StagedOf(j) # {},
         blobs' \subseteq Contents, Imports!DocumentsKeepTheirBytes', RequestAgrees'
  PROVE  ImportInv'
<1>1. VaultTyped' /\ FilesAreHeld' /\ ReviewsAreHeld'
  BY DEF ImportInv, VaultTyped, FilesAreHeld, ReviewsAreHeld
<1>2. TablesTyped'
  BY DEF ImportInv, TablesTyped
<1>3. Imports!ImportedAsReviewed'
  BY DEF ImportInv, Imports!ImportedAsReviewed, Imports!Reviewed, Imports!Source
<1>4. Imports!OneDocumentPerIntent'
  BY DEF ImportInv, Imports!OneDocumentPerIntent, Imports!StagedOf
<1> QED  BY <1>1, <1>2, <1>3, <1>4 DEF ImportInv

LEMMA ExecuteStep ==
  ASSUME ImportInv, NEW j \in 1 .. Len(intents), Imports!execute(j)
  PROVE  ImportInv'
<1>1. /\ UNCHANGED <<binding, files, held, ready, exports, edits, stops>>
      /\ UNCHANGED <<inspections, intents, staged, blobs, verdicts, finalized>>
      /\ TablesTyped /\ j \in Nat
  BY DEF Imports!execute, ImportInv
<1>2. \/ /\ executions[j] = "RECEIPT" /\ UNCHANGED executions
         /\ import' = [at |-> "CLOSE", item |-> j, found |-> "NONE"]
      \/ /\ executions' = [executions EXCEPT ![j] = "PENDING"]
         /\ import' = [at |-> "READ", item |-> j, found |-> "NONE"]
  BY DEF Imports!execute, Imports!Goes
<1>3. /\ executions' \in Seq(Imports!ExecutionState) /\ Len(executions') = Len(executions)
      /\ \A i \in 1 .. Len(intents) : executions'[i] \in {executions[i], "PENDING"}
  <2>1. "PENDING" \in Imports!ExecutionState  BY DEF Imports!ExecutionState
  <2>2. executions \in Seq(Imports!ExecutionState) /\ Len(executions) = Len(intents)
    BY <1>1 DEF TablesTyped
  <2> QED  BY <1>2, <2>1, <2>2
<1>4. \A i \in 1 .. Len(intents) :
        executions'[i] \in {"RECEIPT", "SUCCEEDED"} => Imports!StagedOf(i) # {}
  BY <1>3 DEF ImportInv, Imports!OneDocumentPerIntent
<1>5. RequestAgrees'
  <2>1. import' \in VaultCall /\ import'.item = j
    BY <1>1, <1>2 DEF VaultCall, ImportSteps
  <2> QED  BY <1>1, <1>2, <2>1 DEF RequestAgrees, ExportSteps, ImportSteps
<1>6. blobs' \subseteq Contents /\ Imports!DocumentsKeepTheirBytes'
  BY <1>1 DEF TablesTyped, ImportInv, Imports!DocumentsKeepTheirBytes
<1> QED  BY <1>1, <1>3, <1>4, <1>5, <1>6, ImportMoves

LEMMA ReadStep ==
  ASSUME ImportInv, Imports!readFrozenCandidate
  PROVE  ImportInv'
<1> DEFINE j == import.item
<1>1. /\ import.at = "READ" /\ RequestAgrees /\ TablesTyped
      /\ UNCHANGED <<binding, files, held, ready, exports, edits, stops>>
      /\ UNCHANGED <<inspections, intents, staged, blobs, verdicts, finalized>>
  BY DEF Imports!readFrozenCandidate, ImportInv
<1>2. j \in 1 .. Len(intents) /\ import \in VaultCall /\ Imports!Reviewed(j) \in Contents
  BY <1>1, ImportIntents DEF RequestAgrees, ImportSteps
<1>3. \/ executions' = [executions EXCEPT ![j] = "REJECTED"] /\ import' = Imports!Idle
      \/ /\ UNCHANGED executions
         /\ import' = [import EXCEPT !.at = IF Imports!StagedOf(j) = {} THEN "STORE" ELSE "RECEIVE",
                                     !.found = Imports!Reviewed(j)]
  BY DEF Imports!readFrozenCandidate, Imports!Returns
<1>4. /\ executions' \in Seq(Imports!ExecutionState) /\ Len(executions') = Len(executions)
      /\ \A i \in 1 .. Len(intents) : executions'[i] \in {executions[i], "REJECTED"}
  <2>1. "REJECTED" \in Imports!ExecutionState  BY DEF Imports!ExecutionState
  <2>2. executions \in Seq(Imports!ExecutionState) /\ Len(executions) = Len(intents)
    BY <1>1 DEF TablesTyped
  <2> QED  BY <1>2, <1>3, <2>1, <2>2
<1>5. \A i \in 1 .. Len(intents) :
        executions'[i] \in {"RECEIPT", "SUCCEEDED"} => Imports!StagedOf(i) # {}
  BY <1>4 DEF ImportInv, Imports!OneDocumentPerIntent
<1>6. RequestAgrees'
  <2>1. CASE import' = Imports!Idle
    <3>1. import' \in VaultCall /\ import'.at = "IDLE"  BY <2>1 DEF VaultCall, Imports!Idle
    <3> QED  BY <3>1 DEF RequestAgrees, ExportSteps, ImportSteps
  <2>2. CASE import' = [import EXCEPT !.at = IF Imports!StagedOf(j) = {} THEN "STORE" ELSE "RECEIVE",
                                      !.found = Imports!Reviewed(j)]
    <3>1. PICK step \in {"STORE", "RECEIVE"} : step = IF Imports!StagedOf(j) = {} THEN "STORE" ELSE "RECEIVE"
      OBVIOUS
    <3>2. /\ import' \in VaultCall /\ import'.item = j /\ import'.at = step
          /\ import'.found = Imports!Reviewed(j)
      BY <1>2, <2>2, <3>1 DEF VaultCall, ImportSteps
    <3>3. /\ Imports!Reviewed(import.item)' = Imports!Reviewed(j)
          /\ Imports!StagedOf(import.item)' = Imports!StagedOf(j)
      BY <1>1, <3>2 DEF Imports!Reviewed, Imports!StagedOf
    <3> QED  BY <1>1, <1>2, <3>1, <3>2, <3>3 DEF RequestAgrees, ExportSteps, ImportSteps
  <2> QED  BY <1>3, <2>1, <2>2
<1>7. blobs' \subseteq Contents /\ Imports!DocumentsKeepTheirBytes'
  BY <1>1 DEF TablesTyped, ImportInv, Imports!DocumentsKeepTheirBytes
<1> QED  BY <1>1, <1>4, <1>5, <1>6, <1>7, ImportMoves

\* The bytes go to the store, or are taken back when nobody else has them.
LEMMA StoreStep ==
  ASSUME ImportInv, Imports!ingestStores \/ Imports!ingestFails
  PROVE  ImportInv'
<1> DEFINE j == import.item
<1>1. /\ import.at \in {"STORE", "INSERT", "CREATE"} /\ RequestAgrees /\ TablesTyped
      /\ UNCHANGED <<binding, files, held, ready, exports, edits, stops>>
      /\ UNCHANGED <<inspections, intents, executions, staged, verdicts, finalized>>
  BY DEF Imports!ingestStores, Imports!ingestFails, ImportInv
<1>2. /\ j \in 1 .. Len(intents) /\ import \in VaultCall /\ import.found \in Contents
      /\ import.found = Imports!Reviewed(j) /\ Imports!StagedOf(j) = {}
  BY <1>1, ImportIntents DEF RequestAgrees, ImportSteps
<1>3. CASE Imports!ingestStores
  <2>1. /\ blobs' = blobs \cup {import.found}
        /\ import' = [import EXCEPT !.at = IF import.found \in blobs THEN "INSERT" ELSE "CREATE"]
    BY <1>3 DEF Imports!ingestStores
  <2>2. PICK step \in {"INSERT", "CREATE"} : import' = [import EXCEPT !.at = step]
    BY <2>1
  <2>3. /\ import' \in VaultCall /\ import'.item = j /\ import'.at = step
        /\ import'.found = import.found
    BY <1>2, <2>2 DEF VaultCall, ImportSteps
  <2>4. /\ Imports!Reviewed(import.item)' = Imports!Reviewed(j)
        /\ Imports!StagedOf(import.item)' = Imports!StagedOf(j)
    BY <1>1, <2>3 DEF Imports!Reviewed, Imports!StagedOf
  <2>5. RequestAgrees'
    BY <1>1, <1>2, <2>1, <2>3, <2>4 DEF RequestAgrees, ExportSteps, ImportSteps
  <2>6. blobs' \subseteq Contents /\ Imports!DocumentsKeepTheirBytes'
    BY <1>1, <1>2, <2>1 DEF TablesTyped, ImportInv, Imports!DocumentsKeepTheirBytes
  <2>7. /\ executions' \in Seq(Imports!ExecutionState) /\ Len(executions') = Len(executions)
        /\ \A i \in 1 .. Len(intents) :
             executions'[i] \in {"RECEIPT", "SUCCEEDED"} => Imports!StagedOf(i) # {}
    BY <1>1 DEF TablesTyped, ImportInv, Imports!OneDocumentPerIntent
  <2> QED  BY <1>1, <2>5, <2>6, <2>7, ImportMoves
<1>4. CASE Imports!ingestFails
  <2>1. /\ import' = Imports!Idle
        /\ \/ UNCHANGED blobs
           \/ ~Imports!isContentReferenced(import.found) /\ blobs' = blobs \ {import.found}
    BY <1>4 DEF Imports!ingestFails, Imports!Returns
  <2>2. import' \in VaultCall /\ import'.at = "IDLE"  BY <2>1 DEF VaultCall, Imports!Idle
  <2>3. RequestAgrees'
    BY <2>2 DEF RequestAgrees, ExportSteps, ImportSteps
  <2>4. blobs' \subseteq Contents /\ Imports!DocumentsKeepTheirBytes'
    BY <1>1, <2>1
       DEF TablesTyped, ImportInv, Imports!DocumentsKeepTheirBytes, Imports!isContentReferenced
  <2>5. /\ executions' \in Seq(Imports!ExecutionState) /\ Len(executions') = Len(executions)
        /\ \A i \in 1 .. Len(intents) :
             executions'[i] \in {"RECEIPT", "SUCCEEDED"} => Imports!StagedOf(i) # {}
    BY <1>1 DEF TablesTyped, ImportInv, Imports!OneDocumentPerIntent
  <2> QED  BY <1>1, <2>3, <2>4, <2>5, ImportMoves
<1> QED  BY <1>3, <1>4

\* The receipt of a document that is there, and the end of an execution.
LEMMA ReceiptStep ==
  ASSUME ImportInv, Imports!recordStagingReceipt \/ Imports!finalizeExecution
  PROVE  ImportInv'
<1> DEFINE j == import.item
<1>1. /\ import.at \in {"RECEIVE", "CLOSE"} /\ RequestAgrees /\ TablesTyped
      /\ UNCHANGED <<binding, files, held, ready, exports, edits, stops>>
      /\ UNCHANGED <<inspections, intents, staged, blobs, verdicts, finalized>>
  BY DEF Imports!recordStagingReceipt, Imports!finalizeExecution, ImportInv
<1>2. /\ j \in 1 .. Len(intents) /\ j \in Nat /\ Imports!StagedOf(j) # {}
  BY <1>1 DEF RequestAgrees, ImportSteps, ImportInv, Imports!OneDocumentPerIntent
<1>3. \/ /\ executions' = [executions EXCEPT ![j] = "RECEIPT"]
         /\ import' = [at |-> "CLOSE", item |-> j, found |-> "NONE"]
      \/ /\ executions' = [executions EXCEPT ![j] = "SUCCEEDED"] /\ import' = Imports!Idle
  BY DEF Imports!recordStagingReceipt, Imports!finalizeExecution, Imports!Goes, Imports!Returns
<1>4. /\ executions' \in Seq(Imports!ExecutionState) /\ Len(executions') = Len(executions)
      /\ \A i \in 1 .. Len(intents) : i # j => executions'[i] = executions[i]
  <2>1. {"RECEIPT", "SUCCEEDED"} \subseteq Imports!ExecutionState  BY DEF Imports!ExecutionState
  <2>2. executions \in Seq(Imports!ExecutionState) /\ Len(executions) = Len(intents)
    BY <1>1 DEF TablesTyped
  <2> QED  BY <1>2, <1>3, <2>1, <2>2
<1>5. \A i \in 1 .. Len(intents) :
        executions'[i] \in {"RECEIPT", "SUCCEEDED"} => Imports!StagedOf(i) # {}
  BY <1>2, <1>4 DEF ImportInv, Imports!OneDocumentPerIntent
<1>6. RequestAgrees'
  <2>1. CASE import' = Imports!Idle
    <3>1. import' \in VaultCall /\ import'.at = "IDLE"  BY <2>1 DEF VaultCall, Imports!Idle
    <3> QED  BY <3>1 DEF RequestAgrees, ExportSteps, ImportSteps
  <2>2. CASE /\ executions' = [executions EXCEPT ![j] = "RECEIPT"]
             /\ import' = [at |-> "CLOSE", item |-> j, found |-> "NONE"]
    <3>1. import' \in VaultCall /\ import'.at = "CLOSE" /\ import'.item = j
      BY <1>2, <2>2 DEF VaultCall, ImportSteps
    <3>2. executions'[j] = "RECEIPT"
      BY <1>1, <1>2, <2>2 DEF TablesTyped
    <3> QED  BY <1>1, <1>2, <3>1, <3>2 DEF RequestAgrees, ExportSteps, ImportSteps
  <2> QED  BY <1>3, <2>1, <2>2
<1>7. blobs' \subseteq Contents /\ Imports!DocumentsKeepTheirBytes'
  BY <1>1 DEF TablesTyped, ImportInv, Imports!DocumentsKeepTheirBytes
<1> QED  BY <1>1, <1>4, <1>5, <1>6, <1>7, ImportMoves

\* The document is added with the reviewed bytes, and is its intent's first.
LEMMA InsertStep ==
  ASSUME ImportInv, Imports!ingestInserts
  PROVE  ImportInv'
<1> DEFINE j == import.item
           new == [intent |-> j, content |-> import.found]
           Document == [intent : Nat, content : Contents]
           n == Len(staged)
<1>1. /\ import.at \in {"INSERT", "CREATE"} /\ RequestAgrees /\ TablesTyped
      /\ UNCHANGED <<binding, files, held, ready, exports, edits, stops>>
      /\ UNCHANGED <<inspections, intents, executions, blobs, verdicts, finalized>>
      /\ staged' = Append(staged, new) /\ import' = [import EXCEPT !.at = "RECEIVE"]
  BY DEF Imports!ingestInserts, ImportInv
<1>2. /\ j \in 1 .. Len(intents) /\ j \in Nat /\ import \in VaultCall /\ import.found \in Contents
      /\ import.found = Imports!Reviewed(j) /\ Imports!StagedOf(j) = {} /\ import.found \in blobs
      /\ <<Imports!Source(j), Imports!Reviewed(j)>> \in held
  BY <1>1, ImportIntents DEF RequestAgrees, ImportSteps
<1>3. new \in Document /\ new.intent = j /\ new.content = import.found
  BY <1>2
<1>4. staged \in Seq(Document)  BY <1>1 DEF TablesTyped
<1> HIDE DEF new, Document, n
<1>5. /\ n \in Nat /\ n = Len(staged) /\ staged' \in Seq(Document)
      /\ Len(staged') = n + 1 /\ staged'[n + 1] = new
      /\ \A k \in 1 .. n : staged'[k] = staged[k]
  BY <1>1, <1>3, <1>4 DEF n
<1>6. /\ \A k \in 1 .. Len(staged') : k \in 1 .. n \/ k = n + 1
      /\ \A k \in 1 .. n : k \in 1 .. Len(staged')
      /\ n + 1 \in 1 .. Len(staged')
  BY <1>5
<1>7. VaultTyped' /\ FilesAreHeld' /\ ReviewsAreHeld'
  BY <1>1 DEF ImportInv, VaultTyped, FilesAreHeld, ReviewsAreHeld
<1>8. TablesTyped'
  <2>1. staged' \in Seq([intent : Nat, content : Contents])  BY <1>5 DEF Document
  <2>2. \A k \in 1 .. Len(staged') : staged'[k].intent \in 1 .. Len(intents)
    BY <1>1, <1>2, <1>3, <1>5, <1>6 DEF TablesTyped
  <2> QED  BY <1>1, <1>5, <1>6, <2>1, <2>2 DEF TablesTyped
<1>9. Imports!ImportedAsReviewed'
  <2>1. \A i : Imports!Reviewed(i)' = Imports!Reviewed(i) /\ Imports!Source(i)' = Imports!Source(i)
    BY <1>1 DEF Imports!Reviewed, Imports!Source
  <2> QED
    BY <1>1, <1>2, <1>3, <1>5, <1>6, <2>1 DEF ImportInv, Imports!ImportedAsReviewed
<1>10. \A i \in 1 .. Len(intents), k \in 1 .. Len(staged') :
         k \in Imports!StagedOf(i)' <=> k \in Imports!StagedOf(i) \/ (k = n + 1 /\ i = j)
  BY <1>3, <1>5, <1>6 DEF Imports!StagedOf
<1>11. \A i \in 1 .. Len(intents) :
         /\ Imports!StagedOf(i)' \subseteq 1 .. Len(staged')
         /\ Imports!StagedOf(i) \subseteq 1 .. Len(staged')
  BY <1>5, <1>6 DEF Imports!StagedOf
<1>12. Imports!OneDocumentPerIntent'
  <2>1. ASSUME NEW i \in 1 .. Len(intents)
        PROVE  /\ \A k, l \in Imports!StagedOf(i)' : k = l
               /\ executions[i] \in {"RECEIPT", "SUCCEEDED"} => Imports!StagedOf(i)' # {}
    <3>1. CASE i = j  BY <1>2, <1>6, <1>10, <1>11, <3>1
    <3>2. CASE i # j  BY <1>10, <1>11, <3>2 DEF ImportInv, Imports!OneDocumentPerIntent
    <3> QED  BY <3>1, <3>2
  <2> QED  BY <1>1, <2>1 DEF Imports!OneDocumentPerIntent
<1>13. Imports!DocumentsKeepTheirBytes'
  BY <1>1, <1>2, <1>3, <1>5, <1>6 DEF ImportInv, Imports!DocumentsKeepTheirBytes
<1>14. RequestAgrees'
  <2>1. import' \in VaultCall /\ import'.at = "RECEIVE" /\ import'.item = j
    BY <1>1, <1>2 DEF VaultCall, ImportSteps
  <2>2. Imports!StagedOf(import.item)' # {}
    BY <1>3, <1>5, <1>6, <2>1 DEF Imports!StagedOf
  <2> QED  BY <1>1, <1>2, <2>1, <2>2 DEF RequestAgrees, ExportSteps, ImportSteps
<1> QED  BY <1>7, <1>8, <1>9, <1>12, <1>13, <1>14 DEF ImportInv

\* An inspection sees what is there now.
LEMMA InspectStep ==
  ASSUME Imports!VaultAssumption, Imports!ImportAssumption, ImportInv, Imports!inspect
  PROVE  ImportInv'
<1> DEFINE new == [root |-> binding.root, revision |-> binding.revision,
                   found |-> [t \in Targets |-> Imports!Classify(t)]]
           n == Len(inspections)
<1>1. /\ UNCHANGED <<binding, files, held, ready, exports, import, edits, stops>>
      /\ UNCHANGED <<intents, executions, staged, blobs, verdicts, finalized>>
      /\ import.at = "IDLE" /\ n < MaxInspections /\ binding.status # "NONE"
      /\ inspections' = Append(inspections, new)
      /\ TablesTyped /\ VaultTyped
  BY DEF Imports!inspect, Imports!Resting, Imports!exportVars, ImportInv
<1>2. ASSUME NEW t \in Targets
      PROVE  LET f == [root |-> binding.root, target |-> t]
             IN  /\ f \in Imports!Path
                 /\ Imports!Classify(t).content = files[f]
                 /\ Imports!Classify(t) \in [class : Imports!Class, content : Contents \cup {None}]
                 /\ Imports!Classify(t).class = "IMPORT_CANDIDATE" => files[f] # None
  <2> DEFINE f == [root |-> binding.root, target |-> t]
  <2>1. f \in Imports!Path /\ files[f] \in Contents \cup {None}
    BY <1>1 DEF VaultTyped, Imports!Path
  <2>2. \E c \in Imports!Class : /\ Imports!Classify(t) = [class |-> c, content |-> files[f]]
                                 /\ c = "IMPORT_CANDIDATE" => files[f] # None
    BY DEF Imports!Classify, Imports!Class
  <2> QED  BY <2>1, <2>2
<1>3. new \in Imports!Inspection
  BY <1>1, <1>2 DEF VaultTyped, Imports!Inspection
<1>4. \A t \in Targets : new.found[t] = Imports!Classify(t) /\ new.root = binding.root
  OBVIOUS
<1>5. inspections \in Seq(Imports!Inspection)  BY <1>1 DEF TablesTyped
<1> HIDE DEF new, n
<1>6. /\ n \in Nat /\ n = Len(inspections) /\ inspections' \in Seq(Imports!Inspection)
      /\ Len(inspections') = n + 1 /\ inspections'[n + 1] = new
      /\ \A m \in 1 .. n : inspections'[m] = inspections[m]
  BY <1>1, <1>3, <1>5 DEF n
<1>7. n + 1 <= MaxInspections
  BY <1>1, <1>6 DEF Imports!ImportAssumption
<1>8. \A j \in 1 .. Len(intents) :
        /\ intents[j].inspection \in 1 .. n
        /\ inspections'[intents[j].inspection] = inspections[intents[j].inspection]
  BY <1>6, ImportIntents
<1>9. \A j \in 1 .. Len(intents) :
        Imports!Reviewed(j)' = Imports!Reviewed(j) /\ Imports!Source(j)' = Imports!Source(j)
  BY <1>1, <1>8 DEF Imports!Reviewed, Imports!Source
<1>10. VaultTyped' /\ FilesAreHeld'
  BY <1>1 DEF ImportInv, VaultTyped, FilesAreHeld
<1>11. TablesTyped'
  <2>1. \A j \in 1 .. Len(intents) : intents[j].inspection <= n + 1
    BY <1>6, <1>8
  <2> QED  BY <1>1, <1>6, <1>7, <2>1 DEF TablesTyped
<1>12. ReviewsAreHeld'
  <2>1. ASSUME NEW t \in Targets
        PROVE  /\ new.found[t].content # None =>
                    <<[root |-> new.root, target |-> t], new.found[t].content>> \in held
               /\ new.found[t].class = "IMPORT_CANDIDATE" => new.found[t].content # None
    BY <1>2, <1>4 DEF ImportInv, FilesAreHeld
  <2>2. \A m \in 1 .. n + 1 : m \in 1 .. n \/ m = n + 1
    BY <1>6
  <2>3. \A m \in 1 .. Len(inspections'), t \in Targets :
          /\ inspections'[m].found[t].content # None =>
               <<[root |-> inspections'[m].root, target |-> t], inspections'[m].found[t].content>> \in held
          /\ inspections'[m].found[t].class = "IMPORT_CANDIDATE" =>
               inspections'[m].found[t].content # None
    BY <1>6, <2>1, <2>2 DEF ImportInv, ReviewsAreHeld
  <2> QED  BY <1>1, <1>8, <2>3 DEF ImportInv, ReviewsAreHeld
<1>13. Imports!ImportedAsReviewed'
  <2>1. \A k \in 1 .. Len(staged) : staged[k].intent \in 1 .. Len(intents)
    BY <1>1 DEF TablesTyped
  <2> QED  BY <1>1, <1>9, <2>1 DEF ImportInv, Imports!ImportedAsReviewed
<1>14. Imports!OneDocumentPerIntent' /\ Imports!DocumentsKeepTheirBytes'
  BY <1>1
     DEF ImportInv, Imports!OneDocumentPerIntent, Imports!StagedOf, Imports!DocumentsKeepTheirBytes
<1>15. RequestAgrees'
  BY <1>1 DEF ImportInv, RequestAgrees, ExportSteps, ImportSteps
<1> QED  BY <1>10, <1>11, <1>12, <1>13, <1>14, <1>15 DEF ImportInv

\* A review adds an intent without an execution and without a document.
LEMMA ReviewStep ==
  ASSUME Imports!ImportAssumption, ImportInv,
         NEW n \in 1 .. Len(inspections), NEW t \in Targets, Imports!review(n, t)
  PROVE  ImportInv'
<1> DEFINE new == [inspection |-> n, target |-> t]
           m == Len(intents)
<1>1. /\ UNCHANGED <<binding, files, held, ready, exports, import, edits, stops>>
      /\ UNCHANGED <<inspections, staged, blobs, verdicts, finalized>>
      /\ import.at = "IDLE" /\ inspections[n].found[t].class = "IMPORT_CANDIDATE"
      /\ intents' = Append(intents, new) /\ executions' = Append(executions, "NONE")
      /\ TablesTyped
  BY DEF Imports!review, Imports!Resting, Imports!exportVars, ImportInv
<1>2. new \in Imports!Intent /\ new.inspection = n /\ new.target = t
  <2>1. n \in 1 .. MaxInspections
    BY <1>1 DEF TablesTyped, Imports!ImportAssumption
  <2> QED  BY <2>1 DEF Imports!Intent
<1>3. /\ intents \in Seq(Imports!Intent) /\ executions \in Seq(Imports!ExecutionState)
      /\ Len(executions) = Len(intents) /\ "NONE" \in Imports!ExecutionState
  BY <1>1 DEF TablesTyped, Imports!ExecutionState
<1> HIDE DEF new, m
<1>4. /\ m \in Nat /\ m = Len(intents) /\ intents' \in Seq(Imports!Intent)
      /\ Len(intents') = m + 1 /\ intents'[m + 1] = new
      /\ \A j \in 1 .. m : intents'[j] = intents[j]
  BY <1>1, <1>2, <1>3 DEF m
<1>5. /\ executions' \in Seq(Imports!ExecutionState) /\ Len(executions') = m + 1
      /\ executions'[m + 1] = "NONE" /\ \A j \in 1 .. m : executions'[j] = executions[j]
  BY <1>1, <1>3, <1>4
<1>6. \A j \in 1 .. m + 1 : j \in 1 .. m \/ j = m + 1
  BY <1>4
<1>7. \A j \in 1 .. m :
        Imports!Reviewed(j)' = Imports!Reviewed(j) /\ Imports!Source(j)' = Imports!Source(j)
  BY <1>1, <1>4 DEF Imports!Reviewed, Imports!Source
<1>8. \A k \in 1 .. Len(staged) : staged[k].intent \in 1 .. m /\ staged[k].intent \in 1 .. m + 1
  BY <1>1, <1>4 DEF TablesTyped
<1>9. VaultTyped' /\ FilesAreHeld'
  BY <1>1 DEF ImportInv, VaultTyped, FilesAreHeld
<1>10. TablesTyped'
  <2>1. \A j \in 1 .. Len(intents') : intents'[j].inspection <= Len(inspections)
    BY <1>1, <1>2, <1>4, <1>6 DEF TablesTyped
  <2> QED  BY <1>1, <1>4, <1>5, <1>8, <2>1 DEF TablesTyped
<1>11. ReviewsAreHeld'
  <2>1. \A j \in 1 .. Len(intents') :
          inspections[intents'[j].inspection].found[intents'[j].target].class = "IMPORT_CANDIDATE"
    BY <1>1, <1>2, <1>4, <1>6 DEF ImportInv, ReviewsAreHeld
  <2> QED  BY <1>1, <2>1 DEF ImportInv, ReviewsAreHeld
<1>12. Imports!ImportedAsReviewed'
  BY <1>1, <1>7, <1>8 DEF ImportInv, Imports!ImportedAsReviewed
<1>13. Imports!OneDocumentPerIntent'
  <2>1. \A j : Imports!StagedOf(j)' = Imports!StagedOf(j)
    BY <1>1 DEF Imports!StagedOf
  <2>2. \A j \in 1 .. m + 1 : \A k, l \in Imports!StagedOf(j) : k = l
    <3>1. Imports!StagedOf(m + 1) = {}
      BY <1>4, <1>8 DEF Imports!StagedOf
    <3> QED  BY <1>4, <1>6, <3>1 DEF ImportInv, Imports!OneDocumentPerIntent
  <2>3. \A j \in 1 .. m + 1 : executions'[j] \in {"RECEIPT", "SUCCEEDED"} => Imports!StagedOf(j) # {}
    BY <1>4, <1>5, <1>6 DEF ImportInv, Imports!OneDocumentPerIntent
  <2> QED  BY <1>4, <2>1, <2>2, <2>3 DEF Imports!OneDocumentPerIntent
<1>14. Imports!DocumentsKeepTheirBytes'
  BY <1>1 DEF ImportInv, Imports!DocumentsKeepTheirBytes
<1>15. RequestAgrees'
  BY <1>1 DEF ImportInv, RequestAgrees, ExportSteps, ImportSteps
<1> QED  BY <1>9, <1>10, <1>11, <1>12, <1>13, <1>14, <1>15 DEF ImportInv

\* A verdict and a finalization are about a document that is there.
LEMMA ImportVerdictStep ==
  ASSUME ImportInv, NEW k \in 1 .. Len(staged), Imports!verify(k) \/ Imports!finalizeStaging(k)
  PROVE  ImportInv'
<1>1. /\ UNCHANGED <<binding, files, held, ready, exports, import, edits, stops>>
      /\ UNCHANGED <<inspections, intents, executions, staged, blobs>> /\ TablesTyped
  BY DEF Imports!verify, Imports!finalizeStaging, Imports!exportVars, ImportInv
<1>2. \/ DOMAIN verdicts' = DOMAIN verdicts \cup {k} /\ UNCHANGED finalized
      \/ /\ k \in DOMAIN verdicts /\ UNCHANGED verdicts
         /\ DOMAIN finalized' = DOMAIN finalized \cup {k}
  BY DEF Imports!verify, Imports!finalizeStaging, Imports!Extended
<1>3. TablesTyped'
  BY <1>1, <1>2 DEF TablesTyped
<1>4. VaultTyped' /\ FilesAreHeld' /\ ReviewsAreHeld' /\ Imports!DocumentsKeepTheirBytes'
  BY <1>1
     DEF ImportInv, VaultTyped, FilesAreHeld, ReviewsAreHeld, Imports!DocumentsKeepTheirBytes
<1>5. Imports!ImportedAsReviewed'
  BY <1>1 DEF ImportInv, Imports!ImportedAsReviewed, Imports!Reviewed, Imports!Source
<1>6. Imports!OneDocumentPerIntent'
  <2>1. \A j : Imports!StagedOf(j)' = Imports!StagedOf(j)  BY <1>1 DEF Imports!StagedOf
  <2> QED  BY <1>1, <2>1 DEF ImportInv, Imports!OneDocumentPerIntent
<1>7. RequestAgrees'
  BY <1>1 DEF ImportInv, RequestAgrees, Imports!Reviewed, Imports!StagedOf
<1> QED  BY <1>3, <1>4, <1>5, <1>6, <1>7 DEF ImportInv

LEMMA ImportInvStep ==
  ASSUME Imports!VaultAssumption, Imports!ImportAssumption, ImportInv,
         [Imports!Next]_(Imports!vars)
  PROVE  ImportInv'
<1>1. CASE (Imports!ExportNext \/ Imports!Crash) /\ UNCHANGED Imports!importVars
  BY <1>1, VaultSubmitStep, ExportMoves, ExportRecords, VaultAround DEF Imports!ExportNext
<1>2. CASE Imports!ImportNext
  BY <1>2, InspectStep, ReviewStep, ExecuteStep, ReadStep, StoreStep, InsertStep, ReceiptStep,
     ImportVerdictStep DEF Imports!ImportNext
<1>3. CASE UNCHANGED Imports!vars
  <2>1. /\ UNCHANGED <<binding, files, held, ready, exports, import, edits, stops>>
        /\ UNCHANGED Imports!importVars
    BY <1>3 DEF Imports!vars, Imports!exportVars
  <2>2. VaultTyped' /\ FilesAreHeld'
    BY <2>1 DEF ImportInv, VaultTyped, FilesAreHeld
  <2>3. RequestAgrees'
    BY <2>1, ExportRequest DEF ImportInv, VaultTyped
  <2> QED  BY <2>1, <2>2, <2>3, TablesStay
<1> QED  BY <1>1, <1>2, <1>3 DEF Imports!Next

\* However the user edits between a review, a read and an import, and wherever the
\* process ends or an insert fails, for any files, documents and bindings: what is
\* imported was reviewed, an intent has one document, a succeeded execution has it,
\* and the store keeps the bytes of every document.
THEOREM ImportsAreReviewedAndKept ==
  ASSUME Imports!VaultAssumption, Imports!ImportAssumption
  PROVE  Imports!Spec => []ImportedOnceAsReviewed
<1>1. Imports!Init => ImportInv  BY ImportInvInit
<1>2. ImportInv /\ [Imports!Next]_(Imports!vars) => ImportInv'  BY ImportInvStep
<1>3. ImportInv => ImportedOnceAsReviewed  BY ImportInvIsEnough
<1> QED  BY <1>1, <1>2, <1>3, PTL DEF Imports!Spec
=============================================================================

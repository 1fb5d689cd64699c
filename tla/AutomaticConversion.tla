-------------------------- MODULE AutomaticConversion --------------------------
(***************************************************************************)
(* The handoff from a registered raw artifact to a conversion run and its  *)
(* recovery: raw-artifact-auto-conversion.ts, the authorization it calls   *)
(* (raw-artifact-conversion-authorization.ts) and the operations of        *)
(* operators it races with.                                                *)
(*                                                                         *)
(* A handoff reads the artifact and chooses a profile, authorizes the      *)
(* artifact (one UPDATE) and dispatches a run (one transaction).  Within a *)
(* process nothing comes between these steps, but the process may die and  *)
(* another process on the same database may take steps of its own.         *)
(***************************************************************************)
EXTENDS Integers, Sequences, FiniteSets

CONSTANTS
  Artifacts,
  Sources,
  Source,       \* Artifact -> its source
  Profiles,
  Precedence,   \* Profile -> its place in the order of choice, the first is 1
  Accepts,      \* Profile -> the artifacts its source, kinds and MIME types take
  Unreadable,   \* artifacts whose stored bytes fail the integrity check
  Processes,
  Limit,        \* candidates of a recovery scan (25 in the code)
  MaxEdits,     \* bound on the changes operators make
  MaxStops      \* bound on the crashes

AutomaticAssumption ==
  /\ Source \in [Artifacts -> Sources]
  /\ Precedence \in [Profiles -> Nat]
  /\ \A p, q \in Profiles: Precedence[p] = Precedence[q] => p = q
  /\ Accepts \in [Profiles -> SUBSET Artifacts]
  /\ Unreadable \subseteq Artifacts
  /\ Limit \in Nat \ {0} /\ MaxEdits \in Nat /\ MaxStops \in Nat

VARIABLES
  artifact,   \* Artifact -> its status and the profile that authorized it
  created,    \* the registered artifacts in the order of created_at
  profile,    \* Profile -> what it may be used for
  archived,   \* the archived sources
  runs,       \* the conversion runs
  process,    \* Process -> the handoffs it has to do and where it is
  edits, stops

vars == <<artifact, created, profile, archived, runs, process, edits, stops>>

ArtifactStatus == {"NONE", "REGISTERED", "READY_FOR_CONVERSION", "ARCHIVED"}

\* AUTO and ON are ACTIVE with and without autoConvert.
ProfileStatus == {"AUTO", "ON", "PAUSED", "ARCHIVED"}

Trigger == {"AUTO_PROFILE", "MANUAL"}
Run == [artifact: Artifacts, profile: Profiles, trigger: Trigger]

Nobody == "none"
Idle == [pc |-> "IDLE", todo |-> <<>>, profile |-> Nobody]
ProcessState ==
  [pc: {"IDLE", "NEXT", "CHOSEN", "AUTHORIZED"}, todo: Seq(Artifacts), profile: Profiles \cup {Nobody}]

Init ==
  /\ artifact = [a \in Artifacts |-> [status |-> "NONE", profile |-> Nobody]]
  /\ created = <<>>
  /\ profile \in [Profiles -> {"AUTO", "ON", "PAUSED"}]
  /\ archived = {}
  /\ runs = {}
  /\ process = [p \in Processes |-> Idle]
  /\ edits = 0
  /\ stops = 0

Active(q) == profile[q] \in {"AUTO", "ON"}
HasAutomaticRun(a) == \E r \in runs: r.artifact = a /\ r.trigger = "AUTO_PROFILE"

-----------------------------------------------------------------------------
(* Operators, and the retention that archives artifacts. *)

Edit == edits < MaxEdits /\ edits' = edits + 1

updateProfile(q, status) ==
  /\ Edit
  /\ profile[q] \notin {"ARCHIVED", status}
  /\ profile' = [profile EXCEPT ![q] = status]
  /\ UNCHANGED <<artifact, created, archived, runs, process, stops>>

archiveSource(s) ==
  /\ Edit
  /\ s \notin archived
  /\ archived' = archived \cup {s}
  /\ UNCHANGED <<artifact, created, profile, runs, process, stops>>

archiveRawArtifact(a) ==
  /\ Edit
  /\ artifact[a].status \in {"REGISTERED", "READY_FOR_CONVERSION"}
  /\ artifact' = [artifact EXCEPT ![a].status = "ARCHIVED"]
  /\ UNCHANGED <<created, profile, archived, runs, process, stops>>

\* The first of the profiles that accept an artifact.
First(S) == {q \in S: \A o \in S: Precedence[q] <= Precedence[o]}

\* An operator's authorization takes any active profile.
authorizeByHand(a, q) ==
  /\ Edit
  /\ artifact[a].status = "REGISTERED"
  /\ a \notin Unreadable
  /\ q \in First({o \in Profiles: Active(o) /\ a \in Accepts[o]})
  /\ artifact' = [artifact EXCEPT ![a] = [status |-> "READY_FOR_CONVERSION", profile |-> q]]
  /\ UNCHANGED <<created, profile, archived, runs, process, stops>>

dispatchByHand(a, q) ==
  /\ Edit
  /\ artifact[a].status = "READY_FOR_CONVERSION"
  /\ Active(q) /\ a \in Accepts[q]
  /\ runs' = runs \cup {[artifact |-> a, profile |-> q, trigger |-> "MANUAL"]}
  /\ UNCHANGED <<artifact, created, profile, archived, process, stops>>

-----------------------------------------------------------------------------
(* Where handoffs come from. *)

\* A finalized upload and its handoff.
RegisterArtifact(p, a) ==
  /\ process[p] = Idle
  /\ artifact[a].status = "NONE"
  /\ artifact' = [artifact EXCEPT ![a].status = "REGISTERED"]
  /\ created' = Append(created, a)
  /\ process' = [process EXCEPT ![p] = [pc |-> "NEXT", todo |-> <<a>>, profile |-> Nobody]]
  /\ UNCHANGED <<profile, archived, runs, edits, stops>>

OnlyRegistered(a) ==
  /\ ~HasAutomaticRun(a)
  /\ artifact[a].status = "REGISTERED" /\ \E q \in Profiles: profile[q] = "AUTO" /\ a \in Accepts[q]

Candidate(a) ==
  /\ ~HasAutomaticRun(a)
  /\ \/ artifact[a].status = "REGISTERED" /\ \E q \in Profiles: profile[q] = "AUTO" /\ a \in Accepts[q]
     \/ /\ artifact[a].status = "READY_FOR_CONVERSION"
        /\ profile[artifact[a].profile] = "AUTO"
        /\ a \in Accepts[artifact[a].profile]

\* The authorized first, then the oldest.
Ahead(a, b) ==
  IF artifact[a].status = artifact[b].status
  THEN \E i, j \in DOMAIN created: i < j /\ created[i] = a /\ created[j] = b
  ELSE artifact[a].status = "READY_FOR_CONVERSION"

\* The list a scan makes: candidates in that order, as many as the limit admits.
automaticConversionRecoveryCandidateIds ==
  LET candidates == {a \in Artifacts: Candidate(a)}
  IN  {ids \in UNION {[1 .. n -> candidates]: n \in 1 .. Limit}:
         /\ \A i, j \in DOMAIN ids: i < j => Ahead(ids[i], ids[j])
         /\ \A a \in candidates \ {ids[i]: i \in DOMAIN ids}:
              Limit \in DOMAIN ids /\ Ahead(ids[Limit], a)}

reconcileAutomaticConversions(p) ==
  /\ process[p] = Idle
  /\ \E ids \in automaticConversionRecoveryCandidateIds:
       process' = [process EXCEPT ![p] = [pc |-> "NEXT", todo |-> ids, profile |-> Nobody]]
  /\ UNCHANGED <<artifact, created, profile, archived, runs, edits, stops>>

-----------------------------------------------------------------------------
(* One handoff. *)

\* Process p leaves the artifact at the head of its list.
Leave(p) ==
  process' = [process EXCEPT
    ![p] = IF Len(@.todo) > 1 THEN [pc |-> "NEXT", todo |-> Tail(@.todo), profile |-> Nobody] ELSE Idle]

GoOn(p, pc, q) == process' = [process EXCEPT ![p].pc = pc, ![p].profile = q]

At(p, pc) == process[p].pc = pc

\* The one that authorized the artifact, if there is one, or the first.
compatibleAutomaticProfile(a) ==
  LET compatible == {q \in Profiles: profile[q] = "AUTO" /\ a \in Accepts[q]}
  IN  IF artifact[a].status = "READY_FOR_CONVERSION"
      THEN compatible \cap {artifact[a].profile}
      ELSE First(compatible)

assertAutomaticConversionAdmission(a) == Source[a] \notin archived

Chosen(a) ==
  IF artifact[a].status # "ARCHIVED" /\ assertAutomaticConversionAdmission(a)
  THEN compatibleAutomaticProfile(a) ELSE {}

Choose(p) ==
  LET a == process[p].todo[1]
  IN  /\ At(p, "NEXT")
      /\ \/ \E q \in Chosen(a): GoOn(p, "CHOSEN", q)
         \/ Chosen(a) = {} /\ Leave(p)
      /\ UNCHANGED <<artifact, created, profile, archived, runs, edits, stops>>

AuthorizesAgain(p) ==
  LET a == process[p].todo[1]
      q == process[p].profile
  IN  /\ At(p, "CHOSEN")
      /\ IF Active(q) /\ artifact[a].status # "ARCHIVED" /\ a \notin Unreadable
         THEN /\ artifact' = [artifact EXCEPT ![a] = [status |-> "READY_FOR_CONVERSION", profile |-> q]]
              /\ GoOn(p, "AUTHORIZED", q)
         ELSE UNCHANGED artifact /\ Leave(p)
      /\ UNCHANGED <<created, profile, archived, runs, edits, stops>>

\* The artifact and the profile are read again, and the UPDATE names the status read.
authorizeRawArtifactForConversion(p) ==
  LET a == process[p].todo[1]
      q == process[p].profile
      replayed == artifact[a] = [status |-> "READY_FOR_CONVERSION", profile |-> q]
      readable == artifact[a].status = "REGISTERED" /\ a \notin Unreadable
  IN  /\ At(p, "CHOSEN")
      /\ IF Active(q) /\ (replayed \/ readable)
         THEN /\ artifact' = [artifact EXCEPT ![a] = [status |-> "READY_FOR_CONVERSION", profile |-> q]]
              /\ GoOn(p, "AUTHORIZED", q)
         ELSE UNCHANGED artifact /\ Leave(p)
      /\ UNCHANGED <<created, profile, archived, runs, edits, stops>>

DispatchesFirstProfile(p) ==
  LET a == process[p].todo[1]
      q == process[p].profile
  IN  /\ At(p, "AUTHORIZED")
      /\ runs' = IF artifact[a].status = "READY_FOR_CONVERSION" /\ Active(q)
                 THEN runs \cup {[artifact |-> a, profile |-> o, trigger |-> "AUTO_PROFILE"]:
                                    o \in First({o \in Profiles: Active(o) /\ a \in Accepts[o]})}
                 ELSE runs
      /\ Leave(p)
      /\ UNCHANGED <<artifact, created, profile, archived, edits, stops>>

\* The key names the artifact and the profile, so a second dispatch finds the first.
dispatchAutomatic(p) ==
  LET a == process[p].todo[1]
      q == process[p].profile
  IN  /\ At(p, "AUTHORIZED")
      /\ runs' = IF artifact[a].status = "READY_FOR_CONVERSION" /\ Active(q)
                 THEN runs \cup {[artifact |-> a, profile |-> q, trigger |-> "AUTO_PROFILE"]}
                 ELSE runs
      /\ Leave(p)
      /\ UNCHANGED <<artifact, created, profile, archived, edits, stops>>

Stop(p) ==
  /\ process[p] # Idle
  /\ stops < MaxStops
  /\ stops' = stops + 1
  /\ process' = [process EXCEPT ![p] = Idle]
  /\ UNCHANGED <<artifact, created, profile, archived, runs, edits>>

-----------------------------------------------------------------------------

Handoff(p) == Choose(p) \/ authorizeRawArtifactForConversion(p) \/ dispatchAutomatic(p)

Next ==
  \/ \E p \in Processes:
       \/ \E a \in Artifacts: RegisterArtifact(p, a)
       \/ reconcileAutomaticConversions(p)
       \/ Handoff(p)
       \/ Stop(p)
  \/ \E q \in Profiles, status \in ProfileStatus: updateProfile(q, status)
  \/ \E s \in Sources: archiveSource(s)
  \/ \E a \in Artifacts:
       \/ archiveRawArtifact(a)
       \/ \E q \in Profiles: authorizeByHand(a, q) \/ dispatchByHand(a, q)

Spec == Init /\ [][Next]_vars

(* Every claim of a worker scans, and a handler that is entered ends.      *)
Fairness ==
  \A p \in Processes: WF_vars(Handoff(p)) /\ SF_vars(reconcileAutomaticConversions(p))

FairSpec == Spec /\ Fairness

-----------------------------------------------------------------------------
(* Properties. *)

TypeOK ==
  /\ artifact \in [Artifacts -> [status: ArtifactStatus, profile: Profiles \cup {Nobody}]]
  /\ \A a \in Artifacts: artifact[a].status = "READY_FOR_CONVERSION" => artifact[a].profile \in Profiles
  /\ created \in Seq(Artifacts)
  /\ profile \in [Profiles -> ProfileStatus]
  /\ archived \subseteq Sources
  /\ runs \subseteq Run
  /\ process \in [Processes -> ProcessState]
  /\ edits \in 0 .. MaxEdits
  /\ stops \in 0 .. MaxStops

\* However many processes discover an artifact, and whatever profiles change in
\* between, it has one automatic run at most and that run is the one the
\* artifact was authorized for (raw-artifact-auto-conversion.ts
\* automaticIdempotencyKey, compatibleAutomaticProfile).
OneAutomaticRun ==
  \A r, o \in runs:
    r.trigger = "AUTO_PROFILE" =>
      /\ r.profile = artifact[r.artifact].profile
      /\ o.trigger = "AUTO_PROFILE" /\ o.artifact = r.artifact => o = r

\* READY_FOR_CONVERSION is sticky: no step exchanges the profile that authorized
\* an artifact, and none takes the authorization back
\* (raw-artifact-conversion-authorization.ts).
AuthorizationIsSticky ==
  \A a \in Artifacts:
    artifact[a].profile # Nobody => /\ artifact'[a].profile = artifact[a].profile
                                    /\ artifact'[a].status # "REGISTERED"

\* An artifact a handoff could convert.
Recoverable(a) ==
  /\ ~HasAutomaticRun(a)
  /\ Source[a] \notin archived
  /\ \/ /\ artifact[a].status = "REGISTERED" /\ a \notin Unreadable
        /\ \E q \in Profiles: profile[q] = "AUTO" /\ a \in Accepts[q]
     \/ /\ artifact[a].status = "READY_FOR_CONVERSION"
        /\ profile[artifact[a].profile] = "AUTO"
        /\ a \in Accepts[artifact[a].profile]

\* A lost handoff is made up for (docs/architecture/M10_AUTO_CONVERSION_RECOVERY.md:16
\* "M10 detects both states and safely replays the existing M9 handoff"): an
\* artifact that can be converted is, or something is done to it.
HandoffsRecover == \A a \in Artifacts: Recoverable(a) ~> ~Recoverable(a)
=============================================================================

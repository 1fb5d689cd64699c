------------------------------ MODULE LivePilot ------------------------------
(***************************************************************************)
(* The resumable live pilot (apps/worker/src/adk-live-pilot-resume.ts,      *)
(* run-adk-live-pilot.ts): one process walks a fixed list of                *)
(* assignment/provider cells, pays for one provider call per cell, stores   *)
(* the answer as two raw artifacts and records the cell in a checkpoint     *)
(* file.  The process may die anywhere and be started again; only the       *)
(* checkpoint and the artifacts survive it.                                 *)
(*                                                                         *)
(* The adapters throw the same kind of governed error whether a call was    *)
(* refused or was answered with something they cannot use.  An answer that  *)
(* is thrown away is paid for and leaves no evidence, and the pilot treats  *)
(* its cell as one that was refused.  An HTTP error status counts as a      *)
(* refusal.                                                                 *)
(***************************************************************************)
EXTENDS Naturals, FiniteSets

CONSTANTS CellCount,   \* assignments times providers: 6 in the code
          MaxDeaths,   \* bound on process deaths
          MaxRejections \* bound on the answers thrown away per cell

PilotAssumption == CellCount \in Nat \ {0} /\ MaxDeaths \in Nat /\ MaxRejections \in Nat

\* The cells in the order of the plan.
Cells == 1 .. CellCount

VARIABLES durable,    \* checkpoint.cells
          inFlight,   \* checkpoint.inFlight, 0 if the field is absent
          pc,         \* where the process stands
          cell,       \* the cell its loop is at
          paid,       \* paid[c]: calls of c that were or may have been answered
          rejected,   \* rejected[c]: the answers among them the adapter threw away
          artifacts,  \* artifacts[c]: the answers registered for c
          accepted,   \* the authenticated execution was completed
          deaths      \* process deaths so far

checkpoint == <<durable, inFlight>>
vars == <<checkpoint, pc, cell, paid, rejected, artifacts, accepted, deaths>>

Init ==
    /\ durable = {}
    /\ inFlight = 0
    /\ pc = "stopped"
    /\ cell = 0
    /\ paid = [c \in Cells |-> 0]
    /\ rejected = [c \in Cells |-> 0]
    /\ artifacts = [c \in Cells |-> 0]
    /\ accepted = FALSE
    /\ deaths = 0

\* The first cell that is not durable, in the order of the plan.
Due(done) == {c \in Cells : c \notin done /\ \A d \in 1 .. (c - 1) : d \in done}

\* A start refuses a checkpoint with a cell in flight and verifies the
\* artifacts of every durable cell.
Start ==
    /\ pc = "stopped"
    /\ inFlight = 0
    /\ \A c \in durable : artifacts[c] > 0
    /\ pc' = "looping"
    /\ UNCHANGED <<checkpoint, cell, paid, rejected, artifacts, accepted, deaths>>

\* The next cell is written to the checkpoint before its provider is called.
BeginCell ==
    /\ pc = "looping"
    /\ \E c \in Due(durable) : cell' = c /\ inFlight' = c
    /\ pc' = "calling"
    /\ UNCHANGED <<durable, paid, rejected, artifacts, accepted, deaths>>

\* No adapter for the cell's provider: the result is returned as it is.
Unadapted ==
    /\ pc = "looping"
    /\ Due(durable) # {}
    /\ pc' = "stopped"
    /\ UNCHANGED <<checkpoint, cell, paid, rejected, artifacts, accepted, deaths>>

\* A governed error before there is an answer (no credential, a peak hour, an
\* HTTP error status): the cell is no longer in flight, and the run returns.
Refused ==
    /\ pc = "calling"
    /\ inFlight' = 0
    /\ pc' = "stopped"
    /\ UNCHANGED <<durable, cell, paid, rejected, artifacts, accepted, deaths>>

\* The answer is not JSON, has no text or is too large: a governed error as well,
\* so that the next start calls, and pays for, the cell again.
AnswerRejected ==
    /\ pc = "calling"
    /\ rejected[cell] < MaxRejections
    /\ paid' = [paid EXCEPT ![cell] = @ + 1]
    /\ rejected' = [rejected EXCEPT ![cell] = @ + 1]
    /\ inFlight' = 0
    /\ pc' = "stopped"
    /\ UNCHANGED <<durable, cell, artifacts, accepted, deaths>>

\* A timeout is taken for a refusal: the cell may be called again.
UncertainForgotten ==
    /\ pc = "calling"
    /\ paid' = [paid EXCEPT ![cell] = @ + 1]
    /\ inFlight' = 0
    /\ pc' = "stopped"
    /\ UNCHANGED <<durable, cell, rejected, artifacts, accepted, deaths>>

\* A timeout, a network error, an ungoverned error or an answer of another
\* lineage: the run throws and leaves the cell in flight.
Uncertain ==
    /\ pc = "calling"
    /\ paid' = [paid EXCEPT ![cell] = @ + 1]
    /\ pc' = "stopped"
    /\ UNCHANGED <<checkpoint, cell, rejected, artifacts, accepted, deaths>>

Answered ==
    /\ pc = "calling"
    /\ paid' = [paid EXCEPT ![cell] = @ + 1]
    /\ pc' = "storing"
    /\ UNCHANGED <<checkpoint, cell, rejected, artifacts, accepted, deaths>>

\* The cell is recorded as durable when its answer arrives.
PersistenceAssumed ==
    /\ pc = "storing"
    /\ artifacts' \in {artifacts, [artifacts EXCEPT ![cell] = @ + 1]}
    /\ durable' = durable \cup {cell}
    /\ inFlight' = 0
    /\ pc' = "stopped"
    /\ UNCHANGED <<cell, paid, rejected, accepted, deaths>>

\* persistAcquisition throws, possibly after it registered the answer, or
\* returns a lineage that does not match.
PersistenceUncertain ==
    /\ pc = "storing"
    /\ artifacts' \in {artifacts, [artifacts EXCEPT ![cell] = @ + 1]}
    /\ pc' = "stopped"
    /\ UNCHANGED <<checkpoint, cell, paid, rejected, accepted, deaths>>

Persisted ==
    /\ pc = "storing"
    /\ artifacts' = [artifacts EXCEPT ![cell] = @ + 1]
    /\ pc' = "recording"
    /\ UNCHANGED <<checkpoint, cell, paid, rejected, accepted, deaths>>

\* The cell is taken out of flight before it is recorded as durable.
RecordCellTwice ==
    /\ pc = "recording"
    /\ inFlight' = 0
    /\ durable' = IF inFlight = 0 THEN durable \cup {cell} ELSE durable
    /\ pc' = IF inFlight = 0 THEN "looping" ELSE "recording"
    /\ UNCHANGED <<cell, paid, rejected, artifacts, accepted, deaths>>

\* One rename of the checkpoint: the cell is durable and no longer in flight.
RecordCell ==
    /\ pc = "recording"
    /\ durable' = durable \cup {cell}
    /\ inFlight' = 0
    /\ pc' = "looping"
    /\ UNCHANGED <<cell, paid, rejected, artifacts, accepted, deaths>>

\* The execution is completed as soon as the loop ends.
AcceptPartial ==
    /\ pc = "looping"
    /\ accepted' = TRUE
    /\ pc' = "stopped"
    /\ UNCHANGED <<checkpoint, cell, paid, rejected, artifacts, deaths>>

\* With every cell durable the execution is verified and completed, under
\* idempotency keys made of the pilot's id.
Accept ==
    /\ pc = "looping"
    /\ Due(durable) = {}
    /\ accepted' = TRUE
    /\ pc' = "stopped"
    /\ UNCHANGED <<checkpoint, cell, paid, rejected, artifacts, deaths>>

\* The process dies; a call that was on its way may have been answered.
Die ==
    /\ deaths < MaxDeaths
    /\ pc # "stopped"
    /\ deaths' = deaths + 1
    /\ pc' = "stopped"
    /\ paid' \in {paid} \cup
                 (IF pc = "calling" THEN {[paid EXCEPT ![cell] = @ + 1]} ELSE {})
    /\ UNCHANGED <<checkpoint, cell, rejected, artifacts, accepted>>

Next == \/ Start \/ BeginCell \/ Unadapted \/ Refused \/ AnswerRejected \/ Uncertain
        \/ Answered \/ PersistenceUncertain \/ Persisted \/ RecordCell \/ Accept
        \/ Die

Spec == Init /\ [][Next]_vars

-----------------------------------------------------------------------------
TypeOK ==
    /\ durable \subseteq Cells
    /\ inFlight \in Cells \cup {0}
    /\ pc \in {"stopped", "looping", "calling", "storing", "recording"}
    /\ cell \in Cells \cup {0}
    /\ pc \in {"calling", "storing", "recording"} => cell \in Cells
    /\ paid \in [Cells -> Nat]
    /\ rejected \in [Cells -> Nat]
    /\ artifacts \in [Cells -> Nat]
    /\ accepted \in BOOLEAN
    /\ deaths \in 0 .. MaxDeaths

\* Wherever the process died and however often it was started again, a cell is
\* paid for a second time only after the adapter threw its answer away (the
\* governed errors of executeResumableAdkLivePilot): a cell with a payment that
\* did not end so is durable, or in flight, and the next start stops for
\* reconciliation.
PaymentsAccounted ==
    \A c \in Cells :
        /\ paid[c] <= 1 + rejected[c]
        /\ paid[c] > rejected[c] /\ c \notin durable => inFlight = c

\* The checkpoint never runs ahead of the evidence: the answer of a durable
\* cell is registered, once.
CheckpointTellsEvidence == \A c \in durable : artifacts[c] = 1

\* An accepted pilot registered every cell exactly once, and paid for nothing
\* but that and the answers that were thrown away.
AcceptedIsWhole ==
    accepted => \A c \in Cells : paid[c] = 1 + rejected[c] /\ artifacts[c] = 1
=============================================================================

------------------------------- MODULE Conversion -------------------------------
(***************************************************************************)
(* From raw artifacts to published documents: the pipeline of conversion   *)
(* runs and, side by side with it, the automatic handoff that makes them.  *)
(* The two share no state here: a run of the one is dispatched, a run of   *)
(* the other executed.  What they promise together is stated for every     *)
(* value of their constants.                                               *)
(***************************************************************************)
EXTENDS ConversionPipeline

CONSTANTS
  Artifacts, Sources, Source, Profiles, Precedence, Accepts, Unreadable, Processes, Limit,
  MaxEdits, MaxEnds

VARIABLES artifact, registered, profile, archived, conversions, process, edits, ends

handoffVars == <<artifact, registered, profile, archived, conversions, process, edits, ends>>

Automatic ==
  INSTANCE AutomaticConversion WITH
    MaxStops <- MaxEnds, created <- registered, runs <- conversions, stops <- ends

-----------------------------------------------------------------------------
(* Properties *)

\* ConversionPipeline: leases, events, published documents and the change feed agree
\* with the runs.  AutomaticConversion: however many processes discover an artifact,
\* it has one automatic run at most, the one it was authorized for.
DocumentsAreExact == ConversionIsExact /\ Automatic!TypeOK /\ Automatic!OneAutomaticRun

\* What was decided stays so: no step reopens or rewrites an attempt whose lease has
\* ended, and none exchanges or takes back an artifact's authorization.
NothingIsTakenBack == NothingIsReopened /\ [][Automatic!AuthorizationIsSticky]_handoffVars
=============================================================================

------------------------------ MODULE MCDocuments ------------------------------
(***************************************************************************)
(* Instances of the conversion pipeline and of automatic conversion for    *)
(* TLC: two versions of one document that one worker converts, one run     *)
(* that is reclaimed and whose lease is renewed, and the automatic handoff *)
(* of two artifacts.  A behaviour is one of its subject, and the others    *)
(* stay as they began.                                                     *)
(***************************************************************************)
EXTENDS Conversion, TLC

CONSTANTS r1, r2, r3, w1, a1, a2, s1, s2, q1, q2, p1, p2

\* Versions of one document, each with a path of its own, and a run that may be
\* attempted twice.
OwnPaths == r1 :> "p1" @@ r2 :> "p2" @@ r3 :> "p3"
Documents == r1 :> "d" @@ r2 :> "d" @@ r3 :> "e"
Numbers == r1 :> 1 @@ r2 :> 2 @@ r3 :> 1
Attempts == r1 :> 1 @@ r2 :> 1 @@ r3 :> 2

\* The second profile takes one artifact only; the bytes of the other are unreadable.
ItsSource == a1 :> s1 @@ a2 :> s2
InOrder == q1 :> 1 @@ q2 :> 2
Takes == q1 :> {a1, a2} @@ q2 :> {a2}

VARIABLE subject   \* whose behaviour this is

ASSUME InstancesAssumption == PipelineAssumption /\ Automatic!AutomaticAssumption

\* Leases are renewed where a run is reclaimed, and the control plane stops where
\* versions are published.
Renewed == \E w \in Workers: RenewLease(w)
Dispatched(r) == run'[r].status # "NONE"

MCInit ==
  /\ subject \in {"versions", "reclaim", "automatic"}
  /\ Init /\ Automatic!Init
  /\ subject # "automatic" => profile = [q \in Profiles |-> "AUTO"]

MCNext ==
  /\ UNCHANGED subject
  /\ \/ /\ subject = "versions" /\ Next /\ ~Dispatched(r3) /\ ~Renewed
        /\ UNCHANGED handoffVars
     \/ /\ subject = "reclaim" /\ Next /\ ~Dispatched(r1) /\ ~Dispatched(r2) /\ stops' = 0
        /\ UNCHANGED handoffVars
     \/ subject = "automatic" /\ Automatic!Next /\ UNCHANGED vars

MCSpec == MCInit /\ [][MCNext]_<<subject, vars, handoffVars>>

-----------------------------------------------------------------------------
\* ConversionPipeline: while handlers and workers go on and time passes, no lease
\* stays active for ever, and an upload that is repeated until it is answered is
\* published or fails its run.  AutomaticConversion: while handlers end and claims
\* scan, a lost handoff is made up for.
ConversionGoesOn ==
  /\ subject = "versions" /\ Fairness => LeasesClose
  /\ subject = "versions" /\ Persistence => UploadsArePublished
  /\ Automatic!Fairness => Automatic!HandoffsRecover
=============================================================================

------------------------------ MODULE MCProgress ------------------------------
(***************************************************************************)
(* Instances of what takes its turn for TLC.  The scheduler with one       *)
(* server process: one plan alone, through edits of its schedule and a     *)
(* crash, and two plans of which a tick examines one.  The detail queue:   *)
(* two workers at one item, and one worker at two.  A behaviour is one of  *)
(* its subject, and the others stay as they began.                         *)
(***************************************************************************)
EXTENDS Progress

CONSTANTS r1, r2, r3, r4, t1, item1, item2, w1, w2

VARIABLE subject   \* whose behaviour this is

TwoPlans == {1, 2}
OneAttempt == <<1, 1>>
Slots == TwoPlans \X (0 .. 2)

\* An interval, a cron expression, a schedule that is rejected when it is
\* evaluated, and none.
EveryTick == [mode |-> "INTERVAL", every |-> 1]
ByHand == [mode |-> "MANUAL", every |-> 0]
AllKinds ==
  {EveryTick, [mode |-> "CRON", every |-> 2], [mode |-> "INTERVAL", every |-> 0], ByHand}

ASSUME InstancesAssumption == Detail!EnrichmentAssumption

\* Nobody touches the second plan of a plan alone, and schedules stay where
\* plans are served.
Alone(plans) == plans[2] = [active |-> TRUE, schedule |-> ByHand, ready |-> TRUE]
Served(plans) == \A p \in Plans : plans[p].schedule = EveryTick

MCInit ==
  /\ subject \in {"alone", "served", "shared item", "long queue"}
  /\ Init /\ Detail!Init
  /\ subject = "alone" => Alone(plan)
  /\ subject # "alone" => Served(plan)
  /\ subject \notin {"alone", "served"} => \A p \in Plans : plan[p].active /\ plan[p].ready

MCNext ==
  /\ UNCHANGED subject
  /\ \/ subject = "alone" /\ Next /\ Alone(plan') /\ UNCHANGED detailVars
     \/ subject = "served" /\ Next /\ Served(plan') /\ crashes' = 0 /\ UNCHANGED detailVars
     \/ subject = "shared item" /\ Detail!Next /\ admitted' \subseteq {item1} /\ UNCHANGED vars
     \/ /\ subject = "long queue" /\ Detail!Next /\ worker'[w2] = Detail!Idle /\ holds' = 0
        /\ UNCHANGED vars

MCSpec == MCInit /\ [][MCNext]_<<subject, vars, detailVars>>

-----------------------------------------------------------------------------
\* While workers poll and time passes, no plan starves behind another one; while
\* runs are started and windows begin, every row of the detail queue gets its turn.
NobodyStarves ==
  /\ subject = "served" /\ Fairness => NoPlanStarves
  /\ subject = "long queue" /\ Detail!Fairness => Detail!RowsGetTheirTurn
=============================================================================

----------------------------- MODULE MCAcquisition -----------------------------
(***************************************************************************)
(* Instances of the components that keep acquisition going for TLC: a web  *)
(* campaign, the recovery of failed conversions (one run with an operator, *)
(* two without), and a run that is executed twice while its worker stops   *)
(* or is disabled.  A behaviour is one of its subject, and the others stay *)
(* as they began.                                                          *)
(***************************************************************************)
EXTENDS Acquisition

CONSTANTS root1, root2, r1, k1, NoKey, w1, l1, l2, NoDomain

VARIABLES
  subject,   \* whose behaviour this is
  run2, job, worker, heartbeat, lease, attempt

\* A discovery finds the whole site or its first URL only.
GrowingSite == {[found |-> found, eligible |-> found] : found \in {{1}, Urls}}

endingVars == <<run2, job, worker, heartbeat, lease, attempt>>

\* One run of a plan that is retried once, one worker, leases of two ticks.
Ending ==
  INSTANCE WorkerExecution WITH
    Runs <- {r1}, Plans <- {1}, Keys <- {k1}, AttemptLimit <- 2, MaxAttempts <- <<2>>,
    Health <- {"HEALTHY", "ERROR"}, Workers <- {w1}, Leases <- {l1, l2},
    WorkerDefinitions <- [desired : {"ACTIVE", "DRAINING", "DISABLED"},
                          maxConcurrency : {1}, canRun : {{1}}],
    LeaseDuration <- 2, MaxLeaseLifetime <- 3, HeartbeatFreshness <- 0,
    Priority <- <<3>>, Domain <- <<NoDomain>>, RateLimit <- <<1>>, RateWindow <- 0,
    MaxPerDomain <- 1, ClaimLimit <- 2, Backoff <- <<1>>, BackoffCap <- 1, run <- run2

ASSUME InstancesAssumption ==
  /\ Recovery!RecoveryAssumption
  /\ Ending!LedgerAssumption /\ Ending!RegistryAssumption /\ Ending!ExecutionAssumption

\* An operator retries the conversions of one run, which alone fails.
WithOperator == \A r \in Roots \ {root1}: \A k \in Recovery!Key: run'[r][k].status = "NONE"
WithoutOperator == \A r \in Roots: Recovery!NoOperator(r)'

MCInit ==
  /\ subject \in {"campaign", "operator", "two roots", "ending"}
  /\ Init /\ Recovery!Init /\ Ending!Init

MCNext ==
  /\ UNCHANGED subject
  /\ \/ subject = "campaign" /\ Next /\ UNCHANGED <<recoveryVars, endingVars>>
     \/ /\ subject = "operator" /\ Recovery!Next /\ WithOperator
        /\ UNCHANGED <<campaignVars, endingVars>>
     \/ /\ subject = "two roots" /\ Recovery!Next /\ WithoutOperator
        /\ UNCHANGED <<campaignVars, endingVars>>
     \/ /\ subject = "ending" /\ Ending!Next
        /\ UNCHANGED <<campaignVars, recoveryVars>>

MCSpec == MCInit /\ [][MCNext]_<<subject, campaignVars, recoveryVars, endingVars>>

-----------------------------------------------------------------------------
\* While the script is repeated, days pass and runs end, an eligible URL of an
\* open campaign is fetched or found missing; while claims go on, handlers end and
\* delays pass, no failed run is forgotten.
NothingIsForgotten ==
  /\ Fairness => EligibleAreSettled
  /\ Recovery!Fairness => Recovery!FailuresAreAttended

\* WorkerExecution: while time passes, leases are reaped and executions
\* reconciled, every lease and every execution ends, whatever becomes of the worker.
NothingRunsForever == Ending!Fairness => Ending!LeasesEnd /\ Ending!ExecutionsEnd
=============================================================================

------------------------------ MODULE Acquisition ------------------------------
(***************************************************************************)
(* What keeps acquisition going, side by side: the campaigns that collect  *)
(* a site and the recovery of the conversions that fail.  They share no    *)
(* state; what each of them promises is stated here, for every value of    *)
(* its constants.                                                          *)
(***************************************************************************)
EXTENDS WebCampaign

CONSTANTS Roots, MaxRetries, MaxOperator, Limit, MaxEdits, MaxEnds

VARIABLES run, case, before, active, handler, edits, ends

campaignVars == <<lifecycle, row, history, entry, runs, artifacts, script, day, stops>>
recoveryVars == <<run, case, before, active, handler, edits, ends>>

Recovery == INSTANCE FailureRecovery WITH MaxStops <- MaxEnds, stops <- ends

-----------------------------------------------------------------------------
(* Properties *)

\* FailureRecovery: a case tells the truth about its latest run, only a passing
\* failure is retried without an operator, and a failed run that no operator
\* retries has one live replacement.
CasesTellTheirRun ==
  /\ Recovery!TypeOK /\ Recovery!CasesTellTheirRun
  /\ Recovery!LostRunsAreNotRetried /\ Recovery!OneLiveReplacement
=============================================================================

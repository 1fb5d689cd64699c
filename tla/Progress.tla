-------------------------------- MODULE Progress --------------------------------
(***************************************************************************)
(* What takes its turn, side by side: the plans of the collection          *)
(* scheduler and the rows of the CNIPA detail queue.  They share no state; *)
(* what the detail queue promises is stated here, for every value of its   *)
(* constants.                                                              *)
(***************************************************************************)
EXTENDS CollectionScheduler

CONSTANTS Items, Workers, NoWorker, DetailAttempts, MaxRequests, Cap, Overlap, MaxHolds

VARIABLES queue, admitted, earlier, lane, window, requests, worker, stored, holds

detailVars == <<queue, admitted, earlier, lane, window, requests, worker, stored, holds>>

Detail == INSTANCE DetailEnrichment WITH MaxAttempts <- DetailAttempts

-----------------------------------------------------------------------------
(* Properties *)

\* DetailEnrichment: a window's requests keep its budget, and a row that says
\* FETCHED has its artifact.
BudgetKept == Detail!TypeOK /\ Detail!BudgetKept /\ Detail!FetchedIsStored

\* DetailEnrichment: the statements of the queue implement the state machine of
\* the worker runtime.
RowsFollowTheStateMachine == Detail!RowsFollowTheStateMachine
=============================================================================

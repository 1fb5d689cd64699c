----------------------------- MODULE MCScheduler -----------------------------
(* Small instances of CollectionScheduler for TLC. *)
EXTENDS CollectionScheduler, TLC

CONSTANTS m1, r1, r2, r3, r4, t1, t2

Every(n) == [mode |-> "INTERVAL", every |-> n]
OneInterval == {Every(1)}

OnePlan == {1}
SlotKeys == Plans \X Times
OneAttempt == [p \in Plans |-> 1]

Symmetric == Permutations({t1, t2})
=============================================================================

-------------------------- MODULE MCWorkerExecution --------------------------
(* Small instances of WorkerExecution for TLC. *)
EXTENDS WorkerExecution, TLC

CONSTANTS r1, r2, p1, p2, p3, k1, w1, w2, l1, l2, l3, web

Definition(desired, n, plans) ==
  [desired |-> desired, maxConcurrency |-> n, canRun |-> plans]

\* One plan, retried once, no web domain.
OnePlan == {p1}
Twice == [p \in OnePlan |-> 2]
NormalPriority == [p \in OnePlan |-> 3]
NoDomains == [p \in OnePlan |-> NoDomain]
AnyRate == [p \in OnePlan |-> 1]
ShortBackoff == [p \in OnePlan |-> 1]
LongBackoff == [p \in OnePlan |-> 4]
OneSlot == {Definition(s, 1, OnePlan) : s \in {"ACTIVE", "DRAINING", "DISABLED"}}

\* p1 and p2 share a web domain: p1 is urgent and may be leased once per window,
\* p2 twice.  p3 is not a web plan.  Worker definitions differ in slots and in
\* what they can run.
ThreePlans == {p1, p2, p3}
Once == [p \in ThreePlans |-> 1]
Urgency == [p \in ThreePlans |-> IF p = p1 THEN 2 ELSE 3]
OneDomain == [p \in ThreePlans |-> IF p = p3 THEN NoDomain ELSE web]
Rates == [p \in ThreePlans |-> IF p = p1 THEN 1 ELSE 2]
NoBackoff == [p \in ThreePlans |-> 0]
Slots == {Definition("ACTIVE", 2, ThreePlans), Definition("ACTIVE", 1, {p2, p3}),
          Definition("DRAINING", 1, ThreePlans)}

Symmetric ==
  Permutations({r1, r2}) \cup Permutations({w1, w2}) \cup Permutations({l1, l2, l3})
=============================================================================

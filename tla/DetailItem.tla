------------------------------- MODULE DetailItem -------------------------------
(***************************************************************************)
(* The items of the CNIPA detail enrichment as the worker runtime defines  *)
(* them: cnipa-detail-enrichment-state.ts, functions of one item each. The *)
(* queue in the database keeps its own statements for the same life, and   *)
(* DetailEnrichment shows that they implement this module.                 *)
(***************************************************************************)
EXTENDS Naturals

CONSTANTS
  Items,         \* detail pointers
  Workers,       \* who may hold a lease
  NoWorker,      \* the lease of an item nobody holds
  MaxAttempts    \* attempts are counted up to here, where the delay stops growing

VARIABLE items

Lifecycle == {"PENDING", "LEASED", "FETCHED", "RETRYABLE", "PERMANENTLY_UNAVAILABLE"}
Outcome == {"FETCHED", "RETRYABLE", "PERMANENTLY_UNAVAILABLE", "AUTH_SECURITY_HOLD"}

\* `next` says whether the time of the next attempt is unset, to come or past,
\* `expired` whether the lease has run out, `artifact` whether a detail artifact is named.
CnipaDetailEnrichmentItem ==
  [lifecycle: Lifecycle, hold: BOOLEAN, lease: Workers \cup {NoWorker}, expired: BOOLEAN,
   attempts: 0 .. MaxAttempts, next: {"NULL", "LATER", "DUE"}, artifact: BOOLEAN]

createCnipaDetailEnrichmentItem ==
  [lifecycle |-> "PENDING", hold |-> FALSE, lease |-> NoWorker, expired |-> FALSE,
   attempts |-> 0, next |-> "NULL", artifact |-> FALSE]

isCnipaDetailEligible(i) ==
  /\ ~i.hold
  /\ i.lifecycle \in {"PENDING", "RETRYABLE"}
  /\ i.next # "LATER"

leaseCnipaDetailEnrichmentItem(i, w) ==
  [i EXCEPT !.lifecycle = "LEASED", !.lease = w, !.expired = FALSE]

reclaimExpiredCnipaDetailLease(i) ==
  IF i.lifecycle = "LEASED" /\ i.expired
  THEN [i EXCEPT !.lifecycle = "RETRYABLE", !.lease = NoWorker, !.expired = FALSE, !.next = "DUE"]
  ELSE i

releaseCnipaDetailAuthSecurityHold(i) == [i EXCEPT !.hold = FALSE, !.next = "NULL"]

Counted(n) == IF n < MaxAttempts THEN n + 1 ELSE n

applyCnipaDetailAttemptOutcome(i, outcome) ==
  LET ended == [i EXCEPT !.lease = NoWorker, !.expired = FALSE, !.next = "NULL"]
  IN  CASE outcome = "AUTH_SECURITY_HOLD" -> [ended EXCEPT !.lifecycle = "PENDING", !.hold = TRUE]
        [] outcome = "RETRYABLE" ->
             [ended EXCEPT !.lifecycle = "RETRYABLE", !.attempts = Counted(@), !.next = "LATER"]
        [] outcome = "FETCHED" ->
             [ended EXCEPT !.lifecycle = "FETCHED", !.attempts = Counted(@), !.artifact = TRUE]
        [] outcome = "PERMANENTLY_UNAVAILABLE" ->
             [ended EXCEPT !.lifecycle = "PERMANENTLY_UNAVAILABLE", !.attempts = Counted(@)]

-----------------------------------------------------------------------------

Init == items = [i \in Items |-> createCnipaDetailEnrichmentItem]

Leased(old, new) ==
  /\ isCnipaDetailEligible(reclaimExpiredCnipaDetailLease(old))
  /\ \E w \in Workers: new = leaseCnipaDetailEnrichmentItem(reclaimExpiredCnipaDetailLease(old), w)

Reclaimed(old, new) ==
  /\ old.lifecycle = "LEASED"
  /\ new = reclaimExpiredCnipaDetailLease(old)

Attempted(old, new) ==
  /\ old.lifecycle = "LEASED"
  /\ \E outcome \in Outcome: new = applyCnipaDetailAttemptOutcome(old, outcome)

Released(old, new) ==
  /\ old.hold
  /\ new = releaseCnipaDetailAuthSecurityHold(old)

TimePassed(old, new) ==
  \/ old.lifecycle = "LEASED" /\ new = [old EXCEPT !.expired = TRUE]
  \/ old.next = "LATER" /\ new = [old EXCEPT !.next = "DUE"]

\* An item moves as one of the functions moves it; several may move at once.
Moves(old, new) ==
  Leased(old, new) \/ Reclaimed(old, new) \/ Attempted(old, new) \/ Released(old, new) \/ TimePassed(old, new)

Next == \A i \in Items: items'[i] = items[i] \/ Moves(items[i], items'[i])

Spec == Init /\ [][Next]_items
=============================================================================

---------------------------- MODULE PackageDelivery ----------------------------
(***************************************************************************)
(* Delivery of one V2 ready package to the Core consumer:                  *)
(* ready-package-v2-delivery-service.ts and the submission, audit and      *)
(* reconciliation modules of the persistence package.                      *)
(*                                                                         *)
(* A request is frozen once and then submitted until a result is durable.  *)
(* A submit diagnoses the stored evidence, records an attempt, awaits the  *)
(* consumer, and records what it heard; nothing holds the delivery while   *)
(* it waits, so requests overlap at that await and nowhere else.  The      *)
(* process may die at the await, and between the two transactions that     *)
(* record a result and finalize it.  A message outlives the call that sent *)
(* it.                                                                     *)
(***************************************************************************)
EXTENDS Integers, Sequences, FiniteSets

CONSTANTS
  Requests,      \* operators' requests that may be in progress together
  Issues,        \* kinds of transport failure
  AuditWindow,   \* events a diagnosis reads (200 in the code)
  MaxAttempts,   \* bound on the attempts of the delivery
  MaxStops,      \* bound on the crashes
  MaxSwitches    \* bound on the changes to the transport's configuration

DeliveryAssumption ==
  /\ IsFiniteSet(Requests)
  /\ AuditWindow \in Nat \ {0} /\ MaxAttempts \in Nat /\ MaxStops \in Nat /\ MaxSwitches \in Nat

VARIABLES
  submission,   \* the row of ready_package_v2_delivery_submissions
  audit,        \* its ready_package_v2_delivery_audit_events by sequence
  call,         \* Request -> how far its transport call is
  delayed,      \* whether a message of an abandoned call is still under way
  consumer,     \* what the consumer has made of the frozen request
  bound,        \* whether the workspace has a Core binding
  configured,   \* whether the outbound transport is configured
  stops, switches

vars == <<submission, audit, call, delayed, consumer, bound, configured, stops, switches>>

Status == {"RECEIVED", "ACCEPTED", "REJECTED"}
OptionalStatus == {"NONE"} \cup Status

Submission ==
  [state: {"NONE", "PENDING", "RESULT_RECORDED"}, transportAttempts: 0 .. MaxAttempts,
   transportResult: OptionalStatus, result: OptionalStatus]

EventType ==
  {"PREPARED", "TRANSPORT_ATTEMPT_STARTED", "TRANSPORT_OUTCOME_UNKNOWN",
   "TRANSPORT_RESULT_RECORDED", "FINALIZED"}
Event ==
  [type: EventType, attempt: 0 .. MaxAttempts, issue: {"NONE"} \cup Issues, status: OptionalStatus]

NewEvent(type, attempt, issue, status) ==
  [type |-> type, attempt |-> attempt, issue |-> issue, status |-> status]

\* A call that is answered holds the consumer's status until it is read.
Idle == [at |-> "IDLE", status |-> "NONE"]
Sent == [at |-> "SENT", status |-> "NONE"]
Answered(status) == [at |-> "ANSWERED", status |-> status]

Init ==
  /\ submission = [state |-> "NONE", transportAttempts |-> 0, transportResult |-> "NONE", result |-> "NONE"]
  /\ audit = <<>>
  /\ call = [q \in Requests |-> Idle]
  /\ delayed = FALSE
  /\ consumer = "NONE"
  /\ bound = FALSE
  /\ configured = FALSE
  /\ stops = 0
  /\ switches = 0

-----------------------------------------------------------------------------
\* Reading the evidence.

listAuditEvents ==
  SubSeq(audit, IF Len(audit) <= AuditWindow THEN 1 ELSE Len(audit) - AuditWindow + 1, Len(audit))

\* The positions of the events of a type, and the status they tell.
OfType(events, type) == {j \in 1 .. Len(events): events[j].type = type}
Told(events, type) == {events[j].status: j \in OfType(events, type)}

Before(events, type, i) == {j \in OfType(events, type): j < i}

\* What the diagnosis checks of an event against those before it.  It also refuses
\* an audit whose timestamps move backwards; the model has none, which assumes a
\* clock that is never set back between two events.
EventInOrder(events, i) ==
  LET e == events[i]
      attempts == Cardinality(Before(events, "TRANSPORT_ATTEMPT_STARTED", i))
      results == Before(events, "TRANSPORT_RESULT_RECORDED", i)
      unknown == Before(events, "TRANSPORT_OUTCOME_UNKNOWN", i)
  IN /\ Before(events, "FINALIZED", i) = {}
     /\ e.type = "PREPARED" => i = 1
     /\ e.type = "TRANSPORT_ATTEMPT_STARTED" => results = {} /\ e.attempt = attempts + 1
     /\ e.type \in {"TRANSPORT_OUTCOME_UNKNOWN", "TRANSPORT_RESULT_RECORDED"} =>
          /\ results = {} /\ attempts > 0 /\ e.attempt = attempts
          /\ \A u \in unknown: events[u].attempt # e.attempt
     /\ e.type = "FINALIZED" =>
          \E r \in results: e.attempt = events[r].attempt /\ e.status = events[r].status

TimelineHolds(events) ==
  /\ Len(events) = Len(audit)
  /\ events # <<>>
  /\ events[1].type = "PREPARED"
  /\ \A i \in 1 .. Len(events): EventInOrder(events, i)

SubmissionAgrees(events) ==
  /\ submission.transportAttempts = Cardinality(OfType(events, "TRANSPORT_ATTEMPT_STARTED"))
  /\ Told(events, "TRANSPORT_RESULT_RECORDED") = {submission.transportResult} \ {"NONE"}
  /\ Told(events, "FINALIZED") = {submission.result} \ {"NONE"}
  /\ submission.state = "RESULT_RECORDED" <=> OfType(events, "FINALIZED") # {}

\* A diagnosis that looks for the finalization only.
ForgetsRecordedResult ==
  LET events == listAuditEvents
  IN IF ~ (TimelineHolds(events) /\ SubmissionAgrees(events)) THEN "EVIDENCE_INCONSISTENT"
     ELSE IF OfType(events, "FINALIZED") # {} THEN "DELIVERED"
     ELSE IF submission.transportAttempts > 0 THEN "OUTCOME_UNKNOWN_RETRY_EXACT_REQUEST"
     ELSE "SAFE_TO_SUBMIT"

diagnoseReadyPackageV2Delivery ==
  LET events == listAuditEvents
      results == Told(events, "TRANSPORT_RESULT_RECORDED")
  IN IF ~ (TimelineHolds(events) /\ SubmissionAgrees(events)) THEN "EVIDENCE_INCONSISTENT"
     ELSE IF "REJECTED" \in results THEN "CONSUMER_REJECTED"
     ELSE IF OfType(events, "FINALIZED") # {} THEN "DELIVERED"
     ELSE IF results # {} THEN "LOCAL_FINALIZATION_REQUIRED"
     ELSE IF OfType(events, "TRANSPORT_ATTEMPT_STARTED") # {}
     THEN "OUTCOME_UNKNOWN_RETRY_EXACT_REQUEST"
     ELSE "SAFE_TO_SUBMIT"

-----------------------------------------------------------------------------
\* Freezing the request.

bind ==
  /\ ~ bound
  /\ bound' = TRUE
  /\ UNCHANGED <<submission, audit, call, delayed, consumer, configured, stops, switches>>

\* An existing submission is replayed, or refused, with nothing changed.
prepare ==
  /\ submission.state = "NONE"
  /\ bound
  /\ submission' = [submission EXCEPT !.state = "PENDING"]
  /\ audit' = <<NewEvent("PREPARED", 0, "NONE", "NONE")>>
  /\ UNCHANGED <<call, delayed, consumer, bound, configured, stops, switches>>

Reconfigure ==
  /\ switches < MaxSwitches
  /\ switches' = switches + 1
  /\ configured' = ~ configured
  /\ UNCHANGED <<submission, audit, call, delayed, consumer, bound, stops>>

-----------------------------------------------------------------------------
\* Submitting it.

\* The attempt that is counted without the event of the same transaction.
CountsWithoutEvent ==
  /\ submission' = [submission EXCEPT !.transportAttempts = @ + 1]
  /\ UNCHANGED audit

\* An attempt that waits for its answer to be recorded.
SendsBeforeRecording == UNCHANGED <<submission, audit>>

markTransportAttempt ==
  /\ submission.transportAttempts < MaxAttempts
  /\ submission' = [submission EXCEPT !.transportAttempts = @ + 1]
  /\ audit' =
       Append(audit, NewEvent("TRANSPORT_ATTEMPT_STARTED", submission.transportAttempts + 1, "NONE", "NONE"))

\* A finalization that commits the row without its event.
FinalizesWithoutEvent(row, events, status) ==
  IF row.state = "RESULT_RECORDED" \/ row.transportResult # status
  THEN submission' = row /\ audit' = events
  ELSE /\ submission' = [row EXCEPT !.state = "RESULT_RECORDED", !.result = status]
       /\ audit' = events

recordResult(row, events, status) ==
  IF row.state = "RESULT_RECORDED" \/ row.transportResult # status
  THEN submission' = row /\ audit' = events
  ELSE /\ submission' = [row EXCEPT !.state = "RESULT_RECORDED", !.result = status]
       /\ audit' = Append(events, NewEvent("FINALIZED", row.transportAttempts, "NONE", status))

submitOverNetwork(q) ==
  /\ configured
  /\ markTransportAttempt
  /\ call' = [call EXCEPT ![q] = Sent]

\* Finalization that goes through the check of the transport first.
FinalizesWhenConfigured(q) ==
  /\ call[q] = Idle
  /\ submission.state # "NONE"
  /\ configured
  /\ \/ /\ diagnoseReadyPackageV2Delivery = "LOCAL_FINALIZATION_REQUIRED"
        /\ recordResult(submission, audit, submission.transportResult)
        /\ UNCHANGED call
     \/ /\ diagnoseReadyPackageV2Delivery \in {"SAFE_TO_SUBMIT", "OUTCOME_UNKNOWN_RETRY_EXACT_REQUEST"}
        /\ submitOverNetwork(q)
  /\ UNCHANGED <<delayed, consumer, bound, configured, stops, switches>>

\* Up to its await.  The other diagnoses replay or refuse, changing nothing.
submit(q) ==
  /\ call[q] = Idle
  /\ submission.state # "NONE"
  /\ \/ /\ diagnoseReadyPackageV2Delivery = "LOCAL_FINALIZATION_REQUIRED"
        /\ recordResult(submission, audit, submission.transportResult)
        /\ UNCHANGED call
     \/ /\ diagnoseReadyPackageV2Delivery \in {"SAFE_TO_SUBMIT", "OUTCOME_UNKNOWN_RETRY_EXACT_REQUEST"}
        /\ submitOverNetwork(q)
  /\ UNCHANGED <<delayed, consumer, bound, configured, stops, switches>>

recordTransportUncertainty(issue) ==
  LET attempt == submission.transportAttempts
      events == listAuditEvents
      prior == {u \in OfType(events, "TRANSPORT_OUTCOME_UNKNOWN"): events[u].attempt = attempt}
  IN audit' =
       IF submission.transportResult # "NONE" \/ attempt = 0 \/ prior # {}
       THEN audit
       ELSE Append(audit, NewEvent("TRANSPORT_OUTCOME_UNKNOWN", attempt, issue, "NONE"))

\* A timeout, a lost connection, an error status or a malformed answer.
TransportFails(q, issue) ==
  /\ call[q] # Idle
  /\ recordTransportUncertainty(issue)
  /\ delayed' = (delayed \/ call[q] = Sent)
  /\ call' = [call EXCEPT ![q] = Idle]
  /\ UNCHANGED <<submission, consumer, bound, configured, stops, switches>>

\* The last answer replaces the result.
LastResultWins(status) ==
  <<[submission EXCEPT !.transportResult = status],
    IF submission.transportResult # "NONE"
    THEN audit
    ELSE Append(audit, NewEvent("TRANSPORT_RESULT_RECORDED", submission.transportAttempts, "NONE", status))>>

\* The row and the events once a result is recorded; a different one is refused.
WithTransportResult(status) ==
  IF submission.transportResult # "NONE"
  THEN <<submission, audit>>
  ELSE <<[submission EXCEPT !.transportResult = status],
         Append(audit, NewEvent("TRANSPORT_RESULT_RECORDED", submission.transportAttempts, "NONE", status))>>

recordTransportResult(q) ==
  LET status == call[q].status
      stored == WithTransportResult(status)
  IN /\ call[q].at = "ANSWERED"
     /\ \/ /\ recordResult(stored[1], stored[2], status)
           /\ call' = [call EXCEPT ![q] = Idle]
           /\ UNCHANGED <<delayed, stops>>
        \/ /\ stops < MaxStops
           /\ stops' = stops + 1
           /\ submission' = stored[1]
           /\ audit' = stored[2]
           /\ call' = [r \in Requests |-> Idle]
           /\ delayed' = (delayed \/ \E r \in Requests: call[r] = Sent)
     /\ UNCHANGED <<consumer, bound, configured, switches>>

\* The process dies while calls wait.
Stop ==
  /\ stops < MaxStops
  /\ \E q \in Requests: call[q] # Idle
  /\ stops' = stops + 1
  /\ call' = [q \in Requests |-> Idle]
  /\ delayed' = (delayed \/ \E q \in Requests: call[q] = Sent)
  /\ UNCHANGED <<submission, audit, consumer, bound, configured, switches>>

-----------------------------------------------------------------------------
\* The consumer: one record for the idempotency key, whichever copy comes first.

Consumed(status) == IF consumer = "NONE" THEN status ELSE consumer

ConsumerAnswers(q, status) ==
  /\ call[q] = Sent
  /\ consumer' = Consumed(status)
  /\ call' = [call EXCEPT ![q] = Answered(Consumed(status))]
  /\ UNCHANGED <<submission, audit, delayed, bound, configured, stops, switches>>

DelayedMessageArrives(status) ==
  /\ delayed
  /\ delayed' = FALSE
  /\ consumer' = Consumed(status)
  /\ UNCHANGED <<submission, audit, call, bound, configured, stops, switches>>

ConsumerDecides(status) ==
  /\ consumer = "RECEIVED"
  /\ status # "RECEIVED"
  /\ consumer' = status
  /\ UNCHANGED <<submission, audit, call, delayed, bound, configured, stops, switches>>

Next ==
  \/ bind
  \/ prepare
  \/ Reconfigure
  \/ Stop
  \/ \E q \in Requests:
       \/ submit(q)
       \/ recordTransportResult(q)
       \/ \E issue \in Issues: TransportFails(q, issue)
       \/ \E status \in Status: ConsumerAnswers(q, status)
  \/ \E status \in Status: DelayedMessageArrives(status) \/ ConsumerDecides(status)

Spec == Init /\ [][Next]_vars

\* An operator who finds a recorded result submits again.
Fairness == \A q \in Requests: WF_vars(submit(q))

FairSpec == Spec /\ Fairness

-----------------------------------------------------------------------------
(* Properties *)

\* The rows hold values of their columns, and no two events of the audit share
\* their type and attempt, as the unique index demands.
TypeOK ==
  /\ submission \in Submission
  /\ audit \in Seq(Event)
  /\ \A i, j \in 1 .. Len(audit):
       audit[i].type = audit[j].type /\ audit[i].attempt = audit[j].attempt => i = j
  /\ \A q \in Requests: call[q] \in {Idle, Sent} \cup {Answered(s): s \in Status}
  /\ delayed \in BOOLEAN /\ bound \in BOOLEAN /\ configured \in BOOLEAN
  /\ consumer \in OptionalStatus
  /\ stops \in 0 .. MaxStops /\ switches \in 0 .. MaxSwitches

\* Whatever crashed or was lost on the way, a request the consumer may have
\* seen is known to the evidence as attempted: markTransportAttempt commits
\* before transport.submit is called.
ContactIsRecorded ==
  consumer # "NONE" \/ delayed \/ (\E q \in Requests: call[q] # Idle)
    => /\ submission.transportAttempts > 0
       /\ \E i \in 1 .. Len(audit): audit[i].type = "TRANSPORT_ATTEMPT_STARTED"

\* A result that was recorded and is not a rejection is replayed once final and
\* finalized without the network before: the diagnosis never refuses it.
ResultsAreHonoured ==
  submission.transportResult \in {"RECEIVED", "ACCEPTED"} =>
    diagnoseReadyPackageV2Delivery =
      IF submission.state = "RESULT_RECORDED" THEN "DELIVERED" ELSE "LOCAL_FINALIZATION_REQUIRED"

\* An attempt with no result leaves the delivery open to a retry of the exact request.
UnknownMayBeRetried ==
  submission.transportAttempts > 0 /\ submission.transportResult = "NONE" =>
    diagnoseReadyPackageV2Delivery = "OUTCOME_UNKNOWN_RETRY_EXACT_REQUEST"

\* A step sends no request once the consumer's result is durable, by this
\* operator or by another who submits at the same time.
NoSendAfterResult ==
  \A q \in Requests: call[q] = Idle /\ call'[q] = Sent => submission.transportResult = "NONE"

\* A step leaves the result the consumer gave first: no later answer replaces it.
FirstResultStays ==
  submission.transportResult # "NONE" => submission'.transportResult = submission.transportResult

\* A result that a crash left without its finalization is finalized by the next
\* submit, whether or not the transport is configured then.
ResultsAreFinalized ==
  submission.transportResult \in {"RECEIVED", "ACCEPTED"} ~> submission.state = "RESULT_RECORDED"
=============================================================================

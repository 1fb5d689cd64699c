------------------------ MODULE PackageDeliveryProofs ------------------------
(***************************************************************************)
(* Theorems about PackageDelivery, for every number of requests at once,   *)
(* attempts, crashes and configuration changes, and every audit window.    *)
(***************************************************************************)
EXTENDS PackageDelivery, FiniteSetTheorems, TLAPS

Calls == {Idle, Sent} \cup {Answered(s) : s \in Status}

RowsTyped == submission \in Submission /\ audit \in Seq(Event)
CallsTyped == call \in [Requests -> Calls] /\ consumer \in OptionalStatus

\* Nothing is on record before the request is frozen.
FrozenFirst == submission.state = "NONE" => submission.transportAttempts = 0 /\ audit = <<>>

Inv == RowsTyped /\ CallsTyped /\ FrozenFirst /\ ContactIsRecorded

\* What a step may do to the evidence: attempts are only added, events are only
\* appended, and the first result stays.
EvidenceGrows ==
  /\ submission'.transportAttempts >= submission.transportAttempts
  /\ submission.state # "NONE" => submission'.state # "NONE"
  /\ \A i \in 1 .. Len(audit) : i \in 1 .. Len(audit') /\ audit'[i] = audit[i]
  /\ submission.transportResult # "NONE" =>
       submission'.transportResult = submission.transportResult

LEMMA CallStates ==
  /\ Idle.at = "IDLE" /\ Sent.at = "SENT" /\ Idle # Sent
  /\ \A s \in Status : Answered(s).at = "ANSWERED" /\ Answered(s).status = s
                       /\ Answered(s) # Idle /\ Answered(s) # Sent
BY DEF Idle, Sent, Answered

LEMMA EventTyped ==
  ASSUME NEW type \in EventType, NEW attempt \in 0 .. MaxAttempts,
         NEW issue \in {"NONE"} \cup Issues, NEW status \in OptionalStatus
  PROVE  NewEvent(type, attempt, issue, status) \in Event
BY DEF NewEvent, Event

LEMMA Appended ==
  ASSUME audit \in Seq(Event), NEW e \in Event
  PROVE  /\ Append(audit, e) \in Seq(Event)
         /\ Len(Append(audit, e)) = Len(audit) + 1
         /\ Append(audit, e)[Len(audit) + 1] = e
         /\ \A i \in 1 .. Len(audit) :
              i \in 1 .. Len(Append(audit, e)) /\ Append(audit, e)[i] = audit[i]
OBVIOUS

\* The rows a request finds after it is frozen, whether it records a result or
\* adds an attempt.
Recorded(row, events) ==
  /\ row \in Submission /\ events \in Seq(Event)
  /\ row.state = submission.state
  /\ row.transportAttempts = submission.transportAttempts
  /\ submission.transportResult # "NONE" => row.transportResult = submission.transportResult
  /\ \A i \in 1 .. Len(audit) : i \in 1 .. Len(events) /\ events[i] = audit[i]

LEMMA ResultRows ==
  ASSUME RowsTyped, NEW status \in Status
  PROVE  Recorded(WithTransportResult(status)[1], WithTransportResult(status)[2])
<1>1. CASE submission.transportResult # "NONE"
  BY <1>1 DEF WithTransportResult, Recorded, RowsTyped
<1>2. CASE submission.transportResult = "NONE"
  <2> DEFINE row == [submission EXCEPT !.transportResult = status]
             e == NewEvent("TRANSPORT_RESULT_RECORDED", submission.transportAttempts, "NONE", status)
  <2>1. WithTransportResult(status) = <<row, Append(audit, e)>>
    BY <1>2 DEF WithTransportResult
  <2>2. row \in Submission /\ row.state = submission.state
        /\ row.transportAttempts = submission.transportAttempts
    BY DEF RowsTyped, Submission, OptionalStatus
  <2>3. e \in Event
    BY EventTyped DEF RowsTyped, Submission, EventType, OptionalStatus
  <2> HIDE DEF row, e
  <2>4. Recorded(row, Append(audit, e))
    BY <1>2, <2>2, <2>3, Appended DEF Recorded, RowsTyped
  <2> QED  BY <2>1, <2>4
<1> QED  BY <1>1, <1>2

LEMMA FinalRows ==
  ASSUME RowsTyped, NEW row, NEW events, Recorded(row, events), submission.state # "NONE",
         NEW status \in OptionalStatus, recordResult(row, events, status)
  PROVE  RowsTyped' /\ EvidenceGrows
<1>1. CASE submission' = row /\ audit' = events
  BY <1>1 DEF Recorded, RowsTyped, EvidenceGrows, Submission
<1>2. CASE /\ submission' = [row EXCEPT !.state = "RESULT_RECORDED", !.result = status]
           /\ audit' = Append(events, NewEvent("FINALIZED", row.transportAttempts, "NONE", status))
  <2> DEFINE e == NewEvent("FINALIZED", row.transportAttempts, "NONE", status)
  <2>1. /\ submission' \in Submission /\ submission'.state = "RESULT_RECORDED"
        /\ submission'.transportAttempts = row.transportAttempts
        /\ submission'.transportResult = row.transportResult
    BY <1>2 DEF Recorded, Submission
  <2>2. e \in Event
    BY EventTyped DEF Recorded, Submission, EventType
  <2>3. audit' = Append(events, e)  BY <1>2
  <2> HIDE DEF e
  <2>4. /\ audit' \in Seq(Event)
        /\ \A i \in 1 .. Len(audit) : i \in 1 .. Len(audit') /\ audit'[i] = audit[i]
    BY <2>2, <2>3 DEF Recorded, RowsTyped
  <2> QED  BY <2>1, <2>4 DEF RowsTyped, EvidenceGrows, Recorded, Submission
<1> QED  BY <1>1, <1>2 DEF recordResult

LEMMA AttemptRows ==
  ASSUME DeliveryAssumption, RowsTyped, submission.state # "NONE", markTransportAttempt
  PROVE  /\ RowsTyped' /\ EvidenceGrows
         /\ submission'.transportAttempts > 0
         /\ \E i \in 1 .. Len(audit') : audit'[i].type = "TRANSPORT_ATTEMPT_STARTED"
<1> DEFINE n == submission.transportAttempts + 1
           e == NewEvent("TRANSPORT_ATTEMPT_STARTED", n, "NONE", "NONE")
<1>1. submission.transportAttempts \in 0 .. MaxAttempts /\ submission.transportAttempts < MaxAttempts
  BY DEF RowsTyped, Submission, markTransportAttempt
<1>2. n \in 0 .. MaxAttempts /\ n > 0  BY <1>1 DEF DeliveryAssumption
<1>3. /\ submission' = [submission EXCEPT !.transportAttempts = n]
      /\ audit' = Append(audit, e)
  BY DEF markTransportAttempt
<1>4. e \in Event /\ e.type = "TRANSPORT_ATTEMPT_STARTED"
  <2>1. e \in Event  BY <1>2, EventTyped DEF EventType, OptionalStatus
  <2> QED  BY <2>1 DEF NewEvent
<1>5. /\ submission' \in Submission /\ submission'.state = submission.state
      /\ submission'.transportAttempts = n
      /\ submission'.transportResult = submission.transportResult
  <2> HIDE DEF n
  <2> QED  BY <1>2, <1>3 DEF RowsTyped, Submission
<1> HIDE DEF e
<1>6. /\ audit' \in Seq(Event) /\ Len(audit') = Len(audit) + 1 /\ audit'[Len(audit) + 1] = e
      /\ \A i \in 1 .. Len(audit) : i \in 1 .. Len(audit') /\ audit'[i] = audit[i]
  BY <1>3, <1>4, Appended DEF RowsTyped
<1>7. Len(audit) + 1 \in 1 .. Len(audit')  BY <1>6 DEF RowsTyped
<1> QED  BY <1>1, <1>2, <1>4, <1>5, <1>6, <1>7 DEF RowsTyped, EvidenceGrows

\* A request is sent only after a diagnosis of evidence without a result.
LEMMA SentWithoutResult ==
  ASSUME diagnoseReadyPackageV2Delivery \in
           {"SAFE_TO_SUBMIT", "OUTCOME_UNKNOWN_RETRY_EXACT_REQUEST"}
  PROVE  submission.transportResult = "NONE"
<1> DEFINE events == listAuditEvents
<1>1. SubmissionAgrees(events) /\ Told(events, "TRANSPORT_RESULT_RECORDED") = {}
  BY DEF diagnoseReadyPackageV2Delivery
<1> HIDE DEF events
<1> QED  BY <1>1 DEF SubmissionAgrees

\* What every step does: the evidence grows, a call begins only on evidence
\* without a result, and what the consumer may have seen was recorded before.
Guarded ==
  /\ Inv'
  /\ EvidenceGrows
  /\ NoSendAfterResult

\* A step that writes no evidence and starts no call.
LEMMA QuietStep ==
  ASSUME Inv, UNCHANGED <<submission, audit>>, CallsTyped',
         \A q \in Requests : call[q] = Idle => call'[q] = Idle,
         consumer' # "NONE" \/ delayed' =>
            consumer # "NONE" \/ delayed \/ \E q \in Requests : call[q] # Idle
  PROVE  Guarded
<1>1. EvidenceGrows  BY DEF EvidenceGrows, Inv, RowsTyped, Submission
<1>2. NoSendAfterResult  BY CallStates DEF NoSendAfterResult
<1>3. RowsTyped' /\ FrozenFirst' /\ ContactIsRecorded'
  BY DEF Inv, RowsTyped, FrozenFirst, ContactIsRecorded
<1> QED  BY <1>1, <1>2, <1>3 DEF Guarded, Inv

\* A step that adds evidence of a contact that was recorded before.
LEMMA GrowingStep ==
  ASSUME Inv, RowsTyped', EvidenceGrows, submission.state # "NONE", CallsTyped',
         \A q \in Requests : call[q] = Idle => call'[q] = Idle,
         consumer' # "NONE" \/ delayed' =>
            consumer # "NONE" \/ delayed \/ \E q \in Requests : call[q] # Idle
  PROVE  Guarded
<1>1. NoSendAfterResult  BY CallStates DEF NoSendAfterResult
<1>2. FrozenFirst'  BY DEF EvidenceGrows, FrozenFirst
<1>3. ASSUME (consumer # "NONE" \/ delayed \/ \E q \in Requests : call[q] # Idle)'
      PROVE  /\ submission'.transportAttempts > 0
             /\ \E i \in 1 .. Len(audit') : audit'[i].type = "TRANSPORT_ATTEMPT_STARTED"
  <2>1. consumer # "NONE" \/ delayed \/ \E q \in Requests : call[q] # Idle
    BY <1>3
  <2>2. /\ submission.transportAttempts > 0
        /\ \E i \in 1 .. Len(audit) : audit[i].type = "TRANSPORT_ATTEMPT_STARTED"
    BY <2>1 DEF Inv, ContactIsRecorded
  <2> QED  BY <2>2 DEF EvidenceGrows, Inv, RowsTyped, Submission
<1>4. ContactIsRecorded'  BY <1>3 DEF ContactIsRecorded
<1> QED  BY <1>1, <1>2, <1>4 DEF Guarded, Inv

LEMMA InvInit == ASSUME DeliveryAssumption, Init PROVE Inv
<1>1. RowsTyped
  BY DEF DeliveryAssumption, Init, RowsTyped, Submission, OptionalStatus
<1>2. CallsTyped  BY DEF Init, CallsTyped, Calls, OptionalStatus
<1>3. FrozenFirst /\ ContactIsRecorded
  BY DEF Init, FrozenFirst, ContactIsRecorded
<1> QED  BY <1>1, <1>2, <1>3 DEF Inv

\* A call in progress is of a request that was frozen.
LEMMA FrozenWhenCalled ==
  ASSUME Inv, NEW q \in Requests, call[q] # Idle
  PROVE  submission.state # "NONE"
BY DEF Inv, FrozenFirst, ContactIsRecorded

LEMMA SubmitStep ==
  ASSUME DeliveryAssumption, Inv, NEW q \in Requests, submit(q)
  PROVE  Guarded
<1>1. submission.state # "NONE" /\ call[q] = Idle /\ UNCHANGED <<consumer, delayed>>
  BY DEF submit
<1>2. CASE recordResult(submission, audit, submission.transportResult) /\ UNCHANGED call
  <2>1. Recorded(submission, audit) /\ submission.transportResult \in OptionalStatus
    BY DEF Inv, RowsTyped, Recorded, Submission
  <2>2. RowsTyped' /\ EvidenceGrows
    BY <1>1, <1>2, <2>1, FinalRows DEF Inv
  <2>3. CallsTyped'  BY <1>1, <1>2 DEF Inv, CallsTyped
  <2> QED  BY <1>1, <1>2, <2>2, <2>3, GrowingStep
<1>3. CASE /\ diagnoseReadyPackageV2Delivery \in
                {"SAFE_TO_SUBMIT", "OUTCOME_UNKNOWN_RETRY_EXACT_REQUEST"}
           /\ submitOverNetwork(q)
  <2>1. markTransportAttempt /\ call' = [call EXCEPT ![q] = Sent]
    BY <1>3 DEF submitOverNetwork
  <2>2. submission.transportResult = "NONE"  BY <1>3, SentWithoutResult
  <2>3. /\ RowsTyped' /\ EvidenceGrows
        /\ submission'.transportAttempts > 0
        /\ \E i \in 1 .. Len(audit') : audit'[i].type = "TRANSPORT_ATTEMPT_STARTED"
    BY <1>1, <2>1, AttemptRows DEF Inv
  <2>4. ContactIsRecorded'  BY <2>3 DEF ContactIsRecorded
  <2>5. CallsTyped'  BY <1>1, <2>1 DEF Inv, CallsTyped, Calls
  <2>6. FrozenFirst'  BY <1>1, <2>3 DEF EvidenceGrows, FrozenFirst
  <2>7. NoSendAfterResult  BY <2>2 DEF NoSendAfterResult
  <2> QED  BY <2>3, <2>4, <2>5, <2>6, <2>7 DEF Guarded, Inv
<1> QED  BY <1>2, <1>3 DEF submit

LEMMA FailsStep ==
  ASSUME Inv, NEW q \in Requests, NEW issue \in Issues, TransportFails(q, issue)
  PROVE  Guarded
<1>1. submission.state # "NONE"  BY FrozenWhenCalled DEF TransportFails
<1>2. UNCHANGED submission  BY DEF TransportFails
<1>3. RowsTyped' /\ EvidenceGrows
  <2>1. CASE audit' = audit
    BY <1>2, <2>1 DEF Inv, RowsTyped, EvidenceGrows, Submission
  <2>2. CASE audit' = Append(audit, NewEvent("TRANSPORT_OUTCOME_UNKNOWN",
                                             submission.transportAttempts, issue, "NONE"))
    <3> DEFINE e == NewEvent("TRANSPORT_OUTCOME_UNKNOWN", submission.transportAttempts,
                             issue, "NONE")
    <3>1. e \in Event
      BY EventTyped DEF Inv, RowsTyped, Submission, EventType, OptionalStatus
    <3>2. audit' = Append(audit, e)  BY <2>2
    <3> HIDE DEF e
    <3> QED  BY <1>2, <3>1, <3>2, Appended DEF Inv, RowsTyped, EvidenceGrows, Submission
  <2> QED  BY <2>1, <2>2 DEF TransportFails, recordTransportUncertainty
<1>4. CallsTyped' /\ \A r \in Requests : call[r] = Idle => call'[r] = Idle
  BY DEF TransportFails, Inv, CallsTyped, Calls
<1>5. consumer' # "NONE" \/ delayed' =>
        consumer # "NONE" \/ delayed \/ \E r \in Requests : call[r] # Idle
  BY DEF TransportFails
<1> QED  BY <1>1, <1>3, <1>4, <1>5, GrowingStep

LEMMA RecordStep ==
  ASSUME Inv, NEW q \in Requests, recordTransportResult(q)
  PROVE  Guarded
<1> DEFINE status == call[q].status
           stored == WithTransportResult(status)
<1>1. call[q] # Idle /\ status \in Status
  BY CallStates DEF recordTransportResult, Inv, CallsTyped, Calls
<1>2. submission.state # "NONE"  BY <1>1, FrozenWhenCalled
<1>3. Recorded(stored[1], stored[2])  BY <1>1, ResultRows DEF Inv
<1>4. \/ recordResult(stored[1], stored[2], status)
      \/ submission' = stored[1] /\ audit' = stored[2]
  BY DEF recordTransportResult
<1>5. RowsTyped' /\ EvidenceGrows
  <2> HIDE DEF stored, status
  <2>1. CASE recordResult(stored[1], stored[2], status)
    BY <1>1, <1>2, <1>3, <2>1, FinalRows DEF Inv, OptionalStatus
  <2>2. CASE submission' = stored[1] /\ audit' = stored[2]
    BY <1>2, <1>3, <2>2 DEF Recorded, RowsTyped, EvidenceGrows, Submission
  <2> QED  BY <1>4, <2>1, <2>2
<1>6. \/ call' = [call EXCEPT ![q] = Idle]
      \/ call' = [r \in Requests |-> Idle]
  BY DEF recordTransportResult
<1>7. CallsTyped' /\ \A r \in Requests : call[r] = Idle => call'[r] = Idle
  BY <1>6 DEF recordTransportResult, Inv, CallsTyped, Calls
<1>8. consumer' # "NONE" \/ delayed' =>
        consumer # "NONE" \/ delayed \/ \E r \in Requests : call[r] # Idle
  BY <1>1
<1> QED  BY <1>2, <1>5, <1>7, <1>8, GrowingStep

LEMMA PrepareStep == ASSUME DeliveryAssumption, Inv, prepare PROVE Guarded
<1> DEFINE e == NewEvent("PREPARED", 0, "NONE", "NONE")
<1>1. /\ submission.state = "NONE" /\ audit = <<>> /\ submission.transportAttempts = 0
      /\ submission' = [submission EXCEPT !.state = "PENDING"] /\ audit' = <<e>>
      /\ UNCHANGED <<call, delayed, consumer>>
  BY DEF prepare, Inv, FrozenFirst
<1>2. /\ submission' \in Submission /\ submission'.state = "PENDING"
      /\ submission'.transportAttempts = submission.transportAttempts
      /\ submission'.transportResult = submission.transportResult
  BY <1>1 DEF Inv, RowsTyped, Submission
<1>3. e \in Event
  BY EventTyped DEF DeliveryAssumption, EventType, OptionalStatus
<1> HIDE DEF e
<1>4. RowsTyped'  BY <1>1, <1>2, <1>3 DEF RowsTyped
<1>5. EvidenceGrows  BY <1>1, <1>2 DEF EvidenceGrows, Inv, RowsTyped, Submission
<1>6. FrozenFirst' /\ CallsTyped'
  BY <1>1, <1>2 DEF FrozenFirst, Inv, CallsTyped
<1>7. ContactIsRecorded'
  BY <1>1 DEF Inv, ContactIsRecorded
<1>8. NoSendAfterResult  BY <1>1, CallStates DEF NoSendAfterResult
<1> QED  BY <1>4, <1>5, <1>6, <1>7, <1>8 DEF Guarded, Inv

\* What the consumer keeps of a request is one of its statuses.
LEMMA ConsumedStatus ==
  ASSUME Inv, NEW status \in Status
  PROVE  Consumed(status) \in Status
BY DEF Inv, CallsTyped, Consumed, OptionalStatus

LEMMA AnswerStep ==
  ASSUME Inv, NEW q \in Requests, NEW status \in Status, ConsumerAnswers(q, status)
  PROVE  Guarded
<1>1. call[q] # Idle  BY CallStates DEF ConsumerAnswers
<1>2. CallsTyped' /\ \A r \in Requests : call[r] = Idle => call'[r] = Idle
  BY <1>1, ConsumedStatus DEF ConsumerAnswers, Inv, CallsTyped, Calls, OptionalStatus
<1> QED  BY <1>1, <1>2, QuietStep DEF ConsumerAnswers

LEMMA DelayedStep ==
  ASSUME Inv, NEW status \in Status, DelayedMessageArrives(status)
  PROVE  Guarded
<1>1. CallsTyped'
  BY ConsumedStatus DEF DelayedMessageArrives, Inv, CallsTyped, OptionalStatus
<1> QED  BY <1>1, QuietStep DEF DelayedMessageArrives

LEMMA DecidesStep ==
  ASSUME Inv, NEW status \in Status, ConsumerDecides(status)
  PROVE  Guarded
<1>1. CallsTyped'  BY DEF ConsumerDecides, Inv, CallsTyped, OptionalStatus
<1> QED  BY <1>1, QuietStep DEF ConsumerDecides

LEMMA StopStep == ASSUME Inv, Stop PROVE Guarded
<1>1. CallsTyped' /\ \A r \in Requests : call'[r] = Idle
  BY DEF Stop, Inv, CallsTyped, Calls
<1> QED  BY <1>1, QuietStep DEF Stop

\* The other steps touch neither evidence nor calls.
LEMMA OtherStep ==
  ASSUME Inv, UNCHANGED <<submission, audit, call, delayed, consumer>>
  PROVE  Guarded
<1>1. CallsTyped'  BY DEF Inv, CallsTyped
<1> QED  BY <1>1, QuietStep

LEMMA EveryStep == ASSUME DeliveryAssumption, Inv, [Next]_vars PROVE Guarded
<1>1. ASSUME bind \/ Reconfigure \/ UNCHANGED vars PROVE Guarded
  BY <1>1, OtherStep DEF bind, Reconfigure, vars
<1> QED
  BY <1>1, PrepareStep, SubmitStep, FailsStep, RecordStep, AnswerStep, DelayedStep,
     DecidesStep, StopStep DEF Next

\* A request the consumer may have seen is on record as attempted, whichever
\* process or message was lost: markTransportAttempt commits before the call.
THEOREM ContactRecorded ==
  ASSUME DeliveryAssumption
  PROVE  Spec => []ContactIsRecorded
<1>1. Init => Inv  BY InvInit
<1>2. Inv /\ [Next]_vars => Inv'  BY EveryStep DEF Guarded
<1>3. Inv => ContactIsRecorded  BY DEF Inv
<1> QED  BY <1>1, <1>2, <1>3, PTL DEF Spec

\* However many operators submit at once: no step sends the request once a
\* result is durable, replaces the first result, removes an attempt or rewrites
\* an event.
THEOREM ResultsStay ==
  ASSUME DeliveryAssumption
  PROVE  Spec => [][NoSendAfterResult /\ FirstResultStays /\ EvidenceGrows]_vars
<1>1. Init => Inv  BY InvInit
<1>2. Inv /\ [Next]_vars => Inv'  BY EveryStep DEF Guarded
<1>3. Inv /\ [Next]_vars => [NoSendAfterResult /\ FirstResultStays /\ EvidenceGrows]_vars
  BY EveryStep DEF Guarded, EvidenceGrows, FirstResultStays
<1> QED  BY <1>1, <1>2, <1>3, PTL DEF Spec

-----------------------------------------------------------------------------
(* What the events tell. *)

\* The audit of a delivery never outgrows what a diagnosis reads.
EvidenceFits == 2 * MaxAttempts + 3 <= AuditWindow

\* Each event is the only one of its type and attempt.
Unique(s) ==
  \A i, j \in 1 .. Len(s) : s[i].type = s[j].type /\ s[i].attempt = s[j].attempt => i = j

\* The last attempt has no outcome that was recorded as unknown.
Open(r, s) ==
  \A u \in OfType(s, "TRANSPORT_OUTCOME_UNKNOWN") : s[u].attempt # r.transportAttempts

Results(r) ==
  (IF r.transportResult = "NONE" THEN 0 ELSE 1) + (IF r.state = "RESULT_RECORDED" THEN 1 ELSE 0)

\* Rows and events of any number of operators.
Evidence(r, s) ==
  /\ r \in Submission /\ s \in Seq(Event)
  /\ r.state = "NONE" => s = <<>> /\ r.transportAttempts = 0 /\ r.transportResult = "NONE"
  /\ Len(s) <= 2 * r.transportAttempts + 1 + Results(r)
  /\ r.transportAttempts > 0 /\ Open(r, s) => Len(s) <= 2 * r.transportAttempts + Results(r)
  /\ \A i \in 1 .. Len(s) :
       /\ s[i].attempt <= r.transportAttempts
       /\ s[i].type = "TRANSPORT_RESULT_RECORDED" => r.transportResult # "NONE"
       /\ s[i].type = "FINALIZED" => r.state = "RESULT_RECORDED"
  /\ Unique(s)

LEMMA TypesAppended ==
  ASSUME NEW s \in Seq(Event), NEW e \in Event, NEW t
  PROVE  /\ OfType(Append(s, e), t) = OfType(s, t) \cup (IF e.type = t THEN {Len(s) + 1} ELSE {})
         /\ Told(Append(s, e), t) = Told(s, t) \cup (IF e.type = t THEN {e.status} ELSE {})
<1> DEFINE z == Append(s, e)
<1>1. /\ z \in Seq(Event) /\ Len(z) = Len(s) + 1 /\ z[Len(s) + 1] = e /\ Len(s) \in Nat
      /\ \A i \in 1 .. Len(s) : z[i] = s[i]
  OBVIOUS
<1> HIDE DEF z
<1>2. OfType(z, t) = OfType(s, t) \cup (IF e.type = t THEN {Len(s) + 1} ELSE {})
  BY <1>1 DEF OfType
<1>3. Told(z, t) = Told(s, t) \cup (IF e.type = t THEN {e.status} ELSE {})
  <2>1. \A i \in OfType(s, t) : z[i].status = s[i].status
    BY <1>1 DEF OfType
  <2>2. \A x : x \in Told(z, t) <=> \E j \in OfType(z, t) : x = z[j].status
    BY DEF Told
  <2>3. \A x : x \in Told(s, t) <=> \E j \in OfType(s, t) : x = s[j].status
    BY DEF Told
  <2>4. CASE e.type = t
    BY <1>1, <1>2, <2>1, <2>2, <2>3, <2>4
  <2>5. CASE e.type # t
    BY <1>1, <1>2, <2>1, <2>2, <2>3, <2>5
  <2> QED  BY <2>4, <2>5
<1> QED  BY <1>2, <1>3 DEF z

LEMMA OtherTypes ==
  ASSUME NEW s \in Seq(Event), NEW e \in Event, NEW t, e.type # t
  PROVE  OfType(Append(s, e), t) = OfType(s, t) /\ Told(Append(s, e), t) = Told(s, t)
<1>1. /\ OfType(Append(s, e), t) = OfType(s, t) \cup {}
      /\ Told(Append(s, e), t) = Told(s, t) \cup {}
  BY TypesAppended
<1> QED  BY <1>1

LEMMA OwnType ==
  ASSUME NEW s \in Seq(Event), NEW e \in Event, NEW t, e.type = t
  PROVE  /\ OfType(Append(s, e), t) = OfType(s, t) \cup {Len(s) + 1}
         /\ Told(Append(s, e), t) = Told(s, t) \cup {e.status}
BY TypesAppended

\* What an event appended to the evidence must be for it to stay whole.
Fits(r, s, e) ==
  /\ e \in Event /\ e.attempt <= r.transportAttempts
  /\ \A i \in 1 .. Len(s) : ~ (s[i].type = e.type /\ s[i].attempt = e.attempt)
  /\ e.type = "TRANSPORT_RESULT_RECORDED" => r.transportResult # "NONE"
  /\ e.type = "FINALIZED" => r.state = "RESULT_RECORDED"

LEMMA StaysUnique ==
  ASSUME NEW r \in Submission, NEW s \in Seq(Event), Unique(s), NEW e, Fits(r, s, e),
         \A i \in 1 .. Len(s) :
           /\ s[i].attempt <= r.transportAttempts
           /\ s[i].type = "TRANSPORT_RESULT_RECORDED" => r.transportResult # "NONE"
           /\ s[i].type = "FINALIZED" => r.state = "RESULT_RECORDED"
  PROVE  /\ Append(s, e) \in Seq(Event) /\ Unique(Append(s, e))
         /\ \A i \in 1 .. Len(Append(s, e)) :
              /\ Append(s, e)[i].attempt <= r.transportAttempts
              /\ Append(s, e)[i].type = "TRANSPORT_RESULT_RECORDED" => r.transportResult # "NONE"
              /\ Append(s, e)[i].type = "FINALIZED" => r.state = "RESULT_RECORDED"
<1> DEFINE z == Append(s, e)
<1>1. /\ z \in Seq(Event) /\ Len(z) = Len(s) + 1 /\ z[Len(s) + 1] = e /\ Len(s) \in Nat
      /\ \A i \in 1 .. Len(s) : z[i] = s[i]
  BY DEF Fits
<1> HIDE DEF z
<1>2. \A i \in 1 .. Len(z) : i \in 1 .. Len(s) \/ i = Len(s) + 1
  BY <1>1
<1>3. Unique(z)
  <2> SUFFICES ASSUME NEW i \in 1 .. Len(z), NEW j \in 1 .. Len(z),
                      z[i].type = z[j].type, z[i].attempt = z[j].attempt
               PROVE  i = j
    BY DEF Unique
  <2>1. CASE i \in 1 .. Len(s) /\ j \in 1 .. Len(s)
    BY <1>1, <2>1 DEF Unique
  <2>2. CASE i \in 1 .. Len(s) /\ j = Len(s) + 1
    BY <1>1, <2>2 DEF Fits
  <2>3. CASE i = Len(s) + 1 /\ j \in 1 .. Len(s)
    BY <1>1, <2>3 DEF Fits
  <2> QED  BY <1>2, <2>1, <2>2, <2>3
<1>4. \A i \in 1 .. Len(z) :
        /\ z[i].attempt <= r.transportAttempts
        /\ z[i].type = "TRANSPORT_RESULT_RECORDED" => r.transportResult # "NONE"
        /\ z[i].type = "FINALIZED" => r.state = "RESULT_RECORDED"
  BY <1>1, <1>2 DEF Fits
<1> QED  BY <1>1, <1>3, <1>4 DEF z

LEMMA AttemptFits ==
  ASSUME DeliveryAssumption, NEW r, NEW s, Evidence(r, s), r.state # "NONE",
         r.transportAttempts < MaxAttempts
  PROVE  Evidence([r EXCEPT !.transportAttempts = @ + 1],
                  Append(s, NewEvent("TRANSPORT_ATTEMPT_STARTED", r.transportAttempts + 1, "NONE", "NONE")))
<1> DEFINE n == r.transportAttempts + 1
           q == [r EXCEPT !.transportAttempts = n]
           e == NewEvent("TRANSPORT_ATTEMPT_STARTED", n, "NONE", "NONE")
<1>1. r \in Submission /\ s \in Seq(Event) /\ r.transportAttempts \in Nat
  BY DEF Evidence, Submission, DeliveryAssumption
<1>2. n \in 0 .. MaxAttempts /\ n > r.transportAttempts
  BY <1>1 DEF Submission, DeliveryAssumption
<1>3. /\ q \in Submission /\ q.transportAttempts = n /\ q.state = r.state
      /\ q.transportResult = r.transportResult
  <2> HIDE DEF n
  <2> QED  BY <1>1, <1>2 DEF Submission
<1>4. e \in Event
  <2> HIDE DEF n
  <2> QED  BY <1>2, EventTyped DEF EventType, OptionalStatus
<1>5. e.type = "TRANSPORT_ATTEMPT_STARTED" /\ e.attempt = n
  BY DEF NewEvent
<1> HIDE DEF n, q, e
<1>6. \A i \in 1 .. Len(s) : s[i].attempt \in Nat
  <2>1. \A i \in 1 .. Len(s) : s[i] \in Event
    BY <1>1
  <2> QED  BY <2>1 DEF Event
<1>7. Fits(q, s, e)
  BY <1>1, <1>2, <1>3, <1>4, <1>5, <1>6 DEF Fits, Evidence
<1>8. \A i \in 1 .. Len(s) : s[i].attempt <= q.transportAttempts
  BY <1>1, <1>2, <1>3, <1>6 DEF Evidence
<1>9. /\ Append(s, e) \in Seq(Event) /\ Unique(Append(s, e))
      /\ \A i \in 1 .. Len(Append(s, e)) :
           /\ Append(s, e)[i].attempt <= q.transportAttempts
           /\ Append(s, e)[i].type = "TRANSPORT_RESULT_RECORDED" => q.transportResult # "NONE"
           /\ Append(s, e)[i].type = "FINALIZED" => q.state = "RESULT_RECORDED"
  BY <1>1, <1>3, <1>7, <1>8, StaysUnique DEF Evidence
<1>10. Len(Append(s, e)) = Len(s) + 1 /\ Len(s) \in Nat
  BY <1>1, <1>4
<1>11. Results(q) = Results(r) /\ Results(r) \in Nat
  BY <1>3 DEF Results
<1>12. Len(s) <= 2 * r.transportAttempts + 1 + Results(r)
  BY DEF Evidence
<1>13. Len(Append(s, e)) <= 2 * n + Results(q)
  BY <1>1, <1>10, <1>11, <1>12 DEF n
<1>14. n \in Nat /\ n # 0  BY <1>1 DEF n
<1>15. Evidence(q, Append(s, e))
  BY <1>3, <1>9, <1>10, <1>11, <1>13, <1>14 DEF Evidence
<1> QED  BY <1>15 DEF n, q, e

LEMMA UnknownFits ==
  ASSUME DeliveryAssumption, NEW r, NEW s, Evidence(r, s), r.transportAttempts # 0, Open(r, s),
         NEW issue \in Issues
  PROVE  Evidence(r, Append(s, NewEvent("TRANSPORT_OUTCOME_UNKNOWN", r.transportAttempts, issue, "NONE")))
<1> DEFINE e == NewEvent("TRANSPORT_OUTCOME_UNKNOWN", r.transportAttempts, issue, "NONE")
<1>1. r \in Submission /\ s \in Seq(Event) /\ r.transportAttempts \in 0 .. MaxAttempts
  BY DEF Evidence, Submission
<1>2. r.transportAttempts \in Nat /\ r.transportAttempts > 0 /\ r.state # "NONE"
  BY <1>1 DEF DeliveryAssumption, Evidence
<1>3. e \in Event
  BY <1>1, EventTyped DEF EventType, OptionalStatus
<1>4. e.type = "TRANSPORT_OUTCOME_UNKNOWN" /\ e.attempt = r.transportAttempts
  BY DEF NewEvent
<1> HIDE DEF e
<1>5. \A i \in 1 .. Len(s) : ~ (s[i].type = e.type /\ s[i].attempt = e.attempt)
  BY <1>4 DEF Open, OfType
<1>6. Fits(r, s, e)
  BY <1>2, <1>3, <1>4, <1>5 DEF Fits
<1>7. /\ Append(s, e) \in Seq(Event) /\ Unique(Append(s, e))
      /\ \A i \in 1 .. Len(Append(s, e)) :
           /\ Append(s, e)[i].attempt <= r.transportAttempts
           /\ Append(s, e)[i].type = "TRANSPORT_RESULT_RECORDED" => r.transportResult # "NONE"
           /\ Append(s, e)[i].type = "FINALIZED" => r.state = "RESULT_RECORDED"
  BY <1>1, <1>6, StaysUnique DEF Evidence
<1>8. Len(Append(s, e)) = Len(s) + 1 /\ Len(s) \in Nat /\ Append(s, e)[Len(s) + 1] = e
  BY <1>1, <1>3
<1>9. ~ Open(r, Append(s, e))
  BY <1>4, <1>8 DEF Open, OfType
<1>10. Len(s) <= 2 * r.transportAttempts + Results(r) /\ Results(r) \in Nat
  BY <1>2 DEF Evidence, Results
<1>11. Len(Append(s, e)) <= 2 * r.transportAttempts + 1 + Results(r)
  BY <1>2, <1>8, <1>10
<1> QED  BY <1>1, <1>2, <1>7, <1>9, <1>11 DEF Evidence, e

\* A row to which a result or its finalization is added, with one more event.
LEMMA ResultsFit ==
  ASSUME DeliveryAssumption, NEW r, NEW s, Evidence(r, s), r.state # "NONE",
         NEW q \in Submission, q.state # "NONE", q.transportAttempts = r.transportAttempts,
         Results(q) = Results(r) + 1,
         r.transportResult # "NONE" => q.transportResult # "NONE",
         r.state = "RESULT_RECORDED" => q.state = "RESULT_RECORDED",
         NEW e, Fits(q, s, e), e.type # "TRANSPORT_OUTCOME_UNKNOWN"
  PROVE  Evidence(q, Append(s, e))
<1>1. r \in Submission /\ s \in Seq(Event) /\ r.transportAttempts \in Nat /\ e \in Event
  BY DEF Evidence, Submission, DeliveryAssumption, Fits
<1>2. /\ Append(s, e) \in Seq(Event) /\ Unique(Append(s, e))
      /\ \A i \in 1 .. Len(Append(s, e)) :
           /\ Append(s, e)[i].attempt <= q.transportAttempts
           /\ Append(s, e)[i].type = "TRANSPORT_RESULT_RECORDED" => q.transportResult # "NONE"
           /\ Append(s, e)[i].type = "FINALIZED" => q.state = "RESULT_RECORDED"
  BY <1>1, StaysUnique DEF Evidence
<1>3. Len(Append(s, e)) = Len(s) + 1 /\ Len(s) \in Nat
      /\ \A i \in 1 .. Len(s) : Append(s, e)[i] = s[i] /\ i \in 1 .. Len(Append(s, e))
  BY <1>1
<1>4. Open(q, Append(s, e)) => Open(r, s)
  BY <1>3 DEF Open, OfType
<1>5. Results(r) \in Nat
  BY DEF Results
<1>6. Len(Append(s, e)) <= 2 * q.transportAttempts + 1 + Results(q)
  BY <1>1, <1>3, <1>5 DEF Evidence
<1>7. q.transportAttempts > 0 /\ Open(q, Append(s, e)) =>
        Len(Append(s, e)) <= 2 * q.transportAttempts + Results(q)
  BY <1>1, <1>3, <1>4, <1>5 DEF Evidence
<1> QED  BY <1>2, <1>6, <1>7 DEF Evidence

LEMMA ResultFits ==
  ASSUME DeliveryAssumption, NEW r, NEW s, Evidence(r, s), r.state # "NONE",
         r.transportResult = "NONE", NEW status \in Status
  PROVE  Evidence([r EXCEPT !.transportResult = status],
                  Append(s, NewEvent("TRANSPORT_RESULT_RECORDED", r.transportAttempts, "NONE", status)))
<1> DEFINE q == [r EXCEPT !.transportResult = status]
           e == NewEvent("TRANSPORT_RESULT_RECORDED", r.transportAttempts, "NONE", status)
<1>1. /\ r \in Submission /\ s \in Seq(Event) /\ r.transportAttempts \in 0 .. MaxAttempts
      /\ r.transportAttempts \in Nat /\ status \in OptionalStatus /\ status # "NONE"
  BY DEF Evidence, Submission, Status, OptionalStatus, DeliveryAssumption
<1>2. /\ q \in Submission /\ q.transportAttempts = r.transportAttempts /\ q.state = r.state
      /\ q.transportResult = status
  BY <1>1 DEF Submission
<1>3. e \in Event
  BY <1>1, EventTyped DEF EventType
<1>4. e.type = "TRANSPORT_RESULT_RECORDED" /\ e.attempt = r.transportAttempts
  BY DEF NewEvent
<1> HIDE DEF q, e
<1>5. Fits(q, s, e)
  BY <1>1, <1>2, <1>3, <1>4 DEF Fits, Evidence
<1>6. Results(q) = Results(r) + 1
  BY <1>1, <1>2 DEF Results
<1>7. Evidence(q, Append(s, e))
  BY <1>1, <1>2, <1>4, <1>5, <1>6, ResultsFit
<1> QED  BY <1>7 DEF q, e

LEMMA FinalFits ==
  ASSUME DeliveryAssumption, NEW r, NEW s, Evidence(r, s), r.state = "PENDING",
         NEW status \in OptionalStatus
  PROVE  Evidence([r EXCEPT !.state = "RESULT_RECORDED", !.result = status],
                  Append(s, NewEvent("FINALIZED", r.transportAttempts, "NONE", status)))
<1> DEFINE q == [r EXCEPT !.state = "RESULT_RECORDED", !.result = status]
           e == NewEvent("FINALIZED", r.transportAttempts, "NONE", status)
<1>1. /\ r \in Submission /\ s \in Seq(Event) /\ r.transportAttempts \in 0 .. MaxAttempts
      /\ r.transportAttempts \in Nat
  BY DEF Evidence, Submission, DeliveryAssumption
<1>2. /\ q \in Submission /\ q.transportAttempts = r.transportAttempts
      /\ q.state = "RESULT_RECORDED" /\ q.transportResult = r.transportResult
  BY <1>1 DEF Submission
<1>3. e \in Event
  BY <1>1, EventTyped DEF EventType
<1>4. e.type = "FINALIZED" /\ e.attempt = r.transportAttempts
  BY DEF NewEvent
<1> HIDE DEF q, e
<1>5. Fits(q, s, e)
  BY <1>1, <1>2, <1>3, <1>4 DEF Fits, Evidence
<1>6. Results(q) = Results(r) + 1
  BY <1>2 DEF Results
<1>7. Evidence(q, Append(s, e))
  BY <1>1, <1>2, <1>4, <1>5, <1>6, ResultsFit
<1> QED  BY <1>7 DEF q, e

\* The part that is read before a request, or by it, is all there is.
LEMMA AllIsRead ==
  ASSUME DeliveryAssumption, EvidenceFits, Evidence(submission, audit)
  PROVE  listAuditEvents = audit
<1>1. /\ audit \in Seq(Event) /\ submission.transportAttempts \in 0 .. MaxAttempts
      /\ MaxAttempts \in Nat /\ AuditWindow \in Nat
  BY DEF Evidence, Submission, DeliveryAssumption
<1>2. Results(submission) \in 0 .. 2
  BY DEF Results
<1>3. Len(audit) <= 2 * submission.transportAttempts + 1 + Results(submission)
  BY DEF Evidence
<1>4. Len(audit) <= AuditWindow
  BY <1>1, <1>2, <1>3 DEF EvidenceFits
<1>5. SubSeq(audit, 1, Len(audit)) = audit
  BY <1>1
<1> QED  BY <1>4, <1>5 DEF listAuditEvents

\* A finalization adds its event or changes nothing.
LEMMA FinalKept ==
  ASSUME DeliveryAssumption, NEW row, NEW events, Evidence(row, events), row.state # "NONE",
         NEW status \in OptionalStatus, recordResult(row, events, status)
  PROVE  Evidence(submission, audit)'
<1>1. CASE submission' = row /\ audit' = events
  BY <1>1
<1>2. CASE /\ row.state # "RESULT_RECORDED"
           /\ submission' = [row EXCEPT !.state = "RESULT_RECORDED", !.result = status]
           /\ audit' = Append(events, NewEvent("FINALIZED", row.transportAttempts, "NONE", status))
  <2>1. row.state = "PENDING"
    BY <1>2 DEF Evidence, Submission
  <2>2. Evidence([row EXCEPT !.state = "RESULT_RECORDED", !.result = status],
                 Append(events, NewEvent("FINALIZED", row.transportAttempts, "NONE", status)))
    BY <2>1, FinalFits
  <2> QED  BY <1>2, <2>2
<1> QED  BY <1>1, <1>2 DEF recordResult

LEMMA StoredKept ==
  ASSUME DeliveryAssumption, Evidence(submission, audit), submission.state # "NONE",
         NEW status \in Status
  PROVE  /\ Evidence(WithTransportResult(status)[1], WithTransportResult(status)[2])
         /\ WithTransportResult(status)[1].state = submission.state
<1>1. CASE submission.transportResult # "NONE"
  BY <1>1 DEF WithTransportResult
<1>2. CASE submission.transportResult = "NONE"
  <2> DEFINE q == [submission EXCEPT !.transportResult = status]
             s == Append(audit, NewEvent("TRANSPORT_RESULT_RECORDED",
                                         submission.transportAttempts, "NONE", status))
  <2>1. Evidence(q, s)  BY <1>2, ResultFits
  <2>2. q.state = submission.state  BY DEF Evidence, Submission
  <2>3. WithTransportResult(status) = <<q, s>>
    BY <1>2 DEF WithTransportResult
  <2> HIDE DEF q, s
  <2> QED  BY <2>1, <2>2, <2>3
<1> QED  BY <1>1, <1>2

LEMMA PreparedFits ==
  ASSUME DeliveryAssumption, Evidence(submission, audit), prepare
  PROVE  Evidence(submission, audit)'
<1> DEFINE e == NewEvent("PREPARED", 0, "NONE", "NONE")
<1>1. /\ submission.state = "NONE" /\ submission.transportAttempts = 0
      /\ submission' = [submission EXCEPT !.state = "PENDING"] /\ audit' = <<e>>
  BY DEF prepare, Evidence
<1>2. /\ submission' \in Submission /\ submission'.state = "PENDING"
      /\ submission'.transportAttempts = 0
  BY <1>1 DEF Evidence, Submission
<1>3. e \in Event
  BY EventTyped DEF DeliveryAssumption, EventType, OptionalStatus
<1>4. e.type = "PREPARED" /\ e.attempt = 0
  BY DEF NewEvent
<1> HIDE DEF e
<1>5. audit' \in Seq(Event) /\ Len(audit') = 1 /\ \A i \in 1 .. Len(audit') : audit'[i] = e /\ i = 1
  BY <1>1, <1>3
<1>6. Unique(audit')
  BY <1>5 DEF Unique
<1>7. Results(submission') \in Nat
  BY DEF Results
<1> QED  BY <1>2, <1>4, <1>5, <1>6, <1>7 DEF Evidence

LEMMA EvidenceKept ==
  ASSUME DeliveryAssumption, EvidenceFits, Inv, Evidence(submission, audit), [Next]_vars
  PROVE  Evidence(submission, audit)'
<1>1. ASSUME UNCHANGED <<submission, audit>> PROVE Evidence(submission, audit)'
  BY <1>1
<1>2. ASSUME NEW q \in Requests, submit(q) PROVE Evidence(submission, audit)'
  <2>1. submission.state # "NONE" /\ submission.transportResult \in OptionalStatus
    BY <1>2 DEF submit, Evidence, Submission
  <2>2. CASE recordResult(submission, audit, submission.transportResult)
    BY <2>1, <2>2, FinalKept
  <2>3. CASE submitOverNetwork(q)
    BY <2>1, <2>3, AttemptFits DEF submitOverNetwork, markTransportAttempt
  <2> QED  BY <1>2, <2>2, <2>3 DEF submit
<1>3. ASSUME NEW q \in Requests, NEW issue \in Issues, TransportFails(q, issue)
      PROVE  Evidence(submission, audit)'
  <2>1. UNCHANGED submission  BY <1>3 DEF TransportFails
  <2>2. CASE audit' = audit
    BY <2>1, <2>2
  <2>3. CASE /\ submission.transportAttempts # 0
             /\ {u \in OfType(audit, "TRANSPORT_OUTCOME_UNKNOWN") :
                   audit[u].attempt = submission.transportAttempts} = {}
             /\ audit' = Append(audit, NewEvent("TRANSPORT_OUTCOME_UNKNOWN",
                                                submission.transportAttempts, issue, "NONE"))
    <3>1. Open(submission, audit)  BY <2>3 DEF Open
    <3> QED  BY <2>1, <2>3, <3>1, UnknownFits
  <2> QED  BY <1>3, <2>2, <2>3, AllIsRead DEF TransportFails, recordTransportUncertainty
<1>4. ASSUME NEW q \in Requests, recordTransportResult(q) PROVE Evidence(submission, audit)'
  <2> DEFINE status == call[q].status
             stored == WithTransportResult(status)
  <2>1. call[q] # Idle /\ status \in Status
    BY <1>4, CallStates DEF recordTransportResult, Inv, CallsTyped, Calls
  <2>2. submission.state # "NONE"  BY <2>1, FrozenWhenCalled
  <2>3. Evidence(stored[1], stored[2]) /\ stored[1].state # "NONE"
    BY <2>1, <2>2, StoredKept
  <2>4. \/ recordResult(stored[1], stored[2], status)
        \/ submission' = stored[1] /\ audit' = stored[2]
    BY <1>4 DEF recordTransportResult
  <2> HIDE DEF stored, status
  <2> QED  BY <2>1, <2>3, <2>4, FinalKept DEF OptionalStatus
<1> QED
  BY <1>1, <1>2, <1>3, <1>4, PreparedFits
  DEF Next, vars, bind, Reconfigure, Stop, ConsumerAnswers, DelayedMessageArrives, ConsumerDecides

-----------------------------------------------------------------------------
(* What a diagnosis makes of requests that follow one another. *)

OneOperator == \A q, r \in Requests : q = r

\* The events are in order and tell the row.
Exact(r, s) ==
  /\ \A i \in 1 .. Len(s) : EventInOrder(s, i)
  /\ r.state # "NONE" => s # <<>> /\ s[1].type = "PREPARED"
  /\ r.transportAttempts = Cardinality(OfType(s, "TRANSPORT_ATTEMPT_STARTED"))
  /\ Told(s, "TRANSPORT_RESULT_RECORDED") = {r.transportResult} \ {"NONE"}
  /\ Told(s, "FINALIZED") = {r.result} \ {"NONE"}
  /\ r.state = "RESULT_RECORDED" <=> OfType(s, "FINALIZED") # {}
  /\ r.state = "RESULT_RECORDED" => r.transportResult # "NONE"
  /\ \A j \in OfType(s, "TRANSPORT_RESULT_RECORDED") : s[j].attempt = r.transportAttempts

\* What one operator waits for is the outcome of the last attempt.
Awaited ==
  (\E q \in Requests : call[q] # Idle) =>
    /\ submission.state = "PENDING" /\ submission.transportResult = "NONE"
    /\ submission.transportAttempts > 0 /\ Open(submission, audit)

LEMMA Positions ==
  ASSUME NEW s \in Seq(Event), NEW t
  PROVE  /\ OfType(s, t) \in SUBSET (1 .. Len(s)) /\ IsFiniteSet(OfType(s, t))
         /\ Cardinality(OfType(s, t)) \in Nat
         /\ OfType(s, t) = {} <=> Told(s, t) = {}
         /\ OfType(s, t) = {} <=> Cardinality(OfType(s, t)) = 0
<1>1. OfType(s, t) \in SUBSET (1 .. Len(s)) /\ Len(s) \in Nat
  BY DEF OfType
<1>2. IsFiniteSet(1 .. Len(s))
  BY <1>1, FS_Interval
<1>3. IsFiniteSet(OfType(s, t))
  BY <1>1, <1>2, FS_Subset
<1>4. Cardinality(OfType(s, t)) \in Nat
  BY <1>3, FS_CardinalityType
<1>5. OfType(s, t) = {} <=> Cardinality(OfType(s, t)) = 0
  BY <1>3, FS_EmptySet
<1> QED  BY <1>1, <1>3, <1>4, <1>5 DEF Told

LEMMA CountAppended ==
  ASSUME NEW s \in Seq(Event), NEW e \in Event, NEW t
  PROVE  Cardinality(OfType(Append(s, e), t)) =
           Cardinality(OfType(s, t)) + (IF e.type = t THEN 1 ELSE 0)
<1>1. /\ OfType(s, t) \in SUBSET (1 .. Len(s)) /\ IsFiniteSet(OfType(s, t))
      /\ Cardinality(OfType(s, t)) \in Nat /\ Len(s) \in Nat
  BY Positions
<1>2. Len(s) + 1 \notin OfType(s, t)
  BY <1>1
<1>3. Cardinality(OfType(s, t) \cup {Len(s) + 1}) = Cardinality(OfType(s, t)) + 1
  BY <1>1, <1>2, FS_AddElement
<1>4. CASE e.type = t
  <2>1. OfType(Append(s, e), t) = OfType(s, t) \cup {Len(s) + 1}
    BY <1>4, OwnType
  <2> QED  BY <1>3, <1>4, <2>1
<1>5. CASE e.type # t
  <2>1. OfType(Append(s, e), t) = OfType(s, t)
    BY <1>5, OtherTypes
  <2> QED  BY <1>1, <1>5, <2>1
<1> QED  BY <1>4, <1>5

LEMMA OrderAppended ==
  ASSUME NEW s \in Seq(Event), NEW e \in Event,
         \A i \in 1 .. Len(s) : EventInOrder(s, i),
         OfType(s, "FINALIZED") = {},
         e.type = "PREPARED" => s = <<>>,
         e.type = "TRANSPORT_ATTEMPT_STARTED" =>
           /\ OfType(s, "TRANSPORT_RESULT_RECORDED") = {}
           /\ e.attempt = Cardinality(OfType(s, "TRANSPORT_ATTEMPT_STARTED")) + 1,
         e.type \in {"TRANSPORT_OUTCOME_UNKNOWN", "TRANSPORT_RESULT_RECORDED"} =>
           /\ OfType(s, "TRANSPORT_RESULT_RECORDED") = {}
           /\ Cardinality(OfType(s, "TRANSPORT_ATTEMPT_STARTED")) > 0
           /\ e.attempt = Cardinality(OfType(s, "TRANSPORT_ATTEMPT_STARTED"))
           /\ \A u \in OfType(s, "TRANSPORT_OUTCOME_UNKNOWN") : s[u].attempt # e.attempt,
         e.type = "FINALIZED" =>
           \E r \in OfType(s, "TRANSPORT_RESULT_RECORDED") :
             e.attempt = s[r].attempt /\ e.status = s[r].status
  PROVE  \A i \in 1 .. Len(Append(s, e)) : EventInOrder(Append(s, e), i)
<1> DEFINE z == Append(s, e)
<1>1. /\ z \in Seq(Event) /\ Len(z) = Len(s) + 1 /\ z[Len(s) + 1] = e /\ Len(s) \in Nat
      /\ \A i \in 1 .. Len(s) : z[i] = s[i]
  OBVIOUS
<1>2. \A t : OfType(z, t) = OfType(s, t) \cup (IF e.type = t THEN {Len(s) + 1} ELSE {})
  BY TypesAppended
<1> HIDE DEF z
<1>3. \A t : OfType(s, t) \in SUBSET (1 .. Len(s))
  BY <1>1 DEF OfType
<1>4. \A t : \A i \in 1 .. Len(s) : Before(z, t, i) = Before(s, t, i)
  BY <1>1, <1>2, <1>3 DEF Before
<1>5. \A t : Before(z, t, Len(s) + 1) = OfType(s, t)
  BY <1>1, <1>2, <1>3 DEF Before
<1>6. \A t : \A i \in 1 .. Len(s) : \A u \in Before(s, t, i) : z[u] = s[u]
  BY <1>1, <1>3 DEF Before
<1>7. \A t : \A u \in OfType(s, t) : z[u] = s[u]
  BY <1>1, <1>3
<1>8. ASSUME NEW i \in 1 .. Len(s) PROVE EventInOrder(z, i)
  <2>1. EventInOrder(s, i) /\ z[i] = s[i]
    BY <1>1
  <2>2. /\ Before(z, "TRANSPORT_ATTEMPT_STARTED", i) = Before(s, "TRANSPORT_ATTEMPT_STARTED", i)
        /\ Before(z, "TRANSPORT_RESULT_RECORDED", i) = Before(s, "TRANSPORT_RESULT_RECORDED", i)
        /\ Before(z, "TRANSPORT_OUTCOME_UNKNOWN", i) = Before(s, "TRANSPORT_OUTCOME_UNKNOWN", i)
        /\ Before(z, "FINALIZED", i) = Before(s, "FINALIZED", i)
    BY <1>4
  <2>3. /\ \A u \in Before(s, "TRANSPORT_OUTCOME_UNKNOWN", i) : z[u] = s[u]
        /\ \A u \in Before(s, "TRANSPORT_RESULT_RECORDED", i) : z[u] = s[u]
    BY <1>6
  <2> QED  BY <2>1, <2>2, <2>3 DEF EventInOrder
<1>9. EventInOrder(z, Len(s) + 1)
  <2>1. /\ Before(z, "TRANSPORT_ATTEMPT_STARTED", Len(s) + 1) = OfType(s, "TRANSPORT_ATTEMPT_STARTED")
        /\ Before(z, "TRANSPORT_RESULT_RECORDED", Len(s) + 1) = OfType(s, "TRANSPORT_RESULT_RECORDED")
        /\ Before(z, "TRANSPORT_OUTCOME_UNKNOWN", Len(s) + 1) = OfType(s, "TRANSPORT_OUTCOME_UNKNOWN")
        /\ Before(z, "FINALIZED", Len(s) + 1) = OfType(s, "FINALIZED")
    BY <1>5
  <2>2. e.type = "PREPARED" => Len(s) + 1 = 1
    OBVIOUS
  <2>3. /\ \A u \in OfType(s, "TRANSPORT_OUTCOME_UNKNOWN") : z[u] = s[u]
        /\ \A u \in OfType(s, "TRANSPORT_RESULT_RECORDED") : z[u] = s[u]
    BY <1>7
  <2> QED  BY <1>1, <2>1, <2>2, <2>3 DEF EventInOrder
<1>10. \A i \in 1 .. Len(z) : i \in 1 .. Len(s) \/ i = Len(s) + 1
  BY <1>1
<1>11. \A i \in 1 .. Len(z) : EventInOrder(z, i)
  BY <1>8, <1>9, <1>10
<1> QED  BY <1>11 DEF z

\* Before there is a result, no event tells one.
LEMMA NoneYet ==
  ASSUME NEW r \in Submission, NEW s \in Seq(Event), Exact(r, s), r.transportResult = "NONE"
  PROVE  /\ OfType(s, "TRANSPORT_RESULT_RECORDED") = {} /\ OfType(s, "FINALIZED") = {}
         /\ r.state # "RESULT_RECORDED"
BY Positions DEF Exact

LEMMA ExactAttempt ==
  ASSUME DeliveryAssumption, NEW r \in Submission, NEW s \in Seq(Event), Exact(r, s),
         r.state = "PENDING", r.transportResult = "NONE", r.transportAttempts < MaxAttempts
  PROVE  Exact([r EXCEPT !.transportAttempts = @ + 1],
               Append(s, NewEvent("TRANSPORT_ATTEMPT_STARTED", r.transportAttempts + 1, "NONE", "NONE")))
<1> DEFINE n == r.transportAttempts + 1
           q == [r EXCEPT !.transportAttempts = n]
           e == NewEvent("TRANSPORT_ATTEMPT_STARTED", n, "NONE", "NONE")
           z == Append(s, e)
<1>1. r.transportAttempts \in 0 .. MaxAttempts /\ n \in 0 .. MaxAttempts
  BY DEF Submission, DeliveryAssumption
<1>2. e \in Event
  <2> HIDE DEF n
  <2> QED  BY <1>1, EventTyped DEF EventType, OptionalStatus
<1>3. e.type = "TRANSPORT_ATTEMPT_STARTED" /\ e.attempt = n
  BY DEF NewEvent
<1>4. /\ q.transportAttempts = n /\ q.state = r.state /\ q.result = r.result
      /\ q.transportResult = r.transportResult
  <2> HIDE DEF n
  <2> QED  BY DEF Submission
<1>5. n = Cardinality(OfType(s, "TRANSPORT_ATTEMPT_STARTED")) + 1
  BY DEF Exact
<1>6. OfType(s, "TRANSPORT_RESULT_RECORDED") = {} /\ OfType(s, "FINALIZED") = {}
  BY NoneYet
<1> HIDE DEF n, q, e
<1>7. \A i \in 1 .. Len(z) : EventInOrder(z, i)
  BY <1>2, <1>3, <1>5, <1>6, OrderAppended DEF Exact
<1>8. Cardinality(OfType(z, "TRANSPORT_ATTEMPT_STARTED")) = n
  BY <1>2, <1>3, <1>5, CountAppended
<1>9. /\ Told(z, "TRANSPORT_RESULT_RECORDED") = Told(s, "TRANSPORT_RESULT_RECORDED")
      /\ Told(z, "FINALIZED") = Told(s, "FINALIZED")
      /\ OfType(z, "TRANSPORT_RESULT_RECORDED") = {} /\ OfType(z, "FINALIZED") = {}
  <2>1. e.type # "TRANSPORT_RESULT_RECORDED" /\ e.type # "FINALIZED"
    BY <1>3
  <2> QED  BY <1>2, <1>6, <2>1, OtherTypes
<1>10. z # <<>> /\ z[1].type = "PREPARED"
  BY <1>2 DEF Exact
<1> HIDE DEF z
<1>11. Exact(q, z)
  BY <1>4, <1>7, <1>8, <1>9, <1>10 DEF Exact
<1> QED  BY <1>11 DEF n, q, e, z

LEMMA ExactUnknown ==
  ASSUME DeliveryAssumption, NEW r \in Submission, NEW s \in Seq(Event), Exact(r, s),
         r.state = "PENDING", r.transportResult = "NONE", r.transportAttempts > 0, Open(r, s),
         NEW issue \in Issues
  PROVE  Exact(r, Append(s, NewEvent("TRANSPORT_OUTCOME_UNKNOWN", r.transportAttempts, issue, "NONE")))
<1> DEFINE e == NewEvent("TRANSPORT_OUTCOME_UNKNOWN", r.transportAttempts, issue, "NONE")
           z == Append(s, e)
<1>1. e \in Event
  BY EventTyped DEF Submission, EventType, OptionalStatus
<1>2. e.type = "TRANSPORT_OUTCOME_UNKNOWN" /\ e.attempt = r.transportAttempts
  BY DEF NewEvent
<1>3. OfType(s, "TRANSPORT_RESULT_RECORDED") = {} /\ OfType(s, "FINALIZED") = {}
  BY NoneYet
<1> HIDE DEF e
<1>4. \A i \in 1 .. Len(z) : EventInOrder(z, i)
  BY <1>1, <1>2, <1>3, OrderAppended DEF Exact, Open
<1>5. Cardinality(OfType(z, "TRANSPORT_ATTEMPT_STARTED")) = r.transportAttempts
  BY <1>1, <1>2, CountAppended, Positions DEF Exact
<1>6. /\ Told(z, "TRANSPORT_RESULT_RECORDED") = Told(s, "TRANSPORT_RESULT_RECORDED")
      /\ Told(z, "FINALIZED") = Told(s, "FINALIZED")
      /\ OfType(z, "TRANSPORT_RESULT_RECORDED") = {} /\ OfType(z, "FINALIZED") = {}
  <2>1. e.type # "TRANSPORT_RESULT_RECORDED" /\ e.type # "FINALIZED"
    BY <1>2
  <2> QED  BY <1>1, <1>3, <2>1, OtherTypes
<1>7. z # <<>> /\ z[1].type = "PREPARED"
  BY <1>1 DEF Exact
<1> HIDE DEF z
<1>8. Exact(r, z)
  BY <1>4, <1>5, <1>6, <1>7 DEF Exact
<1> QED  BY <1>8 DEF e, z

LEMMA ExactResult ==
  ASSUME DeliveryAssumption, NEW r \in Submission, NEW s \in Seq(Event), Exact(r, s),
         r.state = "PENDING", r.transportResult = "NONE", r.transportAttempts > 0, Open(r, s),
         NEW status \in Status
  PROVE  Exact([r EXCEPT !.transportResult = status],
               Append(s, NewEvent("TRANSPORT_RESULT_RECORDED", r.transportAttempts, "NONE", status)))
<1> DEFINE q == [r EXCEPT !.transportResult = status]
           e == NewEvent("TRANSPORT_RESULT_RECORDED", r.transportAttempts, "NONE", status)
           z == Append(s, e)
<1>1. e \in Event
  BY EventTyped DEF Submission, EventType, OptionalStatus
<1>2. e.type = "TRANSPORT_RESULT_RECORDED" /\ e.attempt = r.transportAttempts /\ e.status = status
  BY DEF NewEvent
<1>3. OfType(s, "TRANSPORT_RESULT_RECORDED") = {} /\ OfType(s, "FINALIZED") = {}
  BY NoneYet
<1>4. /\ q.transportAttempts = r.transportAttempts /\ q.state = r.state /\ q.result = r.result
      /\ q.transportResult = status /\ status # "NONE"
  BY DEF Submission, Status
<1> HIDE DEF q, e
<1>5. \A i \in 1 .. Len(z) : EventInOrder(z, i)
  BY <1>1, <1>2, <1>3, OrderAppended DEF Exact, Open
<1>6. Cardinality(OfType(z, "TRANSPORT_ATTEMPT_STARTED")) = r.transportAttempts
  BY <1>1, <1>2, CountAppended, Positions DEF Exact
<1>7. /\ Told(s, "TRANSPORT_RESULT_RECORDED") = {}
      /\ Told(z, "TRANSPORT_RESULT_RECORDED") = Told(s, "TRANSPORT_RESULT_RECORDED") \cup {status}
      /\ Told(z, "FINALIZED") = Told(s, "FINALIZED")
      /\ OfType(z, "TRANSPORT_RESULT_RECORDED") = {Len(s) + 1} /\ OfType(z, "FINALIZED") = {}
  <2>1. e.type # "FINALIZED"
    BY <1>2
  <2>2. Told(s, "TRANSPORT_RESULT_RECORDED") = {}
    BY <1>3 DEF Told
  <2>3. /\ OfType(z, "TRANSPORT_RESULT_RECORDED") =
             OfType(s, "TRANSPORT_RESULT_RECORDED") \cup {Len(s) + 1}
        /\ Told(z, "TRANSPORT_RESULT_RECORDED") =
             Told(s, "TRANSPORT_RESULT_RECORDED") \cup {e.status}
    BY <1>1, <1>2, OwnType
  <2>4. OfType(z, "FINALIZED") = OfType(s, "FINALIZED") /\ Told(z, "FINALIZED") = Told(s, "FINALIZED")
    BY <1>1, <2>1, OtherTypes
  <2> HIDE DEF z
  <2> QED  BY <1>2, <1>3, <2>2, <2>3, <2>4
<1>8. z # <<>> /\ z[1].type = "PREPARED" /\ z[Len(s) + 1] = e
  BY <1>1 DEF Exact
<1> HIDE DEF z
<1>9. Exact(q, z)
  BY <1>2, <1>4, <1>5, <1>6, <1>7, <1>8 DEF Exact
<1> QED  BY <1>9 DEF q, e, z

LEMMA ExactFinal ==
  ASSUME DeliveryAssumption, NEW r \in Submission, NEW s \in Seq(Event), Exact(r, s),
         r.state = "PENDING", r.transportResult # "NONE"
  PROVE  Exact([r EXCEPT !.state = "RESULT_RECORDED", !.result = r.transportResult],
               Append(s, NewEvent("FINALIZED", r.transportAttempts, "NONE", r.transportResult)))
<1> DEFINE q == [r EXCEPT !.state = "RESULT_RECORDED", !.result = r.transportResult]
           e == NewEvent("FINALIZED", r.transportAttempts, "NONE", r.transportResult)
           z == Append(s, e)
<1>1. e \in Event
  BY EventTyped DEF Submission, EventType, OptionalStatus
<1>2. e.type = "FINALIZED" /\ e.attempt = r.transportAttempts /\ e.status = r.transportResult
  BY DEF NewEvent
<1>3. /\ q.transportAttempts = r.transportAttempts /\ q.state = "RESULT_RECORDED"
      /\ q.result = r.transportResult /\ q.transportResult = r.transportResult
  BY DEF Submission
<1>4. OfType(s, "FINALIZED") = {} /\ Told(s, "FINALIZED") = {}
  BY Positions DEF Exact
<1>5. \E j \in OfType(s, "TRANSPORT_RESULT_RECORDED") :
        s[j].attempt = r.transportAttempts /\ s[j].status = r.transportResult
  <2>1. r.transportResult \in Told(s, "TRANSPORT_RESULT_RECORDED")
    BY DEF Exact
  <2> QED  BY <2>1 DEF Told, Exact
<1> HIDE DEF q, e
<1>6. \A i \in 1 .. Len(z) : EventInOrder(z, i)
  BY <1>1, <1>2, <1>4, <1>5, OrderAppended DEF Exact
<1>7. Cardinality(OfType(z, "TRANSPORT_ATTEMPT_STARTED")) = r.transportAttempts
  BY <1>1, <1>2, CountAppended, Positions DEF Exact
<1>8. /\ Told(z, "TRANSPORT_RESULT_RECORDED") = Told(s, "TRANSPORT_RESULT_RECORDED")
      /\ Told(z, "FINALIZED") = {r.transportResult}
      /\ OfType(z, "TRANSPORT_RESULT_RECORDED") = OfType(s, "TRANSPORT_RESULT_RECORDED")
      /\ OfType(z, "FINALIZED") # {}
  <2>1. e.type # "TRANSPORT_RESULT_RECORDED"
    BY <1>2
  <2>2. OfType(z, "FINALIZED") = OfType(s, "FINALIZED") \cup {Len(s) + 1}
        /\ Told(z, "FINALIZED") = Told(s, "FINALIZED") \cup {e.status}
    BY <1>1, <1>2, OwnType
  <2>3. /\ Told(z, "TRANSPORT_RESULT_RECORDED") = Told(s, "TRANSPORT_RESULT_RECORDED")
        /\ OfType(z, "TRANSPORT_RESULT_RECORDED") = OfType(s, "TRANSPORT_RESULT_RECORDED")
    BY <1>1, <2>1, OtherTypes
  <2> HIDE DEF z
  <2> QED  BY <1>2, <1>4, <2>2, <2>3
<1>9. z # <<>> /\ z[1].type = "PREPARED"
  BY <1>1 DEF Exact
<1>10. \A j \in OfType(s, "TRANSPORT_RESULT_RECORDED") : z[j] = s[j]
  BY <1>1, Positions
<1> HIDE DEF z
<1>11. Exact(q, z)
  BY <1>3, <1>6, <1>7, <1>8, <1>9, <1>10 DEF Exact
<1> QED  BY <1>11 DEF q, e, z

LEMMA ExactPrepared ==
  ASSUME DeliveryAssumption, Evidence(submission, audit), Exact(submission, audit), prepare
  PROVE  Exact(submission, audit)'
<1> DEFINE e == NewEvent("PREPARED", 0, "NONE", "NONE")
<1>1. /\ submission \in Submission /\ submission.state = "NONE" /\ submission.transportAttempts = 0
      /\ submission' = [submission EXCEPT !.state = "PENDING"] /\ audit' = <<e>> /\ audit = <<>>
  BY DEF prepare, Evidence
<1>2. Told(audit, "TRANSPORT_RESULT_RECORDED") = {} /\ Told(audit, "FINALIZED") = {}
  BY <1>1 DEF Told, OfType
<1>3. submission.transportResult = "NONE" /\ submission.result = "NONE"
  BY <1>2 DEF Exact
<1>4. /\ submission'.state = "PENDING" /\ submission'.transportAttempts = 0
      /\ submission'.transportResult = "NONE" /\ submission'.result = "NONE"
  BY <1>1, <1>3 DEF Submission
<1>5. e.type = "PREPARED"
  BY DEF NewEvent
<1> HIDE DEF e
<1>6. audit' # <<>> /\ Len(audit') = 1 /\ audit'[1] = e /\ \A i \in 1 .. Len(audit') : i = 1
  BY <1>1
<1>7. \A t : t # "PREPARED" => OfType(audit', t) = {} /\ Told(audit', t) = {}
  BY <1>5, <1>6 DEF OfType, Told
<1>8. Cardinality(OfType(audit', "TRANSPORT_ATTEMPT_STARTED")) = 0
  BY <1>7, FS_EmptySet
<1>9. Before(audit', "FINALIZED", 1) = {}
  BY <1>7 DEF Before
<1>10. \A i \in 1 .. Len(audit') : EventInOrder(audit', i)
  BY <1>5, <1>6, <1>9 DEF EventInOrder
<1> QED  BY <1>4, <1>5, <1>6, <1>7, <1>8, <1>10 DEF Exact

\* The finalization that a submit or the recording of a result ends with.
LEMMA ExactRecorded ==
  ASSUME DeliveryAssumption, NEW row \in Submission, NEW events \in Seq(Event), Exact(row, events),
         row.state # "NONE", row.transportResult # "NONE",
         recordResult(row, events, row.transportResult)
  PROVE  Exact(submission, audit)'
<1>1. CASE submission' = row /\ audit' = events
  BY <1>1
<1>2. CASE /\ row.state # "RESULT_RECORDED"
           /\ submission' = [row EXCEPT !.state = "RESULT_RECORDED", !.result = row.transportResult]
           /\ audit' = Append(events, NewEvent("FINALIZED", row.transportAttempts, "NONE",
                                               row.transportResult))
  <2>1. row.state = "PENDING"
    BY <1>2 DEF Submission
  <2> QED  BY <1>2, <2>1, ExactFinal
<1> QED  BY <1>1, <1>2 DEF recordResult

Settled == Exact(submission, audit) /\ Awaited

LEMMA SettledSubmit ==
  ASSUME DeliveryAssumption, OneOperator, Inv, Evidence(submission, audit), Settled,
         NEW q \in Requests, submit(q)
  PROVE  Settled'
<1>1. /\ submission \in Submission /\ audit \in Seq(Event) /\ submission.state # "NONE"
      /\ \A r \in Requests : call[r] = Idle
  BY DEF submit, Evidence, OneOperator
<1>2. CASE /\ diagnoseReadyPackageV2Delivery = "LOCAL_FINALIZATION_REQUIRED"
           /\ recordResult(submission, audit, submission.transportResult)
           /\ UNCHANGED call
  <2>1. SubmissionAgrees(listAuditEvents) /\ Told(listAuditEvents, "TRANSPORT_RESULT_RECORDED") # {}
    BY <1>2 DEF diagnoseReadyPackageV2Delivery
  <2>2. submission.transportResult # "NONE"
    BY <2>1 DEF SubmissionAgrees
  <2>3. Exact(submission, audit)'
    BY <1>1, <1>2, <2>2, ExactRecorded DEF Settled
  <2> QED  BY <1>1, <1>2, <2>3 DEF Settled, Awaited
<1>3. CASE /\ diagnoseReadyPackageV2Delivery \in
                {"SAFE_TO_SUBMIT", "OUTCOME_UNKNOWN_RETRY_EXACT_REQUEST"}
           /\ submitOverNetwork(q)
  <2> DEFINE n == submission.transportAttempts + 1
             e == NewEvent("TRANSPORT_ATTEMPT_STARTED", n, "NONE", "NONE")
  <2>1. submission.transportResult = "NONE"
    BY <1>3, SentWithoutResult
  <2>2. submission.state = "PENDING"
    BY <1>1, <2>1, NoneYet DEF Settled, Submission
  <2>3. /\ submission.transportAttempts < MaxAttempts
        /\ submission' = [submission EXCEPT !.transportAttempts = @ + 1]
        /\ audit' = Append(audit, e)
    BY <1>3 DEF submitOverNetwork, markTransportAttempt
  <2>4. Exact(submission, audit)'
    BY <1>1, <2>1, <2>2, <2>3, ExactAttempt DEF Settled
  <2>5. submission.transportAttempts \in Nat /\ n \in 0 .. MaxAttempts
    BY <1>1, <2>3 DEF Submission, DeliveryAssumption
  <2>6. /\ submission'.state = "PENDING" /\ submission'.transportResult = "NONE"
        /\ submission'.transportAttempts = n /\ n > submission.transportAttempts /\ n > 0
    BY <1>1, <2>1, <2>2, <2>3, <2>5 DEF Submission
  <2>7. e \in Event /\ e.type # "TRANSPORT_OUTCOME_UNKNOWN"
    <3>1. e.type = "TRANSPORT_ATTEMPT_STARTED"  BY DEF NewEvent
    <3> HIDE DEF n
    <3>2. e \in Event  BY <2>5, EventTyped DEF EventType, OptionalStatus
    <3> QED  BY <3>1, <3>2
  <2> HIDE DEF n, e
  <2>8. OfType(audit', "TRANSPORT_OUTCOME_UNKNOWN") = OfType(audit, "TRANSPORT_OUTCOME_UNKNOWN")
    BY <1>1, <2>3, <2>7, OtherTypes
  <2>9. \A u \in OfType(audit, "TRANSPORT_OUTCOME_UNKNOWN") :
          audit'[u] = audit[u] /\ audit[u].attempt \in Nat
                               /\ audit[u].attempt <= submission.transportAttempts
    <3>1. \A u \in 1 .. Len(audit) : audit'[u] = audit[u] /\ audit[u] \in Event
      BY <1>1, <2>3, <2>7
    <3>2. \A u \in 1 .. Len(audit) : audit[u].attempt \in Nat
      BY <3>1 DEF Event
    <3> QED  BY <3>1, <3>2 DEF OfType, Evidence
  <2>10. Open(submission, audit)'
    BY <2>5, <2>6, <2>8, <2>9 DEF Open
  <2> QED  BY <2>4, <2>6, <2>10 DEF Settled, Awaited
<1> QED  BY <1>2, <1>3 DEF submit

LEMMA SettledFails ==
  ASSUME DeliveryAssumption, EvidenceFits, OneOperator, Inv, Evidence(submission, audit), Settled,
         NEW q \in Requests, NEW issue \in Issues, TransportFails(q, issue)
  PROVE  Settled'
<1>1. /\ submission \in Submission /\ audit \in Seq(Event)
      /\ submission.state = "PENDING" /\ submission.transportResult = "NONE"
      /\ submission.transportAttempts > 0 /\ Open(submission, audit) /\ UNCHANGED submission
  BY DEF TransportFails, Evidence, Settled, Awaited
<1>2. ASSUME audit' = audit PROVE Exact(submission, audit)'
  BY <1>1, <1>2 DEF Settled
<1>3. ASSUME audit' = Append(audit, NewEvent("TRANSPORT_OUTCOME_UNKNOWN",
                                             submission.transportAttempts, issue, "NONE"))
      PROVE  Exact(submission, audit)'
  BY <1>1, <1>3, ExactUnknown DEF Settled
<1>4. Exact(submission, audit)'
  BY <1>1, <1>2, <1>3 DEF TransportFails, recordTransportUncertainty, Settled
<1>5. \A r \in Requests : call'[r] = Idle
  BY DEF TransportFails, OneOperator, Inv, CallsTyped
<1> QED  BY <1>4, <1>5 DEF Settled, Awaited

LEMMA SettledRecord ==
  ASSUME DeliveryAssumption, OneOperator, Inv, Evidence(submission, audit), Settled,
         NEW q \in Requests, recordTransportResult(q)
  PROVE  Settled'
<1> DEFINE status == call[q].status
           stored == WithTransportResult(status)
           row == [submission EXCEPT !.transportResult = status]
           events == Append(audit, NewEvent("TRANSPORT_RESULT_RECORDED",
                                            submission.transportAttempts, "NONE", status))
<1>1. call[q] # Idle /\ status \in Status
  BY CallStates DEF recordTransportResult, Inv, CallsTyped, Calls
<1>2. /\ submission \in Submission /\ audit \in Seq(Event)
      /\ submission.state = "PENDING" /\ submission.transportResult = "NONE"
      /\ submission.transportAttempts > 0 /\ Open(submission, audit)
  BY <1>1 DEF Evidence, Settled, Awaited
<1>3. stored[1] = row /\ stored[2] = events
  BY <1>2 DEF WithTransportResult
<1>4. Exact(row, events)
  BY <1>1, <1>2, ExactResult DEF Settled
<1>5. row \in Submission /\ row.state = "PENDING" /\ row.transportResult = status /\ status # "NONE"
  BY <1>1, <1>2 DEF Submission, Status, OptionalStatus
<1>6. NewEvent("TRANSPORT_RESULT_RECORDED", submission.transportAttempts, "NONE", status) \in Event
  BY <1>1, <1>2, EventTyped DEF Submission, EventType, OptionalStatus
<1>7. events \in Seq(Event)
  BY <1>2, <1>6
<1>8. \/ recordResult(stored[1], stored[2], status)
      \/ submission' = stored[1] /\ audit' = stored[2]
  BY DEF recordTransportResult
<1>9. \A r \in Requests : call'[r] = Idle
  BY DEF recordTransportResult, OneOperator, Inv, CallsTyped
<1> HIDE DEF stored, row, events, status
<1>10. Exact(submission, audit)'
  BY <1>3, <1>4, <1>5, <1>7, <1>8, ExactRecorded
<1> QED  BY <1>9, <1>10 DEF Settled, Awaited

LEMMA SettledKept ==
  ASSUME DeliveryAssumption, EvidenceFits, OneOperator, Inv, Evidence(submission, audit), Settled,
         [Next]_vars
  PROVE  Settled'
<1>1. ASSUME UNCHANGED <<submission, audit>>,
             \A r \in Requests : call'[r] # Idle => \E q \in Requests : call[q] # Idle
      PROVE  Settled'
  <2>1. Exact(submission, audit)' /\ (Open(submission, audit) => Open(submission, audit)')
    BY <1>1 DEF Settled
  <2> QED  BY <1>1, <2>1 DEF Settled, Awaited
<1>2. ASSUME prepare PROVE Settled'
  <2>1. Exact(submission, audit)'
    BY <1>2, ExactPrepared DEF Settled
  <2>2. \A r \in Requests : call'[r] = Idle
    BY <1>2 DEF prepare, Settled, Awaited
  <2> QED  BY <2>1, <2>2 DEF Settled, Awaited
<1>3. ASSUME NEW q \in Requests, NEW status \in Status, ConsumerAnswers(q, status) PROVE Settled'
  <2>1. call[q] # Idle  BY <1>3, CallStates DEF ConsumerAnswers
  <2> QED  BY <1>1, <1>3, <2>1 DEF ConsumerAnswers
<1>4. ASSUME bind \/ Reconfigure \/ UNCHANGED vars PROVE Settled'
  BY <1>1, <1>4 DEF bind, Reconfigure, vars
<1>5. ASSUME Stop PROVE Settled'
  BY <1>1, <1>5 DEF Stop
<1>6. ASSUME NEW status \in Status, DelayedMessageArrives(status) \/ ConsumerDecides(status)
      PROVE  Settled'
  BY <1>1, <1>6 DEF DelayedMessageArrives, ConsumerDecides
<1> QED
  BY <1>2, <1>3, <1>4, <1>5, <1>6, SettledSubmit, SettledFails, SettledRecord DEF Next

\* What a diagnosis finds when the events tell the row.
LEMMA Diagnosed ==
  ASSUME DeliveryAssumption, EvidenceFits, Evidence(submission, audit), Settled
  PROVE  ResultsAreHonoured /\ UnknownMayBeRetried
<1>1. listAuditEvents = audit
  BY AllIsRead
<1>2. submission.state # "NONE" => TimelineHolds(listAuditEvents) /\ SubmissionAgrees(listAuditEvents)
  BY <1>1 DEF Settled, Exact, TimelineHolds, SubmissionAgrees
<1>3. Told(audit, "TRANSPORT_RESULT_RECORDED") = {submission.transportResult} \ {"NONE"}
      /\ (submission.state = "RESULT_RECORDED" <=> OfType(audit, "FINALIZED") # {})
  BY DEF Settled, Exact
<1>4. ResultsAreHonoured
  <2> SUFFICES ASSUME submission.transportResult \in {"RECEIVED", "ACCEPTED"}
               PROVE  diagnoseReadyPackageV2Delivery =
                        IF submission.state = "RESULT_RECORDED" THEN "DELIVERED"
                        ELSE "LOCAL_FINALIZATION_REQUIRED"
    BY DEF ResultsAreHonoured
  <2>1. submission.state # "NONE"
    BY DEF Evidence
  <2>2. /\ Told(audit, "TRANSPORT_RESULT_RECORDED") # {}
        /\ "REJECTED" \notin Told(audit, "TRANSPORT_RESULT_RECORDED")
    BY <1>3
  <2> QED  BY <1>1, <1>2, <1>3, <2>1, <2>2 DEF diagnoseReadyPackageV2Delivery
<1>5. UnknownMayBeRetried
  <2> SUFFICES ASSUME submission.transportAttempts > 0, submission.transportResult = "NONE"
               PROVE  diagnoseReadyPackageV2Delivery = "OUTCOME_UNKNOWN_RETRY_EXACT_REQUEST"
    BY DEF UnknownMayBeRetried
  <2>1. submission.state # "NONE" /\ submission \in Submission /\ audit \in Seq(Event)
    BY DEF Evidence
  <2>2. /\ Told(audit, "TRANSPORT_RESULT_RECORDED") = {} /\ OfType(audit, "FINALIZED") = {}
    BY <1>3, <2>1, NoneYet DEF Settled
  <2>3. OfType(audit, "TRANSPORT_ATTEMPT_STARTED") # {}
    BY <2>1, Positions DEF Settled, Exact
  <2> QED  BY <1>1, <1>2, <2>1, <2>2, <2>3 DEF diagnoseReadyPackageV2Delivery
<1> QED  BY <1>4, <1>5

-----------------------------------------------------------------------------
(* The theorems about the evidence. *)

FlagsTyped ==
  /\ delayed \in BOOLEAN /\ bound \in BOOLEAN /\ configured \in BOOLEAN
  /\ stops \in 0 .. MaxStops /\ switches \in 0 .. MaxSwitches

Whole == Inv /\ FlagsTyped /\ Evidence(submission, audit)

LEMMA EvidenceAtFirst ==
  ASSUME DeliveryAssumption, Init
  PROVE  Evidence(submission, audit) /\ Settled /\ FlagsTyped
<1>1. /\ submission \in Submission /\ submission.state = "NONE" /\ submission.transportAttempts = 0
      /\ submission.transportResult = "NONE" /\ submission.result = "NONE"
      /\ audit = <<>> /\ Len(audit) = 0 /\ audit \in Seq(Event)
  BY DEF Init, Submission, OptionalStatus, DeliveryAssumption
<1>2. \A t : OfType(audit, t) = {} /\ Told(audit, t) = {}
  BY <1>1 DEF OfType, Told
<1>3. Cardinality(OfType(audit, "TRANSPORT_ATTEMPT_STARTED")) = 0
  BY <1>2, FS_EmptySet
<1>4. Exact(submission, audit)
  BY <1>1, <1>2, <1>3 DEF Exact
<1>5. Evidence(submission, audit)
  BY <1>1 DEF Evidence, Unique, Results
<1>6. Awaited
  BY DEF Init, Awaited
<1>7. stops \in 0 .. MaxStops /\ switches \in 0 .. MaxSwitches
  BY SMT DEF Init, DeliveryAssumption
<1>8. delayed \in BOOLEAN /\ bound \in BOOLEAN /\ configured \in BOOLEAN
  BY Zenon DEF Init
<1> QED  BY <1>4, <1>5, <1>6, <1>7, <1>8 DEF Settled, FlagsTyped

LEMMA FlagsKept ==
  ASSUME DeliveryAssumption, FlagsTyped, [Next]_vars
  PROVE  FlagsTyped'
<1>1. (stops \in 0 .. MaxStops)' /\ (switches \in 0 .. MaxSwitches)'
  BY SMT DEF Next, vars, bind, prepare, Reconfigure, Stop, submit, recordTransportResult,
             TransportFails, ConsumerAnswers, DelayedMessageArrives, ConsumerDecides,
             FlagsTyped, DeliveryAssumption
<1>2. (delayed \in BOOLEAN)' /\ (bound \in BOOLEAN)' /\ (configured \in BOOLEAN)'
  <2>1. ASSUME bind \/ prepare \/ Reconfigure \/ Stop \/ UNCHANGED vars
        PROVE  (delayed \in BOOLEAN)' /\ (bound \in BOOLEAN)' /\ (configured \in BOOLEAN)'
    BY <2>1, Zenon DEF bind, prepare, Reconfigure, Stop, vars, FlagsTyped
  <2>2. ASSUME NEW q \in Requests,
               \/ submit(q)
               \/ recordTransportResult(q)
               \/ \E issue \in Issues : TransportFails(q, issue)
               \/ \E status \in Status : ConsumerAnswers(q, status)
        PROVE  (delayed \in BOOLEAN)' /\ (bound \in BOOLEAN)' /\ (configured \in BOOLEAN)'
    BY <2>2, Zenon DEF submit, recordTransportResult, TransportFails, ConsumerAnswers, FlagsTyped
  <2>3. ASSUME NEW status \in Status, DelayedMessageArrives(status) \/ ConsumerDecides(status)
        PROVE  (delayed \in BOOLEAN)' /\ (bound \in BOOLEAN)' /\ (configured \in BOOLEAN)'
    BY <2>3, Zenon DEF DelayedMessageArrives, ConsumerDecides, FlagsTyped
  <2> QED  BY <2>1, <2>2, <2>3, Zenon DEF Next
<1> QED  BY <1>1, <1>2, Zenon DEF FlagsTyped

LEMMA WholeKept ==
  ASSUME DeliveryAssumption, EvidenceFits
  PROVE  (Init => Whole) /\ (Whole /\ [Next]_vars => Whole')
<1>1. Init => Whole
  BY InvInit, EvidenceAtFirst DEF Whole
<1>2. Whole /\ [Next]_vars => Whole'
  BY EveryStep, EvidenceKept, FlagsKept DEF Whole, Guarded
<1> QED  BY <1>1, <1>2

LEMMA WholeTyped == ASSUME Whole PROVE TypeOK
BY DEF Whole, Inv, RowsTyped, CallsTyped, Calls, FlagsTyped, Evidence, Unique, TypeOK

\* However many operators submit at once, the rows keep the values of their
\* columns, and no transaction writes a second event of a type for an attempt:
\* the unique index of the audit is never what stops a delivery.
THEOREM EventsStayUnique ==
  ASSUME DeliveryAssumption, EvidenceFits
  PROVE  Spec => []TypeOK
<1>1. (Init => Whole) /\ (Whole /\ [Next]_vars => Whole')  BY WholeKept
<1>2. Whole => TypeOK  BY WholeTyped
<1> QED  BY <1>1, <1>2, PTL DEF Spec

\* While requests follow one another, the events and the row never disagree: a
\* result that is recorded is replayed or finalized, and an attempt without one
\* may be retried, after any number of crashes, lost answers and late messages.
THEOREM EvidenceIsHonoured ==
  ASSUME DeliveryAssumption, EvidenceFits, OneOperator
  PROVE  Spec => [](TypeOK /\ ContactIsRecorded /\ ResultsAreHonoured /\ UnknownMayBeRetried)
<1> DEFINE Kept == Whole /\ Settled
<1>1. Init => Kept
  BY WholeKept, EvidenceAtFirst
<1>2. Kept /\ [Next]_vars => Kept'
  BY WholeKept, SettledKept DEF Whole
<1>3. Kept => TypeOK /\ ContactIsRecorded /\ ResultsAreHonoured /\ UnknownMayBeRetried
  BY WholeTyped, Diagnosed DEF Whole, Inv
<1> QED  BY <1>1, <1>2, <1>3, PTL DEF Spec
=============================================================================

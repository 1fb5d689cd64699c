------------------------- MODULE FoundationalActions -------------------------
(***************************************************************************)
(* Foundational actions (packages/persistence/src/foundational-action-      *)
(* intent-ledger.ts, foundational-action-execution-ledger.ts and apps/admin *)
(* /src/server/foundational-action-*.ts): an operator records an intent to  *)
(* collect a target, a second act approves or cancels it, a third executes  *)
(* it.  Execution checks, dispatches a collection run under a key made of   *)
(* the intent's id, and then links run and intent; the three are separate   *)
(* transactions, and so are the read and the write of an approval.          *)
(*                                                                         *)
(* A request runs without yielding, so with one process only the end of the *)
(* process comes between its statements; with two, the other one does.      *)
(***************************************************************************)
EXTENDS Naturals, Sequences, FiniteSets

CONSTANTS Intents,     \* intents, one per idempotency key
          Targets,     \* foundational targets
          TargetOf,    \* TargetOf[i]: the target of intent i
          Actors,      \* operators
          Keys,        \* idempotency keys of executions
          Plans,       \* collection plans that may be prepared
          Processes,   \* server processes
          NoOne,       \* no actor
          MaxChanges,  \* bound on changes of targets and ends of processes
          Idle         \* no request in progress

ActionsAssumption ==
    /\ TargetOf \in [Intents -> Targets]
    /\ NoOne \notin Actors
    /\ MaxChanges \in Nat

VARIABLES intent,      \* intent[i]: status and actors of the row
          runs,        \* the collection runs dispatched for intents
          executions,  \* table foundational_action_executions
          collect,     \* collect[t]: COLLECT is the stage t stands at
          plan,        \* plan[t]: the one prepared plan of t
          request,     \* request[p]: the request of p, between two statements
          changes      \* changes so far

ledgers == <<intent, runs, executions>>
world == <<collect, plan, changes>>
vars == <<ledgers, world, request>>

NoIntent == [status |-> "NONE", approvedBy |-> NoOne, canceledBy |-> NoOne]
IntentRow == [status : {"NONE", "PENDING_APPROVAL", "APPROVED", "CANCELED"},
              approvedBy : Actors \cup {NoOne}, canceledBy : Actors \cup {NoOne}]
Run == [intent : Intents, actor : Actors, plan : Plans,
        status : {"ACTIVE", "COMPLETED", "FAILED", "CANCELLED"}]
Execution == [intent : Intents, key : Keys, actor : Actors, approver : Actors,
              plan : Plans, run : Nat]

Init ==
    /\ intent = [i \in Intents |-> NoIntent]
    /\ runs = <<>>
    /\ executions = {}
    /\ collect = [t \in Targets |-> TRUE]
    /\ plan \in [Targets -> Plans]
    /\ request = [p \in Processes |-> Idle]
    /\ changes = 0

Goes(p, next) == request' = [request EXCEPT ![p] = next]

-----------------------------------------------------------------------------
\* The remediation queue asks for a collection of the target.
Current(t) == collect[t]

\* The one active manual plan prepared for the target.
PreparedPlan(t) == plan[t]

\* createFoundationalActionIntent: the action must be current for the target.
\* A key that is taken is answered from its row.
Create(p, i) ==
    /\ request[p] = Idle
    /\ intent[i] = NoIntent
    /\ Current(TargetOf[i])
    /\ intent' = [intent EXCEPT ![i] = [@ EXCEPT !.status = "PENDING_APPROVAL"]]
    /\ UNCHANGED <<runs, executions, world, request>>

\* A canceled intent may be approved after all.
ReadApproveCanceled(p, i, a) ==
    /\ request[p] = Idle
    /\ intent[i].status \in {"PENDING_APPROVAL", "CANCELED"}
    /\ Current(TargetOf[i])
    /\ Goes(p, [at |-> "write", intent |-> i,
                row |-> [intent[i] EXCEPT !.status = "APPROVED", !.approvedBy = a]])
    /\ UNCHANGED <<ledgers, world>>

\* Approval checks that the action is still current, then transition reads
\* the row.  A second approval changes nothing.
ReadApprove(p, i, a) ==
    /\ request[p] = Idle
    /\ intent[i].status = "PENDING_APPROVAL"
    /\ Current(TargetOf[i])
    /\ Goes(p, [at |-> "write", intent |-> i,
                row |-> [intent[i] EXCEPT !.status = "APPROVED", !.approvedBy = a]])
    /\ UNCHANGED <<ledgers, world>>

ReadCancel(p, i, a) ==
    /\ request[p] = Idle
    /\ intent[i].status \in {"PENDING_APPROVAL", "APPROVED"}
    /\ Goes(p, [at |-> "write", intent |-> i,
                row |-> [intent[i] EXCEPT !.status = "CANCELED", !.canceledBy = a]])
    /\ UNCHANGED <<ledgers, world>>

\* The whole document is written, whatever the row has become since.
WriteIntent(p) ==
    /\ request[p] # Idle
    /\ request[p].at = "write"
    /\ intent' = [intent EXCEPT ![request[p].intent] = request[p].row]
    /\ Goes(p, Idle)
    /\ UNCHANGED <<runs, executions, world>>

-----------------------------------------------------------------------------
\* assertNoActiveCollectionExecution looks at the runs that are linked.
ActiveLinked(t) ==
    \E e \in executions : TargetOf[e.intent] = t /\ runs[e.run].status = "ACTIVE"

\* The intent need not be approved.
ReadExecuteUnapproved(p, i, a, k) ==
    /\ request[p] = Idle
    /\ intent[i].status \in {"APPROVED", "CANCELED"}
    /\ intent[i].approvedBy # NoOne
    /\ \A e \in executions : e.intent # i
    /\ ~ActiveLinked(TargetOf[i])
    /\ Current(TargetOf[i])
    /\ Goes(p, [at |-> "dispatch", intent |-> i, actor |-> a, key |-> k,
                approver |-> intent[i].approvedBy, plan |-> PreparedPlan(TargetOf[i])])
    /\ UNCHANGED <<ledgers, world>>

\* executeApprovedFoundationalCollectionIntent up to the dispatch.  An intent
\* that is linked already is answered from its execution, or refused.
ReadExecute(p, i, a, k) ==
    /\ request[p] = Idle
    /\ intent[i].status = "APPROVED"
    /\ \A e \in executions : e.intent # i
    /\ ~ActiveLinked(TargetOf[i])
    /\ Current(TargetOf[i])
    /\ Goes(p, [at |-> "dispatch", intent |-> i, actor |-> a, key |-> k,
                approver |-> intent[i].approvedBy, plan |-> PreparedPlan(TargetOf[i])])
    /\ UNCHANGED <<ledgers, world>>

NewRun(r) == [intent |-> r.intent, actor |-> r.actor, plan |-> r.plan,
              status |-> "ACTIVE"]

\* Every request dispatches a run of its own.
DispatchAnew(p, accepted) ==
    /\ request[p] # Idle
    /\ request[p].at = "dispatch"
    /\ Len(runs) < 3
    /\ runs' = Append(runs, NewRun(request[p]))
    /\ Goes(p, [request[p] EXCEPT !.at = "link"])
    /\ UNCHANGED <<intent, executions, world>>

\* The actor of a run that was dispatched before is not compared.
DispatchForAnyone(p, accepted) ==
    LET r == request[p]
        of == {n \in DOMAIN runs : runs[n].intent = r.intent}
    IN  /\ r # Idle
        /\ r.at = "dispatch"
        /\ IF of = {}
           THEN runs' = Append(runs, NewRun(r))
           ELSE UNCHANGED runs
        /\ Goes(p, [r EXCEPT !.at = "link"])
        /\ UNCHANGED <<intent, executions, world>>

\* dispatchManual: validateDispatch may refuse the plan; a run with the
\* intent's key is returned if it is of the same plan; else a run is inserted.
\* The run must be this actor's.
Dispatch(p, accepted) ==
    LET r == request[p]
        of == {n \in DOMAIN runs : runs[n].intent = r.intent}
    IN  /\ r # Idle
        /\ r.at = "dispatch"
        /\ \/ /\ \/ ~accepted
                 \/ \E n \in of : runs[n].plan # r.plan \/ runs[n].actor # r.actor
              /\ UNCHANGED runs
              /\ Goes(p, Idle)
           \/ /\ accepted
              /\ \A n \in of : runs[n].plan = r.plan /\ runs[n].actor = r.actor
              /\ IF of = {}
                 THEN runs' = Append(runs, NewRun(r))
                 ELSE UNCHANGED runs
              /\ Goes(p, [r EXCEPT !.at = "link"])
        /\ UNCHANGED <<intent, executions, world>>

SameExecution(e, r) ==
    e.intent = r.intent /\ e.actor = r.actor /\ e.plan = r.plan

\* executionRepository.create: the intent is looked at again, then the key,
\* then the intent's own execution.
Link(p) ==
    LET r == request[p]
        conflicts == {e \in executions : (e.key = r.key \/ e.intent = r.intent)
                                          /\ ~SameExecution(e, r)}
        consented == /\ intent[r.intent].status = "APPROVED"
                     /\ intent[r.intent].approvedBy = r.approver
        run == CHOOSE n \in DOMAIN runs : runs[n].intent = r.intent
    IN  /\ r # Idle
        /\ r.at = "link"
        /\ \/ /\ ~consented \/ conflicts # {}
              /\ UNCHANGED executions
           \/ /\ consented /\ conflicts = {}
              /\ executions' =
                    IF \E e \in executions : e.key = r.key \/ e.intent = r.intent
                    THEN executions
                    ELSE executions \cup
                         {[intent |-> r.intent, key |-> r.key, actor |-> r.actor,
                           approver |-> r.approver, plan |-> r.plan, run |-> run]}
        /\ Goes(p, Idle)
        /\ UNCHANGED <<intent, runs, world>>

\* The process ends between two statements of a request.
Crash(p) ==
    /\ changes < MaxChanges
    /\ changes' = changes + 1
    /\ request[p] # Idle
    /\ Goes(p, Idle)
    /\ UNCHANGED <<ledgers, collect, plan>>

\* Workers finish a run; what the target needs, and its plan, change.
RunEnds(n, status) ==
    /\ n \in DOMAIN runs
    /\ runs[n].status = "ACTIVE"
    /\ runs' = [runs EXCEPT ![n].status = status]
    /\ UNCHANGED <<intent, executions, world, request>>

TargetChanges(t) ==
    /\ changes < MaxChanges
    /\ changes' = changes + 1
    /\ \/ collect' = [collect EXCEPT ![t] = ~@] /\ UNCHANGED plan
       \/ \E q \in Plans \ {plan[t]} : plan' = [plan EXCEPT ![t] = q]
          /\ UNCHANGED collect
    /\ UNCHANGED <<ledgers, request>>

Next ==
    \/ \E p \in Processes :
          \/ \E i \in Intents :
                \/ Create(p, i)
                \/ \E a \in Actors :
                      \/ ReadApprove(p, i, a)
                      \/ ReadCancel(p, i, a)
                      \/ \E k \in Keys : ReadExecute(p, i, a, k)
          \/ WriteIntent(p)
          \/ \E accepted \in BOOLEAN : Dispatch(p, accepted)
          \/ Link(p)
          \/ Crash(p)
    \/ \E n \in DOMAIN runs, status \in {"COMPLETED", "FAILED", "CANCELLED"} :
          RunEnds(n, status)
    \/ \E t \in Targets : TargetChanges(t)

Spec == Init /\ [][Next]_vars

-----------------------------------------------------------------------------
TypeOK ==
    /\ intent \in [Intents -> IntentRow]
    /\ runs \in Seq(Run)
    /\ executions \subseteq Execution
    /\ collect \in [Targets -> BOOLEAN]
    /\ plan \in [Targets -> Plans]
    /\ \A p \in Processes :
          request[p] # Idle => request[p].at \in {"write", "dispatch", "link"}
    /\ changes \in 0 .. MaxChanges

\* One intent has one run and one execution, however often its execution is
\* retried, by whom, under which key, and after which end of a process.
OneRunPerIntent ==
    /\ \A m, n \in DOMAIN runs : runs[m].intent = runs[n].intent => m = n
    /\ \A d, e \in executions :
          d.intent = e.intent \/ d.key = e.key \/ d.run = e.run => d = e

\* An execution names the run, the actor and the plan of the collection that
\* really happened, also when it was linked by a later retry.
LinksAreTrue ==
    \A e \in executions :
        /\ e.run \in DOMAIN runs
        /\ runs[e.run].intent = e.intent
        /\ runs[e.run].actor = e.actor
        /\ runs[e.run].plan = e.plan

\* A step neither approves nor changes a canceled intent.
CanceledIsFinal ==
    \A i \in Intents : intent[i].status = "CANCELED" => intent'[i] = intent[i]

\* A step dispatches a run only for an intent that is approved at that moment.
DispatchIsApproved ==
    \A n \in DOMAIN runs' :
        n \notin DOMAIN runs => intent[runs'[n].intent].status = "APPROVED"
=============================================================================

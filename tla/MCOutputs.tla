------------------------------- MODULE MCOutputs -------------------------------
(***************************************************************************)
(* Instances for TLC of what is done with documents and under which        *)
(* governance: the queue of AI jobs (called directly, and managed), the    *)
(* paid live pilot, the foundational actions of one target (one server     *)
(* process, and two), the delivery of a ready package (two operators at    *)
(* once, and one after the other), retention (of two artifacts, and of one *)
(* that expires), and the exports of two versions of a document to the     *)
(* Vault, while the binding moves.                                         *)
(* They share no state: a behaviour is one of its subject, and the others  *)
(* stay as they began.                                                     *)
(***************************************************************************)
EXTENDS Outputs, TLC

CONSTANTS j1, m1, g1, q1, q2, d1, d2, c1, c2, i1, i2, t1, a1, a2, p1, p2

VARIABLES
  subject,   \* whose behaviour this is
  submission2, audit2, call2, delayed2, consumer2, bound2, configured2, stops2, switches2,
  raw2, run2, doc2, packaged2, indexed2, cited2, old2, outdated2, before2

\* The constants that are functions: two intents of one target, two runs of the
\* first artifact and none of the second, two versions of one document.
OneTarget == i1 :> t1 @@ i2 :> t1
OfTheFirst == <<1, 1>>
OnePath == d1 :> t1 @@ d2 :> t1
OwnContents == d1 :> c1 @@ d2 :> c2

jobVars ==
  <<status, attempts, stale, queue, pc, held, read, scan, flags, delivered, lost,
    stored, crashes>>
pilotVars == <<durable, inFlight, pilotPc, cell, paid, rejected, artifacts, accepted, deaths>>
actionVars == <<intent, runs, acted, collect, plan, request, changes>>
inTurnVars ==
  <<submission, audit, call, delayed, consumer, bound, configured, stops, switches>>
togetherVars ==
  <<submission2, audit2, call2, delayed2, consumer2, bound2, configured2, stops2, switches2>>
retentionVars == <<raw, run, doc, packaged, indexed, cited, old, outdated, before>>
expiryVars == <<raw2, run2, doc2, packaged2, indexed2, cited2, old2, outdated2, before2>>
exportVars == <<binding, files, holds, ready, exports, export, edits, ends>>
governed == <<jobVars, pilotVars, actionVars>>
delivery == <<togetherVars, inTurnVars>>
kept == <<retentionVars, expiryVars>>

Together ==
  INSTANCE PackageDelivery WITH
    Requests <- {q1, q2}, MaxAttempts <- 4, MaxStops <- 1, MaxSwitches <- 1,
    submission <- submission2, audit <- audit2, call <- call2, delayed <- delayed2,
    consumer <- consumer2, bound <- bound2, configured <- configured2, stops <- stops2,
    switches <- switches2

Expiring ==
  INSTANCE Retention WITH
    Artifacts <- {1}, Runs <- {1, 2}, ArtifactOf <- <<1, 1>>, Limit <- 5,
    raw <- raw2, run <- run2, doc <- doc2, packaged <- packaged2, indexed <- indexed2,
    cited <- cited2, old <- old2, stale <- outdated2, before <- before2

ASSUME InstancesAssumption ==
  /\ Pilot!PilotAssumption /\ Actions!ActionsAssumption
  /\ Together!DeliveryAssumption /\ Delivery!DeliveryAssumption
  /\ Retained!RetentionAssumption /\ Expiring!RetentionAssumption
  /\ Exports!VaultAssumption

\* One operator has one process and works at both intents; two, with two
\* processes, work at one whose plan stays.
ByOne(requests) ==
  /\ requests[p2] = NoRequest
  /\ requests[p1] # NoRequest =>
       IF requests[p1].at = "write"
       THEN a2 \notin {requests[p1].row.approvedBy, requests[p1].row.canceledBy}
       ELSE requests[p1].actor # a2

MCInit ==
  /\ subject \in {"direct jobs", "managed jobs", "pilot", "one operator", "two operators",
                  "together", "in turn", "retention", "expiry", "exports"}
  /\ Init /\ Pilot!Init /\ Actions!Init
  /\ subject # "one operator" => plan = [t \in {t1} |-> q1]
  /\ Together!Init /\ Delivery!Init /\ Retained!Init /\ Expiring!Init
  /\ Exports!ExportInit

MCNext ==
  /\ UNCHANGED subject
  /\ \/ /\ Next
        /\ \/ subject = "direct jobs" /\ UNCHANGED status[m1]
           \/ subject = "managed jobs" /\ UNCHANGED <<status[j1], status[g1]>>
        /\ UNCHANGED <<pilotVars, actionVars, delivery, kept, exportVars>>
     \/ /\ subject = "pilot" /\ Pilot!Next
        /\ UNCHANGED <<jobVars, actionVars, delivery, kept, exportVars>>
     \/ /\ subject = "one operator" /\ Actions!Next /\ ByOne(request')
        /\ UNCHANGED <<jobVars, pilotVars, delivery, kept, exportVars>>
     \/ /\ subject = "two operators" /\ Actions!Next /\ UNCHANGED <<intent[i2], plan>>
        /\ UNCHANGED <<jobVars, pilotVars, delivery, kept, exportVars>>
     \/ /\ subject = "together" /\ Together!Next
        /\ UNCHANGED <<governed, inTurnVars, kept, exportVars>>
     \/ /\ subject = "in turn" /\ Delivery!Next
        /\ UNCHANGED <<governed, togetherVars, kept, exportVars>>
     \/ /\ subject = "retention" /\ Retained!Next
        /\ UNCHANGED <<governed, delivery, expiryVars, exportVars>>
     \/ /\ subject = "expiry" /\ Expiring!Next
        /\ UNCHANGED <<governed, delivery, retentionVars, exportVars>>
     \/ /\ subject = "exports" /\ (Exports!ExportNext \/ Exports!Crash)
        /\ UNCHANGED <<governed, delivery, kept>>

MCSpec == MCInit /\ [][MCNext]_<<subject, governed, delivery, kept, exportVars>>

-----------------------------------------------------------------------------
\* What no step may do: move a job out of quarantine; with one process, change a
\* canceled intent or dispatch for one that is not approved; send a package, or
\* replace its result, once there is one, or leave a contact or the type of an event
\* out of the audit, while two operators submit; remove evidence; write outside the
\* root of the Vault's active binding.
GuardedSteps ==
  [][/\ QuarantineIsFinal
     /\ subject = "one operator" => Actions!CanceledIsFinal /\ Actions!DispatchIsApproved
     /\ Together!NoSendAfterResult /\ Together!FirstResultStays
     /\ Together!TypeOK' /\ Together!ContactIsRecorded'
     /\ Retained!EvidenceIsKept
     /\ Exports!WritesStayInTheBinding]_<<subject, governed, delivery, kept, exportVars>>

\* While time passes and recovery is repeated, a job that is claimed or runs does
\* not stay so for ever; while the operator submits again, a recorded result is
\* finalized; while the policy is executed again and documents age, an artifact
\* past the cutoff that nothing holds is archived.
EverythingSettles ==
  /\ Fairness => HeldJobsComeBack
  /\ Delivery!Fairness => Delivery!ResultsAreFinalized
  /\ Expiring!Fairness => Expiring!ExpiredAreArchived
=============================================================================

------------------------------ MODULE VaultImport ------------------------------
(***************************************************************************)
(* The way back from the Vault of VaultExport: inspection of its files     *)
(* (vault-inspection-service.ts), reviewed import intents (vault-import-   *)
(* intent-service.ts), their execution (vault-import-execution-service.ts  *)
(* and -registry.ts) and the verification and finalization of what was     *)
(* imported (vault-origin-staging-verification.ts).                        *)
(*                                                                         *)
(* The requests are handled by the same process as the exports; between    *)
(* two steps of one the user may edit a file and the process may end.      *)
(***************************************************************************)
EXTENDS VaultExport

CONSTANTS
  Acceptable,       \* contents the verifier passes
  ListLimit,        \* export runs an inspection considers
  MaxInspections,   \* bound on the inspections
  MaxFailures       \* bound on the failed inserts

ImportAssumption ==
  /\ Acceptable \subseteq Contents
  /\ ListLimit \in Nat \ {0}
  /\ MaxInspections \in Nat /\ MaxFailures \in Nat

VARIABLES
  inspections,   \* vault_inspection_runs in the order of observation
  intents,       \* vault_import_intents in the order of review
  executions,    \* Intent -> state of its execution
  staged,        \* vault_origin_staging_documents in the order of import
  blobs,         \* contents in the content-addressed store
  verdicts,      \* documents of `staged` with a verification -> its outcome
  finalized,     \* documents of `staged` with a finalization -> its state
  failures

importVars == <<inspections, intents, executions, staged, blobs, verdicts, finalized, failures>>
vars == <<exportVars, importVars>>

Class == {"UNCHANGED", "CONFLICT", "MISSING", "IMPORT_CANDIDATE", "ABSENT"}
Inspection == [root: Roots, revision: 1 .. MaxRevisions,
               found: [Targets -> [class: Class, content: Contents \cup {None}]]]
Intent == [inspection: 1 .. MaxInspections, target: Targets]
\* RECEIPT is PENDING with a staging receipt.
ExecutionState == {"NONE", "PENDING", "RECEIPT", "SUCCEEDED", "REJECTED"}

Stored == {ContentOf[d]: d \in Documents}

Init ==
  /\ ExportInit
  /\ inspections = <<>>
  /\ intents = <<>>
  /\ executions = <<>>
  /\ staged = <<>>
  /\ blobs = Stored
  /\ verdicts = <<>>
  /\ finalized = <<>>
  /\ failures = 0

-----------------------------------------------------------------------------
\* Inspection and review.

\* The successful exports to a path among the last `ListLimit` runs.
latestManagedExports(t) ==
  {i \in 1 .. Len(exports):
    /\ i > Len(exports) - ListLimit
    /\ exports[i].state = "SUCCEEDED"
    /\ Destination(i) = [root |-> binding.root, target |-> t]}

Classify(t) ==
  LET file    == files[[root |-> binding.root, target |-> t]]
      managed == latestManagedExports(t)
      latest  == CHOOSE i \in managed: \A j \in managed: j <= i
  IN [class |-> IF file = None THEN IF managed = {} THEN "ABSENT" ELSE "MISSING"
                ELSE IF managed = {} THEN "IMPORT_CANDIDATE"
                ELSE IF file = Expected(latest) THEN "UNCHANGED" ELSE "CONFLICT",
      content |-> file]

inspect ==
  /\ Resting
  /\ Len(inspections) < MaxInspections
  /\ binding.status = "ACTIVE"
  /\ inspections' = Append(inspections, [root |-> binding.root, revision |-> binding.revision,
                                         found |-> [t \in Targets |-> Classify(t)]])
  /\ UNCHANGED <<exportVars, intents, executions, staged, blobs, verdicts, finalized, failures>>

\* The binding is the one that was inspected.
assertBindingMatches(n) ==
  /\ binding.status = "ACTIVE"
  /\ binding.root = inspections[n].root /\ binding.revision = inspections[n].revision

\* A review of a candidate that already has its intent replays it.
review(n, t) ==
  /\ Resting
  /\ inspections[n].found[t].class = "IMPORT_CANDIDATE"
  /\ ~ \E j \in 1 .. Len(intents): intents[j] = [inspection |-> n, target |-> t]
  /\ assertBindingMatches(n)
  /\ intents' = Append(intents, [inspection |-> n, target |-> t])
  /\ executions' = Append(executions, "NONE")
  /\ UNCHANGED <<exportVars, inspections, staged, blobs, verdicts, finalized, failures>>

-----------------------------------------------------------------------------
\* The execution of an intent.

Reviewed(j) == inspections[intents[j].inspection].found[intents[j].target].content
Source(j) == [root |-> inspections[intents[j].inspection].root, target |-> intents[j].target]
StagedOf(j) == {k \in 1 .. Len(staged): staged[k].intent = j}

\* A retry takes a prepared execution for one whose document is staged.
FinishesPrepared(j) ==
  /\ Resting
  /\ executions[j] \in {"NONE", "PENDING", "RECEIPT"}
  /\ executions[j] = "NONE" => assertBindingMatches(intents[j].inspection)
  /\ executions' = [executions EXCEPT ![j] = IF @ = "NONE" THEN "PENDING" ELSE @]
  /\ Goes(IF executions[j] = "NONE" THEN "READ" ELSE "CLOSE", j)
  /\ UNCHANGED <<binding, files, held, ready, exports, edits, crashes,
                 inspections, intents, staged, blobs, verdicts, finalized, failures>>

\* A terminal execution is the answer; one with a receipt is finalized without the Vault.
execute(j) ==
  /\ Resting
  /\ \/ /\ executions[j] = "RECEIPT"
        /\ Goes("CLOSE", j)
        /\ UNCHANGED executions
     \/ /\ executions[j] \in {"NONE", "PENDING"}
        /\ assertBindingMatches(intents[j].inspection)
        /\ executions' = [executions EXCEPT ![j] = "PENDING"]
        /\ Goes("READ", j)
  /\ UNCHANGED <<binding, files, held, ready, exports, edits, crashes,
                 inspections, intents, staged, blobs, verdicts, finalized, failures>>

\* Whatever is in the file is imported.
AcceptsAnyFile ==
  /\ call.at = "READ"
  /\ IF files[Source(call.item)] = None
     THEN executions' = [executions EXCEPT ![call.item] = "REJECTED"] /\ Returns
     ELSE /\ call' = [call EXCEPT !.at = IF StagedOf(call.item) = {} THEN "STORE" ELSE "RECEIVE",
                                  !.found = files[Source(call.item)]]
          /\ UNCHANGED executions
  /\ UNCHANGED <<binding, files, held, ready, exports, edits, crashes,
                 inspections, intents, staged, blobs, verdicts, finalized, failures>>

\* `found` keeps the bytes that were read.
readFrozenCandidate ==
  /\ call.at = "READ"
  /\ LET bytes == files[Source(call.item)]
     IN IF bytes # Reviewed(call.item)
        THEN executions' = [executions EXCEPT ![call.item] = "REJECTED"] /\ Returns
        ELSE /\ call' = [call EXCEPT !.at = IF StagedOf(call.item) = {} THEN "STORE" ELSE "RECEIVE",
                                     !.found = bytes]
             /\ UNCHANGED executions
  /\ UNCHANGED <<binding, files, held, ready, exports, edits, crashes,
                 inspections, intents, staged, blobs, verdicts, finalized, failures>>

\* ingest: the bytes go to the store before the row; CREATE tells that they were new.
ingestStores ==
  /\ call.at = "STORE"
  /\ blobs' = blobs \cup {call.found}
  /\ call' = [call EXCEPT !.at = IF call.found \in blobs THEN "INSERT" ELSE "CREATE"]
  /\ UNCHANGED <<binding, files, held, ready, exports, edits, crashes,
                 inspections, intents, executions, staged, verdicts, finalized, failures>>

ingestInserts ==
  /\ call.at \in {"INSERT", "CREATE"}
  /\ staged' = Append(staged, [intent |-> call.item, content |-> call.found])
  /\ call' = [call EXCEPT !.at = "RECEIVE"]
  /\ UNCHANGED <<binding, files, held, ready, exports, edits, crashes,
                 inspections, intents, executions, blobs, verdicts, finalized, failures>>

\* A failed insert always takes the bytes back.
RemovesBytes ==
  /\ call.at \in {"INSERT", "CREATE"}
  /\ failures < MaxFailures
  /\ failures' = failures + 1
  /\ blobs' = blobs \ {call.found}
  /\ Returns
  /\ UNCHANGED <<binding, files, held, ready, exports, edits, crashes,
                 inspections, intents, executions, staged, verdicts, finalized>>

isContentReferenced(content) ==
  content \in Stored \/ \E k \in 1 .. Len(staged): staged[k].content = content

\* The insert fails: the transaction is rolled back and bytes of its own are removed.
ingestFails ==
  /\ call.at \in {"INSERT", "CREATE"}
  /\ failures < MaxFailures
  /\ failures' = failures + 1
  /\ blobs' = IF call.at = "CREATE" /\ ~ isContentReferenced(call.found) THEN blobs \ {call.found} ELSE blobs
  /\ Returns
  /\ UNCHANGED <<binding, files, held, ready, exports, edits, crashes,
                 inspections, intents, executions, staged, verdicts, finalized>>

recordStagingReceipt ==
  /\ call.at = "RECEIVE"
  /\ executions' = [executions EXCEPT ![call.item] = "RECEIPT"]
  /\ Goes("CLOSE", call.item)
  /\ UNCHANGED <<binding, files, held, ready, exports, edits, crashes,
                 inspections, intents, staged, blobs, verdicts, finalized, failures>>

finalizeExecution ==
  /\ call.at = "CLOSE"
  /\ executions' = [executions EXCEPT ![call.item] = "SUCCEEDED"]
  /\ Returns
  /\ UNCHANGED <<binding, files, held, ready, exports, edits, crashes,
                 inspections, intents, staged, blobs, verdicts, finalized, failures>>

-----------------------------------------------------------------------------
\* Verification of an imported document.

Extended(f, k, v) == [n \in DOMAIN f \cup {k} |-> IF n = k THEN v ELSE f[n]]

\* The stored bytes are judged once; a missing file would throw.
verify(k) ==
  /\ Resting
  /\ k \notin DOMAIN verdicts
  /\ staged[k].content \in blobs
  /\ verdicts' = Extended(verdicts, k, IF staged[k].content \in Acceptable THEN "PASS" ELSE "FAIL")
  /\ UNCHANGED <<exportVars, inspections, intents, executions, staged, blobs, finalized, failures>>

finalizeStaging(k) ==
  /\ Resting
  /\ k \in DOMAIN verdicts \ DOMAIN finalized
  /\ finalized' = Extended(finalized, k, IF verdicts[k] = "FAIL" THEN "BLOCKED" ELSE "VERIFIED")
  /\ UNCHANGED <<exportVars, inspections, intents, executions, staged, blobs, verdicts, failures>>

ImportNext ==
  \/ inspect
  \/ \E n \in 1 .. Len(inspections), t \in Targets: review(n, t)
  \/ \E j \in 1 .. Len(intents): execute(j)
  \/ readFrozenCandidate \/ ingestStores \/ ingestInserts \/ ingestFails
  \/ recordStagingReceipt \/ finalizeExecution
  \/ \E k \in 1 .. Len(staged): verify(k) \/ finalizeStaging(k)

Next ==
  \/ (ExportNext \/ Crash) /\ UNCHANGED importVars
  \/ ImportNext

Spec == Init /\ [][Next]_vars

-----------------------------------------------------------------------------
(* Properties *)

\* The tables of both directions are well formed and name rows that exist.
TypeOK ==
  /\ ExportTypeOK
  /\ \A n \in 1 .. Len(inspections): inspections[n] \in Inspection
  /\ \A j \in 1 .. Len(intents): intents[j] \in Intent /\ intents[j].inspection <= Len(inspections)
  /\ Len(executions) = Len(intents)
  /\ \A j \in 1 .. Len(executions): executions[j] \in ExecutionState
  /\ \A k \in 1 .. Len(staged): staged[k].intent \in 1 .. Len(intents) /\ staged[k].content \in Contents
  /\ blobs \subseteq Contents
  /\ DOMAIN verdicts \subseteq 1 .. Len(staged) /\ DOMAIN finalized \subseteq DOMAIN verdicts

\* What is imported was reviewed: a document holds the bytes of the inspection
\* its intent freezes, and the Vault once held them at that path, whatever was
\* edited between the review, the read and the import.
ImportedAsReviewed ==
  \A k \in 1 .. Len(staged):
    /\ staged[k].content = Reviewed(staged[k].intent)
    /\ <<Source(staged[k].intent), staged[k].content>> \in held

\* An intent has at most one document, and a succeeded execution has it: a retry
\* after any end of the process replays the document instead of adding one.
OneDocumentPerIntent ==
  \A j \in 1 .. Len(intents):
    /\ \A k, l \in StagedOf(j): k = l
    /\ executions[j] \in {"RECEIPT", "SUCCEEDED"} => StagedOf(j) # {}

\* The store keeps the bytes of every document of either kind, also when an
\* import of the same bytes fails.
DocumentsKeepTheirBytes ==
  /\ Stored \subseteq blobs
  /\ \A k \in 1 .. Len(staged): staged[k].content \in blobs
=============================================================================

------------------------------ MODULE VaultExport ------------------------------
(***************************************************************************)
(* The Obsidian Vault of one workspace: its binding (vault-binding-        *)
(* registry.ts) and the durable export of READY staging documents into it  *)
(* (vault-export-service.ts, vault-export-run-registry.ts and              *)
(* obsidian-vault-projection.ts).                                          *)
(*                                                                         *)
(* The server handles a request without yielding, so requests do not       *)
(* interleave; what happens between two steps of a request is the user,    *)
(* who edits the files of the Vault at any time, and the end of the        *)
(* process.                                                                *)
(***************************************************************************)
EXTENDS Integers, Sequences, FiniteSets

CONSTANTS
  Roots,          \* directories the binding may name
  Targets,        \* target paths of documents
  Contents,       \* contents of files
  Documents,      \* staging documents
  TargetOf,       \* Document -> its target path
  ContentOf,      \* Document -> its content
  None,
  MaxRevisions,   \* bound on the revisions of the binding
  MaxEdits,       \* bound on the user's edits
  MaxCrashes      \* bound on the ends of the process

VaultAssumption ==
  /\ TargetOf \in [Documents -> Targets]
  /\ ContentOf \in [Documents -> Contents]
  /\ None \notin Contents
  /\ MaxRevisions \in Nat /\ MaxEdits \in Nat /\ MaxCrashes \in Nat

VARIABLES
  binding,    \* the row of vault_bindings
  files,      \* Path -> content of the file, None where there is none
  held,       \* history: <<path, content>> of every file that ever was
  ready,      \* documents that are READY
  exports,    \* vault_export_runs in the order of preparation
  call,       \* the request in progress
  edits, crashes

exportVars == <<binding, files, held, ready, exports, call, edits, crashes>>

Path == [root: Roots, target: Targets]
Binding == [status: {"NONE", "ACTIVE", "DISABLED"}, root: Roots \cup {None}, revision: 0 .. MaxRevisions]
Export == [document: Documents, root: Roots, revision: 1 .. MaxRevisions,
           state: {"PENDING", "SUCCEEDED"}, receipt: {"NONE", "WRITTEN", "ALREADY_PRESENT"}]

\* `item` is the run or the import intent a request is about, by its number.
Idle == [at |-> "IDLE", item |-> 0, found |-> "NONE"]

ExportInit ==
  /\ binding = [status |-> "NONE", root |-> None, revision |-> 0]
  /\ files = [f \in Path |-> None]
  /\ held = {}
  /\ ready = Documents
  /\ exports = <<>>
  /\ call = Idle
  /\ edits = 0
  /\ crashes = 0

Resting == call.at = "IDLE"
Goes(step, item) == call' = [at |-> step, item |-> item, found |-> "NONE"]
Returns == call' = Idle

-----------------------------------------------------------------------------
\* The binding.

\* A name is not modelled: a change of the name alone is a revision with the same root.
configure(root) ==
  /\ Resting
  /\ binding.revision < MaxRevisions
  /\ binding' = [status |-> IF binding.status = "NONE" THEN "ACTIVE" ELSE binding.status,
                 root |-> root, revision |-> binding.revision + 1]
  /\ UNCHANGED <<files, held, ready, exports, call, edits, crashes>>

setStatus(status) ==
  /\ Resting
  /\ binding.status \notin {"NONE", status}
  /\ binding.revision < MaxRevisions
  /\ binding' = [binding EXCEPT !.status = status, !.revision = @ + 1]
  /\ UNCHANGED <<files, held, ready, exports, call, edits, crashes>>

-----------------------------------------------------------------------------
\* The export of a document.

Pending(d) == {i \in 1 .. Len(exports): exports[i].document = d /\ exports[i].state = "PENDING"}
Destination(i) == [root |-> exports[i].root, target |-> TargetOf[exports[i].document]]
Expected(i) == ContentOf[exports[i].document]

\* Every submit prepares a run of its own for the current binding.
PreparesAnew(d) ==
  /\ Resting
  /\ binding.status = "ACTIVE" /\ d \in ready
  /\ ~ \E i \in 1 .. Len(exports):
         exports[i].document = d /\ exports[i].root = binding.root /\ exports[i].revision = binding.revision
  /\ exports' = Append(exports, [document |-> d, root |-> binding.root, revision |-> binding.revision,
                                 state |-> "PENDING", receipt |-> "NONE"])
  /\ Goes("CONTINUE", Len(exports) + 1)
  /\ UNCHANGED <<binding, files, held, ready, edits, crashes>>

\* A run of the same key that succeeded is the answer, and nothing changes.
submit(d) ==
  /\ Resting
  /\ \/ /\ \E i \in Pending(d): Goes("CONTINUE", i)
        /\ UNCHANGED exports
     \/ /\ Pending(d) = {}
        /\ binding.status = "ACTIVE" /\ d \in ready
        /\ ~ \E i \in 1 .. Len(exports):
               /\ exports[i].document = d
               /\ exports[i].root = binding.root /\ exports[i].revision = binding.revision
        /\ exports' = Append(exports, [document |-> d, root |-> binding.root, revision |-> binding.revision,
                                       state |-> "PENDING", receipt |-> "NONE"])
        /\ Goes("CONTINUE", Len(exports) + 1)
  /\ UNCHANGED <<binding, files, held, ready, edits, crashes>>

\* A run that continues under whatever binding there is now.
ContinuesUnbound(i) ==
  IF exports[i].receipt # "NONE" THEN [at |-> "FINALIZE", found |-> "NONE"]
  ELSE IF exports[i].document \notin ready THEN [at |-> "IDLE", found |-> "NONE"]
  ELSE CASE files[Destination(i)] = Expected(i) -> [at |-> "RECORD", found |-> "ALREADY_PRESENT"]
         [] files[Destination(i)] \notin {None, Expected(i)} -> [at |-> "IDLE", found |-> "NONE"]
         [] OTHER -> [at |-> "PROJECT", found |-> "NONE"]

bindingMatchesRun(i) ==
  binding.status = "ACTIVE" /\ binding.root = exports[i].root /\ binding.revision = exports[i].revision

\* Where continuePending goes from what it finds: a receipt is finalized, a
\* document that is no longer READY or a file that differs ends the request, a
\* file that is there is recorded, and only a missing one needs the binding.
continuePending(i) ==
  IF exports[i].receipt # "NONE" THEN [at |-> "FINALIZE", found |-> "NONE"]
  ELSE IF exports[i].document \notin ready THEN [at |-> "IDLE", found |-> "NONE"]
  ELSE CASE files[Destination(i)] = Expected(i) -> [at |-> "RECORD", found |-> "ALREADY_PRESENT"]
         [] files[Destination(i)] \notin {None, Expected(i)} -> [at |-> "IDLE", found |-> "NONE"]
         [] OTHER -> [at |-> IF bindingMatchesRun(i) THEN "PROJECT" ELSE "IDLE", found |-> "NONE"]

Continue ==
  /\ call.at = "CONTINUE"
  /\ LET next == continuePending(call.item)
     IN call' = IF next.at = "IDLE" THEN Idle
                ELSE [at |-> next.at, item |-> call.item, found |-> next.found]
  /\ UNCHANGED <<binding, files, held, ready, exports, edits, crashes>>

\* A receipt for a file that is only about to be written.
RecordsAhead ==
  /\ call.at = "PROJECT"
  /\ call' = [call EXCEPT !.at = "RECORD", !.found = "WRITTEN"]
  /\ UNCHANGED <<binding, files, held, ready, exports, edits, crashes>>

\* project looks at the target once more before it writes.
project ==
  /\ call.at = "PROJECT"
  /\ LET file == files[Destination(call.item)]
     IN call' = CASE file = None -> [call EXCEPT !.at = "WRITE"]
                  [] file = Expected(call.item) -> [call EXCEPT !.at = "RECORD", !.found = "ALREADY_PRESENT"]
                  [] OTHER -> Idle
  /\ UNCHANGED <<binding, files, held, ready, exports, edits, crashes>>

\* The rename over the target.
projectWrites ==
  /\ call.at = "WRITE"
  /\ files' = [files EXCEPT ![Destination(call.item)] = Expected(call.item)]
  /\ held' = held \cup {<<Destination(call.item), Expected(call.item)>>}
  /\ call' = [call EXCEPT !.at = "RECORD", !.found = "WRITTEN"]
  /\ UNCHANGED <<binding, ready, exports, edits, crashes>>

recordProjectionReceipt ==
  /\ call.at = "RECORD"
  /\ exports' = [exports EXCEPT ![call.item].receipt = call.found]
  /\ Goes("FINALIZE", call.item)
  /\ UNCHANGED <<binding, files, held, ready, edits, crashes>>

finalize ==
  /\ call.at = "FINALIZE"
  /\ exports' = [exports EXCEPT ![call.item].state = "SUCCEEDED"]
  /\ Returns
  /\ UNCHANGED <<binding, files, held, ready, edits, crashes>>

-----------------------------------------------------------------------------
\* Everybody else.

\* The user writes or deletes a file of the Vault.
Edit(f, content) ==
  /\ edits < MaxEdits
  /\ files[f] # content
  /\ files' = [files EXCEPT ![f] = content]
  /\ held' = IF content = None THEN held ELSE held \cup {<<f, content>>}
  /\ edits' = edits + 1
  /\ UNCHANGED <<binding, ready, exports, call, crashes>>

\* Retention archives a document.
Archive(d) ==
  /\ Resting
  /\ d \in ready
  /\ ready' = ready \ {d}
  /\ UNCHANGED <<binding, files, held, exports, call, edits, crashes>>

\* The process ends; what is on disk stays.
Crash ==
  /\ ~ Resting
  /\ crashes < MaxCrashes
  /\ crashes' = crashes + 1
  /\ Returns
  /\ UNCHANGED <<binding, files, held, ready, exports, edits>>

ExportNext ==
  \/ \E root \in Roots: configure(root)
  \/ \E status \in {"ACTIVE", "DISABLED"}: setStatus(status)
  \/ \E d \in Documents: submit(d) \/ Archive(d)
  \/ Continue \/ project \/ projectWrites \/ recordProjectionReceipt \/ finalize
  \/ \E f \in Path, content \in Contents \cup {None}: Edit(f, content)

\* Exports alone; VaultImport adds what is imported.
ExportSpec == ExportInit /\ [][ExportNext \/ Crash]_exportVars

-----------------------------------------------------------------------------
(* Properties *)

\* The tables hold what their contracts admit and a request is about a run that exists.
ExportTypeOK ==
  /\ binding \in Binding
  /\ files \in [Path -> Contents \cup {None}]
  /\ held \subseteq Path \X Contents
  /\ ready \subseteq Documents
  /\ \A i \in 1 .. Len(exports): exports[i] \in Export
  /\ call.at \in {"CONTINUE", "PROJECT", "WRITE", "RECORD", "FINALIZE"} => call.item \in 1 .. Len(exports)
  /\ edits \in 0 .. MaxEdits /\ crashes \in 0 .. MaxCrashes

\* A document has at most one pending destination, and a destination one run,
\* however often the binding moves while requests die: the ledger cannot resolve
\* one unfinished export by starting another.
OneUnresolvedDestination ==
  /\ \A d \in Documents: \A i, j \in Pending(d): i = j
  /\ \A i, j \in 1 .. Len(exports):
       /\ exports[i].document = exports[j].document
       /\ exports[i].root = exports[j].root /\ exports[i].revision = exports[j].revision
       => i = j

\* A run with a receipt left its content in the Vault, whatever died and whatever
\* the user did with the file since.
SucceededReachedTheVault ==
  \A i \in 1 .. Len(exports):
    /\ exports[i].state = "SUCCEEDED" => exports[i].receipt # "NONE"
    /\ exports[i].receipt # "NONE" => <<Destination(i), Expected(i)>> \in held

\* A step of the server writes only below the root of the binding that is active
\* then: a run prepared under an earlier one never does, although it may be
\* retried later.
WritesStayInTheBinding ==
  edits' = edits =>
    \A f \in Path: files'[f] # files[f] => binding.status = "ACTIVE" /\ f.root = binding.root
=============================================================================

------------------------------ MODULE MCArtifacts ------------------------------
(***************************************************************************)
(* Instances of artifact ingestion, of manual uploads and of imports from  *)
(* the Vault for TLC.  A behaviour is one of its subject, and the others   *)
(* stay as they began.                                                     *)
(***************************************************************************)
EXTENDS Intake, TLC

CONSTANTS r1, i1, i2, d1, t1, c1, c2, root1

\* One document; the other content is a user's.
ItsTarget == d1 :> t1
ItsContent == d1 :> c1

VARIABLE subject   \* whose behaviour this is

ASSUME InstancesAssumption ==
  Manual!UploadAssumption /\ Imports!VaultAssumption /\ Imports!ImportAssumption

MCInit ==
  /\ subject \in {"ingestion", "manual", "imports"}
  /\ Init /\ Manual!Init /\ Imports!Init

MCNext ==
  /\ UNCHANGED subject
  /\ \/ subject = "ingestion" /\ Next /\ UNCHANGED <<uploadVars, importVars>>
     \/ subject = "manual" /\ Manual!Next /\ UNCHANGED <<ingestVars, importVars>>
     \/ subject = "imports" /\ Imports!Next /\ UNCHANGED <<ingestVars, uploadVars>>

MCSpec == MCInit /\ [][MCNext]_<<subject, ingestVars, uploadVars, importVars>>

-----------------------------------------------------------------------------
\* ArtifactIngestion: while bodies of uploads end, a session that is being
\* uploaded reaches a verdict.  ManualUpload: while requests end and leases are
\* reaped, an upload of the second route that its client keeps repeating is started.
UploadsGoOn ==
  /\ Fairness => UploadsSettle
  /\ Manual!Fairness => Manual!RepeatedUploadsStart
=============================================================================

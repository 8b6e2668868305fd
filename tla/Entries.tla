------------------------------ MODULE Entries ------------------------------
(* The ways by which something enters the Registry, side by side: what the  *)
(* public suggests, what administrators keep about creators, and imports.   *)
(* Each has its own tables and calls; their steps interleave.               *)
EXTENDS Intake, CreatorEvidence, AdminImport

EntriesInit == Init /\ EvidenceInit /\ ImportInit

EntriesNext ==
    \/ Next /\ UNCHANGED <<creatorVars, importVars>>
    \/ EvidenceNext /\ UNCHANGED <<vars, importVars>>
    \/ ImportNext /\ UNCHANGED <<vars, creatorVars>>

EntriesSpec == EntriesInit /\ [][EntriesNext]_<<vars, creatorVars, importVars>>

(* Every variable of the three parts keeps its type.                       *)
AllTypesOK == TypeOK /\ EvidenceTypeOK /\ ImportTypeOK
=============================================================================

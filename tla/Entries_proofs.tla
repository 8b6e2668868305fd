---------------------------- MODULE Entries_proofs ----------------------------
(***************************************************************************)
(* The three ways into the Registry share no variable: whatever was proved *)
(* of one of them alone holds while the steps of all three interleave.     *)
(***************************************************************************)
EXTENDS Entries, Intake_proofs, CreatorEvidence_proofs, AdminImport_proofs

LEMMA StepOfThePublic ==
    [EntriesNext]_<<vars, creatorVars, importVars>> => [Next]_vars
BY DEF EntriesNext

LEMMA StepOfCreators ==
    [EntriesNext]_<<vars, creatorVars, importVars>> => [EvidenceNext]_creatorVars
BY DEF EntriesNext

LEMMA StepOfImports ==
    [EntriesNext]_<<vars, creatorVars, importVars>> => [ImportNext]_importVars
BY DEF EntriesNext

(* Each of the three sees of the whole only its own steps.                 *)
THEOREM EachEntersAlone == EntriesSpec => Spec /\ EvidenceSpec /\ ImportSpec
<1>1. EntriesInit => Init /\ EvidenceInit /\ ImportInit
  BY DEF EntriesInit
<1>2. QED
  BY <1>1, StepOfThePublic, StepOfCreators, StepOfImports, PTL
  DEF EntriesSpec, Spec, EvidenceSpec, ImportSpec

(* Submissions and their calls, profiles, sources and aliases, and imports *)
(* keep their types together.                                              *)
THEOREM EntriesTypeCorrect ==
    ASSUME ConstantsOK, EvidenceConstantsOK, ImportConstantsOK
    PROVE  EntriesSpec => []AllTypesOK
<1>1. TypeOK /\ EvidenceTypeOK /\ ImportTypeOK => AllTypesOK
  BY DEF AllTypesOK
<1>2. QED
  BY <1>1, EachEntersAlone, TypeCorrect, EvidenceTypeCorrect, ImportTypeCorrect, PTL

(* What the public may rely on while administrators work: one active       *)
(* suggestion of a content, nothing entered blindly, drafts bounded, and   *)
(* one answer to a repeated commit.                                        *)
THEOREM PublicUndisturbed ==
    ASSUME ConstantsOK
    PROVE  EntriesSpec => [](OneActivePerContent /\ NoneBlind /\ DraftsBounded) /\ CommitContract
BY EachEntersAlone, OneActive, NothingEntersBlind, DraftsAreBounded, CommitsKeepContract, PTL

(* What is kept about creators while suggestions and imports come in: one  *)
(* primary profile, approval of critical changes to the row as it was      *)
(* seen, and sources of the same creator.                                  *)
THEOREM CreatorsUndisturbed ==
    ASSUME EvidenceConstantsOK
    PROVE  EntriesSpec => [](OnePrimary /\ CriticalByApproval /\ SourceOwned) /\ ApprovedAsSeen
BY EachEntersAlone, PrimariesUnique, CriticalApproved, CitationsOwned, ApprovalsAsSeen, PTL

(* What imports promise while the other two go on: previews that hold but  *)
(* for later rows, one request per row, and the errors of the file.        *)
THEOREM ImportsUndisturbed ==
    ASSUME ImportConstantsOK
    PROVE  EntriesSpec => [](PreviewHolds /\ AskedOnce /\ ErrorsTold)
BY EachEntersAlone, SurprisesAreLater, RequestsRaisedOnce, ErrorsAreOfTheFile, PTL
=============================================================================

------------------------ MODULE MCReleasePublication ------------------------
(***************************************************************************)
(* Instances of ReleasePublication for TLC.                                *)
(***************************************************************************)
EXTENDS ReleasePublication, TLC

CONSTANTS r1

AsDraft(checksum) == [status |-> "draft", checksum |-> checksum, updated |-> 0,
                      published |-> None]

(* Every release is a draft, calculated or not; r1 is yet to be created.   *)
Zero         == [creators |-> 0, handles |-> 0]
Calculated   == [r \in Releases |-> AsDraft(Zero)]
Uncalculated == [r \in Releases |-> AsDraft(None)]
OneToCreate  == [r \in Releases |-> IF r = r1 THEN None ELSE AsDraft(Zero)]

(* Calls, administrators and requests are interchangeable, and so are the  *)
(* releases other than r1.                                                 *)
Symmetry == Permutations(Admins) \cup Permutations(Requests) \cup Permutations(Calls)
                \cup Permutations(Releases \ {r1})
=============================================================================

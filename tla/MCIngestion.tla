----------------------------- MODULE MCIngestion -----------------------------
(***************************************************************************)
(* Instances of Ingestion for TLC.                                         *)
(***************************************************************************)
EXTENDS Ingestion, TLC

(* A record keeps its name, or has another one in every odd version.       *)
SameName == [v \in 0 .. MaxVersion |-> 0]
Renamed  == [v \in 0 .. MaxVersion |-> v % 2]

(* A source that is paused, and one that only previews.                    *)
Paused == [Writing EXCEPT !.enabled = FALSE]
DryRun == [Writing EXCEPT !.writes = FALSE]
NoSettings == {}
AnySettings == {Writing, Paused, DryRun}

(* Jobs, runs and candidates are interchangeable.                          *)
Symmetry == Permutations(Jobs) \cup Permutations(Runs) \cup Permutations(Candidates)
=============================================================================

----------------------------- MODULE CommitOnce -----------------------------
(***************************************************************************)
(* What the bulk endpoint promises to whoever repeats a commit: a commit   *)
(* reference is used for one file, and everybody who is told a result for  *)
(* it is told the same one.                                                *)
(***************************************************************************)
CONSTANTS Commits, \* the references clients make up
          Files,   \* the rows they send, which the checksum stands for
          Results, \* the row-level results
          None

VARIABLES stored,  \* per reference, the file and the result on record
          told     \* the results that were given as answers

Stored == [file : Files, result : Results]

Init ==
    /\ stored = [k \in Commits |-> None]
    /\ told = {}

Record(k) ==
    /\ stored[k] = None
    /\ stored'[k] \in Stored
    /\ stored' = [stored EXCEPT ![k] = stored'[k]]
    /\ told' = told \cup {<<k, stored'[k].result>>}

Repeat(k) ==
    /\ stored[k] # None
    /\ told' = told \cup {<<k, stored[k].result>>}
    /\ UNCHANGED stored

Next == \E k \in Commits : Record(k) \/ Repeat(k)

Spec == Init /\ [][Next]_<<stored, told>>
=============================================================================

------------------------- MODULE MCApprovalWorkflow -------------------------
(***************************************************************************)
(* Instances of ApprovalWorkflow for TLC.                                  *)
(***************************************************************************)
EXTENDS ApprovalWorkflow, TLC

CONSTANTS a1, a2, a3, c1, c2, h1, h2, n1, n2

NoChange == [creator |-> Keep, name |-> Keep, class |-> Keep, status |-> Keep]

(* One hard-reserved handle of creator c1, stamped before the clock runs.  *)
HardRow == [creator |-> c1, name |-> n1, class |-> "hard_reserved",
            status |-> "active", rev |-> 0]
OneHardRow == [h \in Handles |-> IF h = h1 THEN HardRow ELSE None]
OneSoftRow == [h \in Handles |-> IF h = h1 THEN [HardRow EXCEPT !.class = "soft_protected"]
                                           ELSE None]

CriticalTiers == [c \in Creators |-> "critical"]
MixedTiers    == [c \in Creators |-> IF c = c1 THEN "critical" ELSE "standard"]

Suspend   == [NoChange EXCEPT !.status = "suspended"]
Soften    == [NoChange EXCEPT !.class = "soft_protected"]
Harden    == [NoChange EXCEPT !.class = "hard_reserved"]
HandTo(c) == [NoChange EXCEPT !.creator = c]
Rename(n) == [NoChange EXCEPT !.name = n]

JustHandOver == {HandTo(c2)}
HardenOrSuspend == {Harden, Suspend}
AnyPatch == {Suspend, Soften, Harden, HandTo(c1), HandTo(c2), Rename(n2)}

Creation(c, n) == [creator |-> c, name |-> n, class |-> "hard_reserved",
                   status |-> "active"]
Newcomers == {Creation(c1, n2), Creation(c2, n2)}

(* Calls are interchangeable, and so are request identifiers and           *)
(* administrators with the same permissions.                               *)
Symmetry == Permutations(Calls) \cup Permutations(Requests) \cup Permutations(SuperAdmins)
=============================================================================

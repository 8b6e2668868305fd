--------------------------- MODULE ReleaseHistory ---------------------------
(***************************************************************************)
(* What the registry promises of its releases, whatever calls compete to   *)
(* publish them: one release at most is current, the one it replaces stays *)
(* on record as a past one in the same instant, and a release that is past *)
(* or withdrawn never comes back.                                          *)
(***************************************************************************)
CONSTANTS
    Releases   \* identifiers a release can get

VARIABLES
    drafts,    \* releases under preparation
    current,   \* the release in force: none or one
    past,      \* releases that another one replaced
    withdrawn  \* releases taken back, published or not

rhVars == <<drafts, current, past, withdrawn>>

RHInit ==
    /\ drafts \subseteq Releases
    /\ current = {}
    /\ past = {}
    /\ withdrawn = {}

Draft(r) ==
    /\ r \notin drafts \cup current \cup past \cup withdrawn
    /\ drafts' = drafts \cup {r}
    /\ UNCHANGED <<current, past, withdrawn>>

(* The release in force and the one it replaces change places at once.     *)
PutInForce(r) ==
    /\ r \in drafts
    /\ drafts' = drafts \ {r}
    /\ current' = {r}
    /\ past' = past \cup current
    /\ UNCHANGED withdrawn

TakeBack(r) ==
    /\ r \in drafts \cup current
    /\ drafts' = drafts \ {r}
    /\ current' = current \ {r}
    /\ withdrawn' = withdrawn \cup {r}
    /\ UNCHANGED past

RHNext == \E r \in Releases : Draft(r) \/ PutInForce(r) \/ TakeBack(r)

RHSpec == RHInit /\ [][RHNext]_rhVars
=============================================================================

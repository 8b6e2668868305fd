----------------------------- MODULE MCClients -----------------------------
(* In each behaviour one of the pages, or the check of a handle, is used.  *)
EXTENDS Clients, TLC

CONSTANTS r1, r2,            \* records
          c1, c2,            \* creators
          f1, f2,            \* spreadsheets, the second unreadable
          h1, h2, h3         \* handles, the third unsupported

VARIABLE used

(***************************************************************************)
(* What is done with one page of the console.                              *)
(***************************************************************************)
Visit(p, u, m, s, w) == [page |-> p, uses |-> u, moves |-> m, sends |-> s, writes |-> w]

NoVisit == Visit("list", {}, 0, 0, 0)

SomeVisits == {
    Visit("candidate", {"approve"}, 3, 2, 0),
    Visit("release", {"calculate", "publish"}, 2, 2, 0),
    Visit("submission", {"reject"}, 2, 2, 0),
    Visit("import", {"commit"}, 3, 1, 1),
    Visit("creator", {"delete alias", "save evidence"}, 2, 2, 0),
    Visit("creator_form", {"save creator"}, 3, 2, 0),
    Visit("handle", {"suspend", "save decision"}, 2, 2, 0),
    Visit("approval", {"approve", "expire"}, 2, 2, 1),
    Visit("sources", {"run", "reset"}, 1, 3, 0),
    Visit("list", {"create release", "preview import"}, 3, 1, 0),
    NoVisit}

SomeErrands == [choose |-> 2, commit |-> 2, template |-> 1, retry |-> 1]

SomeEntries == {[handle |-> h1, creator |-> c1], [handle |-> h2, creator |-> c2]}

(***************************************************************************)
(* What the Registry may hold about one handle: a reservation of the name  *)
(* and an alias of one creator, a name that looks like it of another one.  *)
(***************************************************************************)
Row(c, m, s) == [owner |-> c, match |-> m, score |-> s]

OfficialAlias(c, s) == [owner |-> c, match |-> "exact", kind |-> "official_handle", score |-> s]

SomeReservations == {Row(c1, "exact", 80), Row(c2, "confusable", 95)}

OneAlias == {OfficialAlias(c1, 90)}

(* The constants are what the proofs about the pages rely on.              *)
ASSUME KindsOfPages ==
    /\ ConstantsOK /\ ServiceConstantsOK
    /\ Check!ConstantsOK /\ Form!ConstantsOK /\ Reserve!ConstantsOK

Plain == [class |-> "hard_reserved", status |-> "active"]

MCInit ==
    /\ ClientsInit
    /\ used \in Uses
    /\ used = "console" <=> visit # NoVisit
    /\ used # "console" => \A r \in Records : rows[r] = rows[r1]
    /\ used # "check" => initial = None
    /\ used # "service" => verified = {} /\ approved = {} /\ \A r \in DOMAIN reserved : reserved[r] = Plain

MCNext == UNCHANGED used /\ StepOf(used)

MCSpec ==
    MCInit /\ [][MCNext]_<<used, consoleVars, bulkVars, checkVars, formVars, reserveVars, serviceVars>>

Symmetry == Permutations({r1, r2})
=============================================================================

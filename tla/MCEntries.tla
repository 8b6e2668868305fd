----------------------------- MODULE MCEntries -----------------------------
(* Small instances of the ways into the Registry.  They meet in no         *)
(* variable, so in each behaviour one of them has work to do.               *)
EXTENDS Entries, TLC

CONSTANTS n1, n2, h1, h2, u1, u2, k1, k2, t1, t2, l1, w1, w2, \* rows and calls of the public
          c1, c2, p1, p2, x1, x2, q1, s1, a1   \* creators and what hangs on them

(***************************************************************************)
(* A file whose two rows are alike in part, one that repeats a row and has *)
(* an invalid one, and singles that compete with both.                     *)
(***************************************************************************)
Entry(n, hs, us) == [name |-> n, handles |-> hs, sources |-> us]

A == Entry(n1, <<h1>>, <<u1>>)
B == Entry(n2, <<h1, h2>>, <<u2>>)
BTurned == Entry(n2, <<h2, h1>>, <<u2>>)
Bad == Entry(n2, <<h1, h1>>, <<u2>>)

SomeSelections == {[selected |-> {1, 2}, confirmed |-> {}],
                   [selected |-> {1, 2}, confirmed |-> {2}],
                   [selected |-> {1}, confirmed |-> {2}]}

Idle == [routes |-> {}, most |-> 0]
Racing == [routes |-> {"create", "commit"}, most |-> 3]
Reviewing == [routes |-> {"create", "commit", "start_review", "reject"}, most |-> 2]
Learning == [routes |-> {"commit", "learn"}, most |-> 3]
Converting == [routes |-> {"approve", "start_review", "convert", "approve_candidate",
                           "reject_candidate", "request_review", "merge"}, most |-> 4]

TwoFiles == {<<A, B>>, <<B, BTurned, Bad>>}
SomeForms == {A, BTurned}
OldRow == l1 :> A
Known == {n1}
Loads == {Idle, Racing, Reviewing, Learning, Converting}

(***************************************************************************)
(* Profiles of one creator; aliases and sources of two.                    *)
(***************************************************************************)
NoGroup == [routes |-> "none", creators |-> {}, most |-> 0]
Profiling == [routes |-> "profiles", creators |-> {c1}, most |-> 3]
Citing == [routes |-> "evidence", creators |-> {c1, c2}, most |-> 3]

SomeBodies == {[account |-> x1, primary |-> TRUE, shown |-> TRUE],
               [account |-> x2, primary |-> TRUE, shown |-> TRUE],
               [account |-> x2, primary |-> FALSE, shown |-> FALSE]}

SomeGroups == {NoGroup, Profiling, Citing}

(***************************************************************************)
(* Files about one creator.                                                *)
(***************************************************************************)
Line(t, k, m) == [type |-> t, name |-> n1, key |-> k, mark |-> m]

Famous == Line("creator", None, "critical")
Hard == Line("handle", h1, "hard_reserved")
OneAlias == Line("alias", h1, None)
Source == Line("source", h1, None)
Broken == Line("invalid", None, None)

Trip(fs, ps, cs, es) == [files |-> fs, previews |-> ps, commits |-> cs, events |-> es]

SomeTrips == {Trip({}, 0, 0, 0),
              Trip({<<Famous, Hard>>, <<Famous, Famous>>}, 2, 2, 1),
              Trip({<<Hard, Hard>>, <<OneAlias, Broken>>, <<OneAlias>>}, 2, 2, 2),
              Trip({<<Source>>, Unreadable}, 3, 1, 2)}

ASSUME KindsOfRows == ConstantsOK /\ EvidenceConstantsOK /\ ImportConstantsOK

(***************************************************************************)
(* Only one of the three has work, and the others rest as they began.      *)
(***************************************************************************)
AtWork(part) ==
    CASE part = "public"  -> load # Idle
      [] part = "creator" -> group # NoGroup
      [] part = "imports" -> trip.files # {}

MCInit ==
    /\ EntriesInit
    /\ \E x \in {"public", "creator", "imports"} :
          \A y \in {"public", "creator", "imports"} : AtWork(y) <=> y = x
    /\ load = Idle => submissions[l1].status = "pending" /\ candidates[l1] = None

MCSpec == MCInit /\ [][EntriesNext]_<<vars, creatorVars, importVars>>

Symmetry == Permutations({w1, w2})
=============================================================================

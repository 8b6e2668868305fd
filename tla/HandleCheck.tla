----------------------------- MODULE HandleCheck -----------------------------
(***************************************************************************)
(* A check of one handle by the public API: what the Registry holds about  *)
(* it, the queries of the check, and administrators who write in between.  *)
(*                                                                         *)
(* Reserved handles and aliases are read by two queries at once, their     *)
(* creators by a third.  Of every row it matters how its name relates to   *)
(* the handle: the same, or one that looks like it; rows of other names    *)
(* are not read.                                                           *)
(***************************************************************************)
EXTENDS Naturals, FiniteSets

CONSTANTS
    Creators,
    Reservations, \* rows of reserved handles: [owner, match, score], one exact at most
    Aliases,      \* rows of aliases: [owner, match, kind, score]
    MaxWrites,    \* how often administrators write
    Nothing

Classes == {"hard_reserved", "soft_protected", "monitored", "not_listed"}

Conditions == {"active", "suspended", "released", "disputed"}

(* What the constants must be like.                                        *)
ServiceConstantsOK == IsFiniteSet(Creators) /\ Nothing \notin Conditions /\ MaxWrites \in Nat

VARIABLES
    reserved, \* per reservation, its [class, status]
    verified, \* the aliases whose source is verified
    approved, \* the creators whose review status is approved
    found,    \* what the two queries found, Nothing before their answer
    verdict,  \* the answer of the check, or Nothing
    throughout, \* candidates in force in every state since the check began
    sometime,   \* and in some state
    writes

serviceVars == <<reserved, verified, approved, found, verdict, throughout, sometime, writes>>

(***************************************************************************)
(* Candidates.                                                             *)
(***************************************************************************)
ExactRank(class) ==
    CASE class = "hard_reserved"  -> 900
      [] class = "soft_protected" -> 800
      [] class = "monitored"      -> 700
      [] OTHER                    -> 0

Candidate(row, class, by, status, rank) ==
    [creator |-> row.owner, class |-> class, by |-> by, score |-> row.score,
     status |-> status, rank |-> rank]

Capped(row) == [row EXCEPT !.score = IF @ > 90 THEN 90 ELSE @]

Resembling(row, status) ==
    Candidate(Capped(row), "soft_protected", "confusable_skeleton", status, 500)

Effective(state) == IF state.status = "active" THEN state.class ELSE "soft_protected"

OfReservation(row, state) ==
    IF row.match = "exact"
    THEN Candidate(row, Effective(state), "exact_handle", state.status, ExactRank(Effective(state)))
    ELSE Resembling(row, state.status)

AliasRank(kind) ==
    CASE kind = "official_handle"   -> 600
      [] kind = "protected_variant" -> 550
      [] OTHER                      -> 400

OfAlias(row) ==
    IF row.match = "exact"
    THEN Candidate(row, "soft_protected", row.kind, Nothing, AliasRank(row.kind))
    ELSE Resembling(row, Nothing)

Listed(state) == state.status # "released" /\ state.class # "not_listed"

ReservedNow ==
    {OfReservation(r, reserved[r]) : r \in {q \in Reservations : q.owner \in approved /\ Listed(reserved[q])}}

AliasesNow == {OfAlias(a) : a \in {b \in verified : b.owner \in approved}}

InForce == ReservedNow \cup AliasesNow

(***************************************************************************)
(* The decision.                                                           *)
(***************************************************************************)
(* Mutant of Outranks: the score decides before the kind of the match.     *)
OutranksByScore(c, d) == c.score > d.score

Outranks(c, d) == c.rank > d.rank \/ (c.rank = d.rank /\ c.score > d.score)

Winners(cs) == {c \in cs : \A d \in cs : ~Outranks(d, c)}

NotListed == [class |-> "not_listed", by |-> "none", status |-> Nothing, ambiguous |-> FALSE,
              creator |-> Nothing, rank |-> 0]

Decision(cs, winner) ==
    LET ambiguous == Cardinality({c.creator : c \in cs}) > 1
    IN  [class |-> winner.class, by |-> winner.by, status |-> winner.status,
         ambiguous |-> ambiguous, rank |-> winner.rank,
         creator |-> IF ~ambiguous /\ winner.creator \in approved THEN winner.creator ELSE Nothing]

ServiceInit ==
    /\ reserved \in [Reservations -> [class : Classes \ {"not_listed"}, status : {"active", "released"}]]
    /\ verified \in SUBSET Aliases
    /\ approved \in SUBSET Creators
    /\ found = [reservations |-> Nothing, aliases |-> Nothing]
    /\ verdict = Nothing
    /\ throughout = InForce /\ sometime = InForce
    /\ writes = 0

(***************************************************************************)
(* The queries, in any order but the last.                                 *)
(***************************************************************************)
Registry == <<reserved, verified, approved, throughout, sometime, writes>>

ReadReservations ==
    /\ found.reservations = Nothing
    /\ found' = [found EXCEPT !.reservations = ReservedNow]
    /\ UNCHANGED <<Registry, verdict>>

ReadAliases ==
    /\ found.aliases = Nothing
    /\ found' = [found EXCEPT !.aliases = AliasesNow]
    /\ UNCHANGED <<Registry, verdict>>

(* The creators are read, and the answer given, without a further wait.    *)
Decide ==
    /\ verdict = Nothing
    /\ found.reservations # Nothing /\ found.aliases # Nothing
    /\ LET cs == found.reservations \cup found.aliases
       IN  IF cs = {} THEN verdict' = NotListed
                      ELSE \E winner \in Winners(cs) : verdict' = Decision(cs, winner)
    /\ UNCHANGED <<Registry, found>>

(***************************************************************************)
(* Administrators.                                                         *)
(***************************************************************************)
Written ==
    /\ verdict = Nothing
    /\ writes < MaxWrites
    /\ writes' = writes + 1
    /\ throughout' = throughout \cap InForce'
    /\ sometime' = sometime \cup InForce'
    /\ UNCHANGED <<found, verdict>>

Change(r) ==
    /\ \/ \E c \in Classes : reserved' = [reserved EXCEPT ![r].class = c]
       \/ \E s \in Conditions : reserved' = [reserved EXCEPT ![r].status = s]
    /\ UNCHANGED <<verified, approved>>
    /\ Written

Cite(a) ==
    /\ verified' \in {verified \cup {a}, verified \ {a}}
    /\ UNCHANGED <<reserved, approved>>
    /\ Written

Review(c) ==
    /\ approved' \in {approved \cup {c}, approved \ {c}}
    /\ UNCHANGED <<reserved, verified>>
    /\ Written

ServiceNext ==
    \/ ReadReservations \/ ReadAliases \/ Decide
    \/ \E r \in Reservations : Change(r)
    \/ \E a \in Aliases : Cite(a)
    \/ \E c \in Creators : Review(c)

ServiceSpec == ServiceInit /\ [][ServiceNext]_serviceVars

(***************************************************************************)
(* Properties.                                                             *)
(***************************************************************************)
ServiceTypeOK ==
    /\ reserved \in [Reservations -> [class : Classes, status : Conditions]]
    /\ verified \subseteq Aliases /\ approved \subseteq Creators
    /\ verdict = Nothing \/ verdict.class \in Classes
    /\ throughout \subseteq sometime /\ writes \in 0 .. MaxWrites

(***************************************************************************)
(* However writes and queries interleave, an answer ranks no lower than    *)
(* what was in force all the while, tells what was in force at some time,  *)
(* and names a creator only if nobody else had a claim all the while.      *)
(***************************************************************************)
AnswerHolds ==
    verdict # Nothing =>
        /\ \A c \in throughout : c.rank <= verdict.rank
        /\ verdict = NotListed \/ \E c \in sometime :
              <<c.class, c.by, c.status>> = <<verdict.class, verdict.by, verdict.status>>
        /\ verdict.creator # Nothing =>
              /\ \A c \in throughout : c.creator = verdict.creator
              /\ \E c \in sometime : c.creator = verdict.creator /\ c.by = verdict.by
=============================================================================

--------------------------- MODULE CreatorEvidence ---------------------------
(***************************************************************************)
(* What hangs on a creator: sources, aliases that may cite one of them,    *)
(* and profiles on a platform, one of which is the primary one.  Profiles  *)
(* of a critical creator change only by requests that somebody else        *)
(* approves; who may decide, and when, is ApprovalWorkflow's matter.       *)
(*                                                                         *)
(* A call is a sequence of statements, any of which may fail.  The unique  *)
(* index on primaries is left out: OnePrimary shows that it never refuses. *)
(* Each write stamps a row anew; equal stamps are ApprovalWorkflow's.      *)
(***************************************************************************)
EXTENDS Naturals, FiniteSets

CONSTANTS
    Creators,
    Profiles,  \* identifiers of profiles, all of one platform
    Bodies,    \* what calls send: [account, primary, shown], the account unique
    Requests,
    Sources,
    Aliases,
    AliasNames, \* normalised aliases
    Callers,   \* calls that may be under way at once
    Groups,    \* what a behaviour is about: [routes, creators, most]
    Nothing,
    Gone       \* a row that was deleted

AliasRow ==
    [owner : Creators, name : AliasNames, cites : Sources \cup {Nothing}, imported : BOOLEAN]

(* Nothing and Gone stand for no row; groups and bodies are of their kind. *)
EvidenceConstantsOK ==
    /\ Nothing \notin Creators /\ Gone \notin Creators \cup {Nothing}
    /\ Nothing \notin AliasRow /\ Gone \notin AliasRow
    /\ \A b \in Bodies : b.primary \in BOOLEAN /\ b.shown \in BOOLEAN
    /\ \A g \in Groups : g.creators \subseteq Creators

VARIABLES
    tiers,     \* per creator
    profiles,  \* per profile, Nothing or [owner, account, primary, shown, rev]
    requests,  \* per request, Nothing or [kind, profile, row, expects, saw, open]
    sources,   \* per source, Nothing, the creator it belongs to, or Gone
    aliases,   \* per alias, Nothing, [owner, name, cites, imported] or Gone
    doing,     \* per caller, Nothing or the call with what it has read
    stamp,     \* the number of writes, and the revision they give
    begun,     \* the number of calls
    group,
    raised,    \* calls that had read a tier when one was raised
    unapproved \* callers that wrote a critical creator's profile directly

profileVars == <<tiers, profiles, requests, raised, unapproved>>
evidenceVars == <<sources, aliases>>
creatorVars == <<profileVars, evidenceVars, doing, stamp, begun, group>>

Row(c, b) == [owner |-> c, account |-> b.account, primary |-> b.primary, shown |-> b.shown]

Content(p) == Row(profiles[p].owner, profiles[p])

EvidenceInit ==
    /\ tiers = [c \in Creators |-> "notable"]
    /\ profiles = [p \in Profiles |-> Nothing]
    /\ requests = [r \in Requests |-> Nothing]
    /\ sources = [s \in Sources |-> Nothing]
    /\ aliases = [a \in Aliases |-> Nothing]
    /\ doing = [w \in Callers |-> Nothing]
    /\ stamp = 0 /\ begun = 0
    /\ group \in Groups
    /\ raised = {} /\ unapproved = {}

Begin(w, g, call) ==
    /\ group.routes = g /\ doing[w] = Nothing /\ begun < group.most
    /\ begun' = begun + 1
    /\ doing' = [doing EXCEPT ![w] = call]
    /\ raised' = raised \ {w}

Continue(w, call) == doing' = [doing EXCEPT ![w] = call] /\ UNCHANGED <<begun, raised>>

End(w) == Continue(w, Nothing)

Stands(w, step) == doing[w] # Nothing /\ doing[w].step = step

GiveUp(w) ==
    /\ doing[w] # Nothing
    /\ End(w)
    /\ UNCHANGED <<tiers, profiles, requests, unapproved, evidenceVars, stamp, group>>

(***************************************************************************)
(* PATCH /creators.                                                        *)
(***************************************************************************)
SetTier(c) ==
    /\ group.routes = "profiles"
    /\ tiers' = [tiers EXCEPT ![c] = IF @ = "critical" THEN "notable" ELSE "critical"]
    /\ raised' = IF tiers[c] = "critical" THEN raised ELSE raised \cup {w \in Callers : Stands(w, "write")}
    /\ UNCHANGED <<profiles, requests, unapproved, evidenceVars, doing, stamp, begun, group>>

(***************************************************************************)
(* Profiles.  POST, PATCH and DELETE read the row and the tier first.      *)
(***************************************************************************)
Used(p) == profiles[p] # Nothing \/ \E r \in Requests : requests[r] # Nothing /\ requests[r].profile = p

(* A creation makes up its identifier only when it writes.                 *)
Targets(call) ==
    IF call.kind # "create" THEN {call.profile}
    ELSE IF \A p \in Profiles : Used(p) THEN {} ELSE {CHOOSE p \in Profiles : ~Used(p)}

Call(kind, p, row) ==
    [step |-> "judge", kind |-> kind, profile |-> p, row |-> row,
     rev |-> IF kind = "create" THEN Nothing ELSE profiles[p].rev,
     saw |-> IF kind = "create" THEN Nothing ELSE Content(p)]

PostProfile(w) ==
    /\ \E c \in group.creators, b \in Bodies : Begin(w, "profiles", Call("create", Nothing, Row(c, b)))
    /\ UNCHANGED <<tiers, profiles, requests, unapproved, evidenceVars, stamp, group>>

(* What a body leaves out is filled in from the row as it was read.        *)
PatchProfile(w) ==
    /\ \E p \in Profiles, b \in Bodies :
          profiles[p] # Nothing /\ Begin(w, "profiles", Call("update", p, Row(profiles[p].owner, b)))
    /\ UNCHANGED <<tiers, profiles, requests, unapproved, evidenceVars, stamp, group>>

DeleteProfile(w) ==
    /\ \E p \in Profiles :
          profiles[p] # Nothing /\ Begin(w, "profiles", Call("delete", p, Content(p)))
    /\ UNCHANGED <<tiers, profiles, requests, unapproved, evidenceVars, stamp, group>>

Conflicts(p, row) == \E q \in Profiles \ {p} : profiles[q] # Nothing /\ profiles[q].account = row.account

(* Mutant of NeedsApproval: a suppression is not held to redirect anybody. *)
NeedsApprovalUnlessDelete(call) ==
    call.kind # "delete" /\ tiers[call.row.owner] = "critical"

NeedsApproval(call) == tiers[call.row.owner] = "critical"

(* The tier is read, and conflicts end the call.                           *)
JudgeTier(w) ==
    /\ Stands(w, "judge")
    /\ IF doing[w].kind # "delete" /\ Conflicts(doing[w].profile, doing[w].row) THEN End(w)
       ELSE Continue(w, [doing[w] EXCEPT !.step = IF NeedsApproval(doing[w]) THEN "request" ELSE "write"])
    /\ UNCHANGED <<tiers, profiles, requests, unapproved, evidenceVars, stamp, group>>

Request(w) ==
    /\ Stands(w, "request")
    /\ \E r \in Requests, p \in Targets(doing[w]) :
          /\ requests[r] = Nothing
          /\ requests' = [requests EXCEPT ![r] =
                [kind |-> doing[w].kind, profile |-> p, row |-> doing[w].row,
                 expects |-> doing[w].rev, saw |-> doing[w].saw, open |-> TRUE]]
    /\ End(w)
    /\ UNCHANGED <<tiers, profiles, unapproved, evidenceVars, stamp, group>>

(* Mutant of Demoted: the other profiles keep their mark.                  *)
DemotedNone(p, row, q) == FALSE

(* Every other profile of the creator is written, primary or not.          *)
Demoted(p, row, q) == row.primary /\ q # p /\ profiles[q] # Nothing /\ profiles[q].owner = row.owner

Stamped(row) ==
    [owner |-> row.owner, account |-> row.account, primary |-> row.primary, shown |-> row.shown,
     rev |-> stamp + 1]

Suppressed(p) == [profiles[p] EXCEPT !.shown = FALSE, !.primary = FALSE, !.rev = stamp + 1]

(* One batch: the others lose the mark, then the row is written; or a row  *)
(* is suppressed.  The index on accounts may refuse it all.                *)
Write(kind, p, row) ==
    /\ kind = "create" \/ profiles[p] # Nothing
    /\ kind = "delete" \/ ~Conflicts(p, row)
    /\ profiles' = [q \in Profiles |->
          IF q = p THEN IF kind = "delete" THEN Suppressed(p) ELSE Stamped(row)
          ELSE IF kind # "delete" /\ Demoted(p, row, q)
          THEN [profiles[q] EXCEPT !.primary = FALSE, !.rev = stamp + 1]
          ELSE profiles[q]]
    /\ stamp' = stamp + 1

WriteProfile(w) ==
    /\ Stands(w, "write")
    /\ \E p \in Targets(doing[w]) : Write(doing[w].kind, p, doing[w].row)
    /\ unapproved' = IF tiers[doing[w].row.owner] = "critical" /\ w \notin raised
                     THEN unapproved \cup {w} ELSE unapproved
    /\ End(w)
    /\ UNCHANGED <<tiers, requests, evidenceVars, group>>

(* Mutant of AsRequested: the target need only be there.                   *)
SeenAnyRevision(q) == q.kind = "create" \/ profiles[q.profile] # Nothing

AsRequested(q) ==
    \/ q.kind = "create"
    \/ profiles[q.profile] # Nothing /\ profiles[q.profile].rev = q.expects

(* A batch that is refused leaves the request open.                        *)
ApproveProfile(r) ==
    /\ requests[r] # Nothing /\ requests[r].open
    /\ AsRequested(requests[r])
    /\ Write(requests[r].kind, requests[r].profile, requests[r].row)
    /\ requests' = [requests EXCEPT ![r].open = FALSE]
    /\ UNCHANGED <<tiers, unapproved, raised, evidenceVars, doing, begun, group>>

(* It is rejected, or expires.                                             *)
Dismiss(r) ==
    /\ requests[r] # Nothing /\ requests[r].open
    /\ requests' = [requests EXCEPT ![r].open = FALSE]
    /\ UNCHANGED <<tiers, profiles, unapproved, raised, evidenceVars, doing, stamp, begun, group>>

(***************************************************************************)
(* Sources and aliases.  Deleting a source clears the aliases citing it; a *)
(* citation of a source that is gone is refused by the foreign key.        *)
(***************************************************************************)
Exists(s) == s # Nothing => sources[s] \in Creators

There(a) == aliases[a] \notin {Nothing, Gone}

AddSource(s, c) ==
    /\ group.routes = "evidence" /\ s \in Sources /\ sources[s] = Nothing
    /\ sources' = [sources EXCEPT ![s] = c]
    /\ UNCHANGED <<profileVars, aliases, doing, stamp, begun, group>>

DeleteSource(s) ==
    /\ group.routes = "evidence" /\ sources[s] \in Creators
    /\ sources' = [sources EXCEPT ![s] = Gone]
    /\ aliases' = [a \in Aliases |->
          IF There(a) /\ aliases[a].cites = s
          THEN [aliases[a] EXCEPT !.cites = Nothing] ELSE aliases[a]]
    /\ UNCHANGED <<profileVars, doing, stamp, begun, group>>

(* Mutant of MayCite: the source need only exist.                          *)
MayCiteAny(c, s) == Exists(s)

MayCite(c, s) == s # Nothing => sources[s] = c

Alias(c, n, s, i) == [owner |-> c, name |-> n, cites |-> s, imported |-> i]

PostAlias(w) ==
    /\ \E c \in group.creators, n \in AliasNames, s \in Sources \cup {Nothing} :
          /\ MayCite(c, s)
          /\ Begin(w, "evidence", [step |-> "alias", alias |-> Nothing, row |-> Alias(c, n, s, FALSE)])
    /\ UNCHANGED <<tiers, profiles, requests, unapproved, evidenceVars, stamp, group>>

(* A body without a source keeps the one of the row that update reads.     *)
PatchAlias(w) ==
    /\ \E a \in Aliases, s \in Sources \cup {Nothing, "kept"} :
          /\ There(a)
          /\ IF s = "kept" THEN TRUE ELSE MayCite(aliases[a].owner, s)
          /\ Begin(w, "evidence", [step |-> "merge", alias |-> a, cites |-> s])
    /\ UNCHANGED <<tiers, profiles, requests, unapproved, evidenceVars, stamp, group>>

ReadAlias(w) ==
    LET a == doing[w].alias
        s == doing[w].cites
    IN  /\ Stands(w, "merge")
        /\ IF ~There(a) THEN End(w)
           ELSE \E n \in AliasNames :
                   Continue(w, [step |-> "alias", alias |-> a,
                                row |-> [aliases[a] EXCEPT !.cites = IF s = "kept" THEN @ ELSE s, !.name = n]])
        /\ UNCHANGED <<tiers, profiles, requests, unapproved, evidenceVars, stamp, group>>

Distinct(a, row) ==
    \A b \in Aliases \ {a} : There(b) =>
        <<aliases[b].owner, aliases[b].name>> # <<row.owner, row.name>>

WriteAlias(w) ==
    /\ Stands(w, "alias")
    /\ \E a \in Aliases :
          /\ IF doing[w].alias = Nothing THEN aliases[a] = Nothing ELSE a = doing[w].alias /\ There(a)
          /\ Exists(doing[w].row.cites) /\ Distinct(a, doing[w].row)
          /\ aliases' = [aliases EXCEPT ![a] = doing[w].row]
    /\ End(w)
    /\ UNCHANGED <<tiers, profiles, requests, unapproved, sources, stamp, group>>

DeleteAlias(a) ==
    /\ group.routes = "evidence" /\ There(a)
    /\ aliases' = [aliases EXCEPT ![a] = Gone]
    /\ UNCHANGED <<profileVars, sources, doing, stamp, begun, group>>

(* An import takes the source of an alias from its file as it is.          *)
ImportAlias(a) ==
    /\ group.routes = "evidence" /\ aliases[a] = Nothing
    /\ \E c \in group.creators, n \in AliasNames, s \in Sources \cup {Nothing} :
          /\ Exists(s) /\ Distinct(a, Alias(c, n, s, TRUE))
          /\ aliases' = [aliases EXCEPT ![a] = Alias(c, n, s, TRUE)]
    /\ UNCHANGED <<profileVars, sources, doing, stamp, begun, group>>

EvidenceNext ==
    \/ \E c \in group.creators : SetTier(c) \/ \E s \in Sources : AddSource(s, c)
    \/ \E r \in Requests : ApproveProfile(r) \/ Dismiss(r)
    \/ \E s \in Sources : DeleteSource(s)
    \/ \E a \in Aliases : DeleteAlias(a) \/ ImportAlias(a)
    \/ \E w \in Callers :
          \/ PostProfile(w) \/ PatchProfile(w) \/ DeleteProfile(w)
          \/ JudgeTier(w) \/ Request(w) \/ WriteProfile(w)
          \/ PostAlias(w) \/ PatchAlias(w) \/ ReadAlias(w) \/ WriteAlias(w)
          \/ GiveUp(w)

EvidenceSpec == EvidenceInit /\ [][EvidenceNext]_creatorVars

(***************************************************************************)
(* Properties.                                                             *)
(***************************************************************************)
EvidenceTypeOK ==
    /\ tiers \in [Creators -> {"notable", "critical"}]
    /\ \A p \in Profiles : profiles[p] # Nothing => profiles[p].owner \in Creators /\ profiles[p].rev \in 1 .. stamp
    /\ \A a \in Aliases : There(a) => Exists(aliases[a].cites) /\ Distinct(a, aliases[a])

(***************************************************************************)
(* A creator has one primary profile at most, so the index never refuses   *)
(* a write, nor an approval, because of a mark that it was to move.        *)
(***************************************************************************)
OnePrimary ==
    \A p, q \in Profiles :
        /\ profiles[p] # Nothing /\ profiles[q] # Nothing
        /\ profiles[p].primary /\ profiles[q].primary
        /\ profiles[p].owner = profiles[q].owner
        => p = q

(***************************************************************************)
(* A profile of a critical creator is created, changed or suppressed       *)
(* without approval only by a call that had read the tier before it was    *)
(* raised.                                                                 *)
(***************************************************************************)
CriticalByApproval == unapproved = {}

(***************************************************************************)
(* An approval changes a profile only if it is what the requester saw,     *)
(* whatever was written meanwhile, demotions by another profile included.  *)
(***************************************************************************)
ApprovedAsSeen ==
    [][\A r \in Requests :
          /\ requests[r] # Nothing /\ requests[r].kind # "create"
          /\ requests'[r] # requests[r] /\ profiles' # profiles
          => Content(requests[r].profile) = requests[r].saw]_creatorVars

(***************************************************************************)
(* An alias cites a source of its own creator, whatever becomes of source  *)
(* and alias between the check and the write, unless an import brought it. *)
(***************************************************************************)
SourceOwned ==
    \A a \in Aliases :
        There(a) /\ aliases[a].cites # Nothing =>
            sources[aliases[a].cites] = aliases[a].owner \/ aliases[a].imported
=============================================================================

------------------------- MODULE ReleasePublication -------------------------
(***************************************************************************)
(* Registry releases in the administration Worker: drafts, the calculation *)
(* of their snapshots, the requests to publish them, publication and       *)
(* withdrawal.                                                             *)
(*                                                                         *)
(* As in ApprovalWorkflow a call is one HTTP request, a step of it is one  *)
(* D1 statement or batch with the code up to the next one, and the other   *)
(* calls run between two steps.                                            *)
(*                                                                         *)
(* Abstractions.  The registry that a snapshot is taken of is a version of *)
(* its creator rows and a version of its handle rows.  A snapshot and its  *)
(* SHA-256 checksum are the two versions that were read: equal checksums   *)
(* stand for equal contents.  Counts, differences and wording are left     *)
(* out; approval_count is one exactly when a request was approved.  The    *)
(* middleware lets through who holds the permission of a route: an Admin   *)
(* below is one who does.  A draft is identified by its version.           *)
(***************************************************************************)
EXTENDS Integers

CONSTANTS
    Admins,         \* administrators, known by their e-mail address
    Releases,       \* identifiers a release can get
    Requests,       \* identifiers a publication request can get
    Calls,          \* HTTP requests being served at the same time
    Lifetime,       \* ticks from a request to its expiry (24 hours)
    MaxTime,        \* bound: the last tick of the clock
    MaxCalls,       \* bound: how many calls arrive in all
    MaxEdits,       \* bound: the last version of creators and of handles
    StartReleases,  \* the drafts present at the start, by identifier
    Operations,     \* the routes that are called
    None            \* no row, no value

ReleaseStatuses == {"draft", "published", "superseded", "withdrawn"}
RequestStatuses == {"pending", "approved", "applied", "rejected", "expired"}
Routes == {"create", "calculate", "request", "approve", "publish", "withdraw",
           "approve by id", "reject", "expire"}
ByRequest == {"approve by id", "reject", "expire"}

Checksum == [creators : Nat, handles : Nat]
Release == [status : ReleaseStatuses, checksum : Checksum \cup {None},
            updated : Nat, published : Nat \cup {None}]
Request == [release : Releases, by : Admins, checksum : Checksum, revision : Nat,
            expires : Nat, created : Nat, status : RequestStatuses, updated : Nat]
Decision == [request : Requests, admin : Admins, verdict : {"approved", "rejected"}]
AuditEntry == [action : {"created", "calculated", "published", "withdrawn",
                         "requested", "approved", "rejected", "expired"},
               entity : Releases \cup Requests, admin : Admins]

ASSUME ConstantsOK ==
    /\ Lifetime \in Nat \ {0} /\ MaxTime \in Nat \ {0}
    /\ MaxCalls \in Nat /\ MaxEdits \in Nat
    /\ Operations \subseteq Routes
    /\ StartReleases \in [Releases ->
          {None} \cup [status : {"draft"}, checksum : Checksum \cup {None},
                       updated : {0}, published : {None}]]
    /\ None \notin Nat \cup Checksum \cup Release \cup Request \cup Requests \cup RequestStatuses

VARIABLES
    clock,      \* the time every Worker reads
    arrived,    \* how many calls have arrived
    registry,   \* the versions of the creator rows and of the handle rows
    releases,   \* registry_releases, by identifier
    snapshots,  \* registry_release_snapshots, by release: what they hold
    requests,   \* admin_approval_requests of release.publish, by identifier
    decisions,  \* admin_approval_decisions
    audit,      \* audit_logs
    pc,         \* where each call stands, "idle" when it serves nothing
    call        \* the local variables of each call

dbVars == <<registry, releases, snapshots, requests, decisions, audit>>
vars   == <<clock, arrived, dbVars, pc, call>>

(***************************************************************************)
(* The local variables of a call: "found" is the release row it read,      *)
(* "mark" the snapshot it calculates or read, "request" the request it is  *)
(* about, "was" the status of that request when it was read, "stamp" the   *)
(* revision it will write; for an expiry, "stamp" is the expected_revision *)
(* of the body.                                                            *)
(***************************************************************************)
Mark == [creators : Nat \cup {None}, handles : Nat \cup {None}]
Points == {"idle", "insert", "draft", "state", "existing", "save", "release",
           "snapshot", "raise", "choose", "load", "decide", "publish",
           "withdraw", "audit"}
Call == [op : Routes, admin : Admins, at : Nat, target : Releases \cup Requests,
         found : Release \cup {None}, mark : Mark, request : Requests \cup {None},
         was : RequestStatuses \cup {None}, stamp : Nat]

Blank == [creators |-> None, handles |-> None]

Init ==
    /\ clock = 1
    /\ arrived = 0
    /\ registry = [creators |-> 0, handles |-> 0]
    /\ releases = StartReleases
    /\ snapshots = [r \in Releases |->
                       IF StartReleases[r] = None THEN None ELSE StartReleases[r].checksum]
    /\ requests = [q \in Requests |-> None]
    /\ decisions = {}
    /\ audit = {}
    /\ pc = [w \in Calls |-> "idle"]
    /\ call = [w \in Calls |-> None]

(* Call w goes on at point p with the local variables c, or ends.          *)
Goto(w, p, c) ==
    /\ pc' = [pc EXCEPT ![w] = p]
    /\ call' = [call EXCEPT ![w] = c]

Finish(w) == Goto(w, "idle", None)

Log(action, entity, a) ==
    audit' = audit \cup {[action |-> action, entity |-> entity, admin |-> a]}

Tick ==
    /\ clock < MaxTime
    /\ clock' = clock + 1
    /\ UNCHANGED <<arrived, dbVars, pc, call>>

(* Any other route that writes creators or handles.                        *)
EditRegistry ==
    /\ \E part \in {"creators", "handles"} :
          /\ registry[part] < MaxEdits
          /\ registry' = [registry EXCEPT ![part] = @ + 1]
    /\ UNCHANGED <<clock, arrived, releases, snapshots, requests, decisions, audit, pc, call>>

(***************************************************************************)
(* Arrivals.                                                               *)
(***************************************************************************)
NewCall(op, a, target, stamp) ==
    [op |-> op, admin |-> a, at |-> clock, target |-> target, found |-> None,
     mark |-> Blank, request |-> None, was |-> None, stamp |-> stamp]

FirstPoint(op) ==
    CASE op = "create"    -> "insert"
      [] op = "calculate" -> "draft"
      [] op = "request"   -> "release"
      [] op = "withdraw"  -> "withdraw"
      [] op \in {"approve", "publish"} -> "choose"

(* A new release has an identifier of its own, the others are known ones.  *)
Unused(r) ==
    /\ releases[r] = None
    /\ \A v \in Calls : pc[v] # "idle" => call[v].target # r

Accept(w) ==
    /\ pc[w] = "idle"
    /\ arrived < MaxCalls
    /\ arrived' = arrived + 1

ArriveRelease(w) ==
    /\ Accept(w)
    /\ \E op \in Operations \ ByRequest,
          a \in Admins, r \in Releases :
          /\ IF op = "create" THEN Unused(r) ELSE releases[r] # None
          /\ Goto(w, FirstPoint(op), NewCall(op, a, r, 0))
    /\ UNCHANGED <<clock, dbVars>>

ArriveDecision(w) ==
    /\ Accept(w)
    /\ \E op \in Operations \cap ByRequest,
          a \in Admins, q \in Requests :
          /\ requests[q] # None
          /\ Goto(w, "load", NewCall(op, a, q, requests[q].updated))
    /\ UNCHANGED <<clock, dbVars>>

(***************************************************************************)
(* Drafts and their calculation.                                           *)
(***************************************************************************)
CreateDraft(w) ==
    /\ pc[w] = "insert"
    /\ releases' = [releases EXCEPT ![call[w].target] =
          [status |-> "draft", checksum |-> None, updated |-> clock, published |-> None]]
    /\ Goto(w, "audit", call[w])
    /\ UNCHANGED <<clock, arrived, registry, snapshots, requests, decisions, audit>>

(* calculate looks at the status once, before it reads anything else.      *)
CheckDraft(w) ==
    /\ pc[w] = "draft"
    /\ LET row == releases[call[w].target] IN
          \/ row.status = "draft" /\ Goto(w, "state", [call[w] EXCEPT !.found = row])
          \/ row.status # "draft" /\ Finish(w)
    /\ UNCHANGED <<clock, arrived, dbVars>>

(* Two queries at once, which D1 may answer in either order.               *)
ReadState(w) ==
    /\ pc[w] = "state"
    /\ \E part \in {"creators", "handles"} :
          LET c == [call[w] EXCEPT !.mark[part] = registry[part]] IN
             /\ call[w].mark[part] = None
             /\ Goto(w, IF c.mark \in Checksum THEN "existing" ELSE "state", c)
    /\ UNCHANGED <<clock, arrived, dbVars>>

(* save looks for an earlier snapshot, then takes the time of its batch.   *)
FindExisting(w) ==
    /\ pc[w] = "existing"
    /\ Goto(w, "save", [call[w] EXCEPT !.stamp = clock])
    /\ UNCHANGED <<clock, arrived, dbVars>>

(* What a new snapshot does to the release: nothing if it is no draft.     *)
Stamped(row, c) ==
    IF row.status = "draft" THEN [row EXCEPT !.checksum = c.mark, !.updated = c.stamp]
                            ELSE row

SaveSnapshot(w) ==
    /\ pc[w] = "save"
    /\ LET c == call[w] IN
          /\ snapshots' = [snapshots EXCEPT ![c.target] = c.mark]
          /\ releases' = [releases EXCEPT ![c.target] = Stamped(@, c)]
          /\ Log("calculated", c.target, c.admin)
    /\ Finish(w)
    /\ UNCHANGED <<clock, arrived, registry, requests, decisions>>

(***************************************************************************)
(* Requests to publish.                                                    *)
(***************************************************************************)
ReadRelease(w) ==
    /\ pc[w] = "release"
    /\ Goto(w, "snapshot", [call[w] EXCEPT !.found = releases[call[w].target]])
    /\ UNCHANGED <<clock, arrived, dbVars>>

(* The row was read before the snapshot: they need not belong together.    *)
ReadSnapshot(w) ==
    /\ pc[w] = "snapshot"
    /\ LET c    == call[w]
           held == snapshots[c.target]
           ok   == held # None /\ c.found.status = "draft" /\ c.found.checksum = held
       IN \/ ok /\ Goto(w, "raise", [c EXCEPT !.mark = held])
          \/ ~ok /\ Finish(w)
    /\ UNCHANGED <<clock, arrived, dbVars>>

(* Mutant of NewRequest: the deadline of the request is not set apart.     *)
NewRequestUndated(c) ==
    [release |-> c.target, by |-> c.admin, checksum |-> c.mark,
     revision |-> c.found.updated, expires |-> None, created |-> c.at,
     status |-> "pending", updated |-> c.at]

NewRequest(c) ==
    [release |-> c.target, by |-> c.admin, checksum |-> c.mark,
     revision |-> c.found.updated, expires |-> c.at + Lifetime, created |-> c.at,
     status |-> "pending", updated |-> c.at]

RaiseRequest(w) ==
    /\ pc[w] = "raise"
    /\ \E q \in Requests :
          /\ requests[q] = None
          /\ requests' = [requests EXCEPT ![q] = NewRequest(call[w])]
          /\ Log("requested", q, call[w].admin)
    /\ Finish(w)
    /\ UNCHANGED <<clock, arrived, registry, releases, snapshots, decisions>>

(***************************************************************************)
(* Decisions.  The release routes take the newest request that waits for   *)
(* them, any one of those created in the same tick; the others name one.   *)
(***************************************************************************)
Waiting(r, status) ==
    {q \in Requests : requests[q] # None /\ requests[q].release = r
                                        /\ requests[q].status = status}

Newest(r, status) ==
    {q \in Waiting(r, status) :
        \A p \in Waiting(r, status) : requests[p].created <= requests[q].created}

Open(q, at) == requests[q].status = "pending" /\ requests[q].expires > at

PastDue(q, at) ==
    requests[q].status \in {"pending", "approved"} /\ requests[q].expires <= at

(* What reject, expire and approveRelease ask of the row they were given:  *)
(* approveRelease leaves the status and the deadline to its batch.         *)
Decidable(c, q) ==
    /\ c.op = "expire" => PastDue(q, c.at) /\ requests[q].updated = c.stamp
    /\ c.op = "reject" => Open(q, c.at)
    /\ c.op # "expire" => requests[q].by # c.admin

Choose(w) ==
    /\ pc[w] = "choose"
    /\ LET c      == call[w]
           status == IF c.op = "approve" THEN "pending" ELSE "approved"
       IN \/ \E q \in Newest(c.target, status) :
                /\ c.op = "approve" => Decidable(c, q)
                /\ Goto(w, IF c.op = "approve" THEN "decide" ELSE "publish",
                        [c EXCEPT !.request = q])
          \/ /\ \/ Newest(c.target, status) = {}
                \/ \E q \in Newest(c.target, status) : c.op = "approve" /\ ~Decidable(c, q)
             /\ Finish(w)
    /\ UNCHANGED <<clock, arrived, dbVars>>

LoadRequest(w) ==
    /\ pc[w] = "load"
    /\ LET c == call[w] IN
          \/ /\ Decidable(c, c.target)
             /\ Goto(w, "decide", [c EXCEPT !.request = c.target,
                                            !.was = requests[c.target].status])
          \/ ~Decidable(c, c.target) /\ Finish(w)
    /\ UNCHANGED <<clock, arrived, dbVars>>

(* Mutant of MayDecide: the batch trusts the status read before it.        *)
MayDecideUnguarded(c) ==
    /\ requests[c.request].by # c.admin
    /\ \A d \in decisions : ~(d.request = c.request /\ d.admin = c.admin)

(* The guard of the batches, with the uniqueness of decisions.             *)
MayDecide(c) ==
    /\ Open(c.request, c.at) /\ requests[c.request].by # c.admin
    /\ \A d \in decisions : ~(d.request = c.request /\ d.admin = c.admin)

Resolve(c, status) ==
    requests' = [requests EXCEPT ![c.request].status = status, ![c.request].updated = c.at]

Decide(w, verdict) ==
    LET c == call[w] IN
    /\ \/ /\ MayDecide(c)
          /\ decisions' = decisions \cup
                {[request |-> c.request, admin |-> c.admin, verdict |-> verdict]}
          /\ Resolve(c, verdict)
          /\ Log(verdict, c.request, c.admin)
       \/ ~MayDecide(c) /\ UNCHANGED <<decisions, requests, audit>>
    /\ Finish(w)
    /\ UNCHANGED <<clock, arrived, registry, releases, snapshots>>

Approve(w) ==
    /\ pc[w] = "decide" /\ call[w].op \in {"approve", "approve by id"}
    /\ Decide(w, "approved")

Reject(w) ==
    /\ pc[w] = "decide" /\ call[w].op = "reject"
    /\ Decide(w, "rejected")

Expire(w) ==
    /\ pc[w] = "decide" /\ call[w].op = "expire"
    /\ LET c  == call[w]
           ok == requests[c.request].status = c.was /\ Decidable(c, c.request)
       IN \/ /\ ok
             /\ Resolve(c, "expired")
             /\ Log("expired", c.request, c.admin)
          \/ ~ok /\ UNCHANGED <<requests, audit>>
    /\ Finish(w)
    /\ UNCHANGED <<clock, arrived, registry, releases, snapshots, decisions>>

(***************************************************************************)
(* Publication and withdrawal.                                             *)
(***************************************************************************)
(* Mutant of Unchanged: only the status of the draft is tested.            *)
UnchangedDraft(q) == releases[q.release].status = "draft"

(* The draft and its snapshot are still those that were approved.          *)
Unchanged(q) ==
    /\ releases[q.release].status = "draft"
    /\ releases[q.release].updated = q.revision
    /\ releases[q.release].checksum = q.checksum
    /\ snapshots[q.release] = q.checksum

(* Mutant of Superseded: the release in force is left in force.            *)
SupersededNever(row, at) == row

(* What a publication does to any other release.                           *)
Superseded(row, at) ==
    IF row # None /\ row.status = "published"
    THEN [row EXCEPT !.status = "superseded", !.updated = at] ELSE row

Published(row, at) ==
    [row EXCEPT !.status = "published", !.published = at, !.updated = at]

Publish(w) ==
    /\ pc[w] = "publish"
    /\ LET c  == call[w]
           q  == requests[c.request]
           ok == q.status = "approved" /\ q.expires > c.at /\ Unchanged(q)
       IN \/ /\ ok
             /\ releases' = [r \in Releases |->
                   IF r = q.release THEN Published(releases[r], c.at)
                                    ELSE Superseded(releases[r], c.at)]
             /\ Resolve(c, "applied")
             /\ Log("published", q.release, c.admin)
          \/ ~ok /\ UNCHANGED <<releases, requests, audit>>
    /\ Finish(w)
    /\ UNCHANGED <<clock, arrived, registry, snapshots, decisions>>

Withdraw(w) ==
    /\ pc[w] = "withdraw"
    /\ LET row == releases[call[w].target] IN
          \/ /\ row.status \in {"draft", "published"}
             /\ releases' = [releases EXCEPT ![call[w].target].status = "withdrawn",
                                             ![call[w].target].updated = clock]
             /\ Goto(w, "audit", call[w])
          \/ /\ row.status \notin {"draft", "published"}
             /\ Finish(w)
             /\ UNCHANGED releases
    /\ UNCHANGED <<clock, arrived, registry, snapshots, requests, decisions, audit>>

(* The routes append the entry of a creation or a withdrawal afterwards.   *)
AppendAudit(w) ==
    /\ pc[w] = "audit"
    /\ Log(IF call[w].op = "create" THEN "created" ELSE "withdrawn",
           call[w].target, call[w].admin)
    /\ Finish(w)
    /\ UNCHANGED <<clock, arrived, registry, releases, snapshots, requests, decisions>>

(* A statement or a batch can fail and the Worker can be stopped between   *)
(* two of them: the call ends with what it has written so far.             *)
Fail(w) ==
    /\ pc[w] # "idle"
    /\ Finish(w)
    /\ UNCHANGED <<clock, arrived, dbVars>>

Draft(w) == CreateDraft(w) \/ CheckDraft(w) \/ ReadState(w) \/ FindExisting(w) \/ SaveSnapshot(w)

Next ==
    \/ Tick \/ EditRegistry
    \/ \E w \in Calls :
         \/ ArriveRelease(w) \/ ArriveDecision(w)
         \/ Draft(w)
         \/ ReadRelease(w) \/ ReadSnapshot(w) \/ RaiseRequest(w)
         \/ Choose(w) \/ LoadRequest(w) \/ Approve(w) \/ Reject(w) \/ Expire(w)
         \/ Publish(w) \/ Withdraw(w) \/ AppendAudit(w)
         \/ Fail(w)

Spec == Init /\ [][Next]_vars
-----------------------------------------------------------------------------
(***************************************************************************)
(* Types.  A call about a release or a request can rely on it to stay, and *)
(* has at each point the local variables that the next step reads.         *)
(***************************************************************************)
(* The points that a call of each route passes.                            *)
Passes(op, p) ==
    \/ op = "create"    /\ p \in {"insert", "audit"}
    \/ op = "calculate" /\ p \in {"draft", "state", "existing", "save"}
    \/ op = "request"   /\ p \in {"release", "snapshot", "raise"}
    \/ op = "approve"   /\ p \in {"choose", "decide"}
    \/ op = "publish"   /\ p \in {"choose", "publish"}
    \/ op = "withdraw"  /\ p \in {"withdraw", "audit"}
    \/ op \in ByRequest /\ p \in {"load", "decide"}

CallOK(c, p) ==
    /\ c \in Call
    /\ Passes(c.op, p)
    /\ c.op \in ByRequest => c.target \in Requests /\ requests[c.target] # None
    /\ c.op \notin ByRequest => c.target \in Releases
    /\ c.op \notin ByRequest /\ p # "insert" => releases[c.target] # None
    /\ p \in {"snapshot", "raise"} => c.found # None
    /\ p \in {"existing", "save", "raise"} => c.mark \in Checksum
    /\ p \in {"decide", "publish"} => c.request # None /\ requests[c.request] # None

CallsOK == \A w \in Calls : pc[w] # "idle" => CallOK(call[w], pc[w])

StoreOK ==
    /\ registry \in Checksum
    /\ releases \in [Releases -> Release \cup {None}]
    /\ snapshots \in [Releases -> Checksum \cup {None}]
    /\ requests \in [Requests -> Request \cup {None}]
    /\ decisions \subseteq Decision
    /\ audit \subseteq AuditEntry

Typed ==
    /\ clock \in Nat /\ arrived \in Nat
    /\ pc \in [Calls -> Points] /\ call \in [Calls -> Call \cup {None}]
    /\ StoreOK
    /\ CallsOK

(* A request is about a release that exists, a draft is unpublished, and   *)
(* the identifier of a release about to be created belongs to nobody else. *)
ReferencesOK ==
    /\ \A q \in Requests : requests[q] # None => releases[requests[q].release] # None
    /\ \A r \in Releases :
          releases[r] # None /\ releases[r].status = "draft" => releases[r].published = None
    /\ \A w \in Calls : pc[w] = "insert" =>
          /\ releases[call[w].target] = None
          /\ \A v \in Calls \ {w} :
                pc[v] = "insert" => call[v].target # call[w].target

TypeOK == Typed /\ ReferencesOK

(***************************************************************************)
(* The requests to publish and their decisions implement the four-eyes     *)
(* contract: one decision by somebody else, which a publication or an      *)
(* expiry follows once, and no outcome is ever left.                       *)
(***************************************************************************)
Contract == INSTANCE FourEyes WITH
    state     <- [q \in Requests |-> IF requests[q] = None THEN "absent" ELSE requests[q].status],
    raisedBy  <- [q \in Requests |-> IF requests[q] = None THEN {} ELSE {requests[q].by}],
    decidedBy <- [q \in Requests |-> {d.admin : d \in {e \in decisions : e.request = q}}]

FourEyesContract == Contract!FESpec

InStatus(s) == {r \in Releases : releases[r] # None /\ releases[r].status = s}

(***************************************************************************)
(* The release rows implement the history that the registry promises: at   *)
(* most one release is published, the one it replaces is superseded in the *)
(* same instant, and what is superseded or withdrawn stays so, however     *)
(* publications and withdrawals race.                                      *)
(***************************************************************************)
History == INSTANCE ReleaseHistory WITH
    drafts  <- InStatus("draft"), current   <- InStatus("published"),
    past    <- InStatus("superseded"), withdrawn <- InStatus("withdrawn")

HistoryContract == History!RHSpec

AppliedTo(r) ==
    {q \in Requests : requests[q] # None /\ requests[q].release = r
                                        /\ requests[q].status = "applied"}

ApprovedByAnother(q) ==
    \E d \in decisions : /\ d.request = q /\ d.verdict = "approved"
                         /\ d.admin # requests[q].by

(***************************************************************************)
(* A release that was ever published carries the very checksum that one    *)
(* request asked for and a second administrator approved, and exactly one  *)
(* request was used up for it; recalculations that race the request, the   *)
(* approval or the publication cannot change what is published.            *)
(***************************************************************************)
PublishedAsApproved ==
    \A r \in Releases :
        IF releases[r] # None /\ releases[r].published # None
        THEN \E q \in Requests : /\ AppliedTo(r) = {q} /\ ApprovedByAnother(q)
                                 /\ requests[q].checksum = releases[r].checksum
        ELSE AppliedTo(r) = {}

(***************************************************************************)
(* What RELEASE_MANAGEMENT.md says of the calculation: it may be repeated  *)
(* only while a release is a draft.                                        *)
(***************************************************************************)
CalculatedWhileDraft ==
    [][\A r \in Releases : snapshots'[r] # snapshots[r] => releases[r].status = "draft"]_vars
=============================================================================

-------------------------- MODULE ApprovalWorkflow --------------------------
(***************************************************************************)
(* Changes to reserved handles in the administration Worker, and the       *)
(* approval requests that the critical ones go through.                    *)
(*                                                                         *)
(* A "call" is one HTTP request served by the Worker.  It stamps itself    *)
(* when it arrives, reads rows, decides from what it read, and writes with *)
(* one D1 statement or one D1 batch.  A statement and a batch are atomic;  *)
(* between any two of them the other calls run.  Every step of a call      *)
(* below is one such database access together with the code up to the      *)
(* next one.                                                               *)
(*                                                                         *)
(* Abstractions.  A handle row keeps its owner, its normalised name, its   *)
(* classification and its status; wording, scores and the confusable       *)
(* skeleton are left out.  Identifiers made by crypto.randomUUID are       *)
(* picked among the unused ones.  A timestamp is a number of clock ticks,  *)
(* and several accesses can fall into one tick, as several can into one    *)
(* millisecond.  The commit of an import, which adds handle rows and       *)
(* requests of its own, belongs to another component and is left out.      *)
(***************************************************************************)
EXTENDS Integers

CONSTANTS
    Admins,         \* administrators that may call the routes
    SuperAdmins,    \* those who hold the handles:critical permission
    Creators,
    Handles,        \* identifiers a handle row can get
    Names,          \* normalised handle names
    Requests,       \* identifiers an approval request can get
    Calls,          \* HTTP requests being served at the same time
    Lifetime,       \* ticks from a request to its expiry (24 hours)
    MaxTime,        \* bound: the last tick of the clock
    MaxCalls,       \* bound: how many calls arrive in all
    NewRows,        \* the bodies of POST /reserved-handles considered
    Patches,        \* the bodies of PATCH and of the status routes considered
    Tiers,          \* the tiers a PATCH of a creator may set, Keep included
    StartRows,      \* the handle rows present at the start, by identifier
    StartTiers,     \* the tiers of the creators at the start
    None,           \* no row, no value
    Keep            \* a field that a PATCH body leaves out

Classifications == {"hard_reserved", "soft_protected", "monitored", "not_listed"}
Statuses == {"active", "suspended", "released", "disputed"}
TierValues == {"critical", "notable", "watchlist", "standard"}

(* What a change of a handle can set, and a stored row with its revision,  *)
(* the updated_at column.                                                  *)
Content == [creator : Creators, name : Names,
            class : Classifications, status : Statuses]
Row == [creator : Creators, name : Names,
        class : Classifications, status : Statuses, rev : Nat]
Patch == [creator : Creators \cup {Keep}, name : Names \cup {Keep},
          class : Classifications \cup {Keep}, status : Statuses \cup {Keep}]

(* The approval action types of handles, by what they do to the row.       *)
ActionTypes == {"create", "update"}
RequestStatuses == {"pending", "approved", "applied", "rejected", "expired"}

Request == [action : ActionTypes, handle : Handles, by : Admins,
            payload : Content, target : Nat \cup {None}, expires : Nat,
            status : RequestStatuses, count : {0, 1}, updated : Nat]
Decision == [request : Requests, admin : Admins,
             verdict : {"approved", "rejected"}]
AuditEntry == [action : {"requested", "applied", "rejected", "expired",
                         "handle", "creator"},
               entity : Requests \cup Handles \cup Creators, admin : Admins]

ASSUME ConstantsOK ==
    /\ SuperAdmins \subseteq Admins
    /\ Lifetime \in Nat \ {0} /\ MaxTime \in Nat \ {0} /\ MaxCalls \in Nat
    /\ NewRows \subseteq Content /\ Patches \subseteq Patch
    /\ Tiers \subseteq TierValues \cup {Keep}
    /\ Keep \notin TierValues \cup Creators \cup Names \cup Classifications \cup Statuses
    /\ StartRows \in [Handles -> {None} \cup {row \in Row : row.rev = 0}]
    /\ \A g, h \in Handles : g # h /\ StartRows[g] # None /\ StartRows[h] # None =>
          StartRows[g].name # StartRows[h].name
    /\ StartTiers \in [Creators -> TierValues]
    /\ None \notin Nat \cup Row \cup Request

VARIABLES
    clock,      \* the time every Worker reads
    arrived,    \* how many calls have arrived
    tier,       \* creator_entities.protection_tier
    handles,    \* reserved_handles, by identifier
    requests,   \* admin_approval_requests, by identifier
    decisions,  \* admin_approval_decisions
    audit,      \* audit_logs
    pc,         \* where each call stands, "idle" when it serves nothing
    call,       \* the local variables of each call
    (* Kept for the properties only; the code has no such state. *)
    stamps,     \* the revisions each handle row has ever been given
    reused,     \* the handles that were given one revision twice
    basis       \* the row each request was raised against

dbVars  == <<tier, handles, requests, decisions, audit, stamps, reused, basis>>
vars    == <<clock, arrived, dbVars, pc, call>>

(***************************************************************************)
(* The local variables of a call.  "seen" is the row the call decided on,  *)
(* the variable previous of the routes, "merged" what an UPDATE will set,  *)
(* "stamp" the revision it will set; for an expiry, "stamp" is the         *)
(* expected_revision of the body.                                          *)
(***************************************************************************)
Operations == {"create", "patch", "status", "creator",
               "approve", "reject", "expire"}
Points == {"idle", "read", "judge", "exact", "request", "insert", "current",
           "update", "readback", "status", "creator", "tier", "load",
           "decide", "audit"}
Call == [op : Operations, admin : Admins, at : Nat,
         target : Handles \cup Creators \cup Requests,
         body : Patch \cup {None}, seen : Row \cup {None},
         tier : TierValues \cup {Keep, None},
         merged : Content \cup {None}, stamp : Nat]

Init ==
    /\ clock = 1
    /\ arrived = 0
    /\ tier = StartTiers
    /\ handles = StartRows
    /\ requests = [r \in Requests |-> None]
    /\ decisions = {}
    /\ audit = {}
    /\ pc = [w \in Calls |-> "idle"]
    /\ call = [w \in Calls |-> None]
    /\ stamps = [h \in Handles |-> IF StartRows[h] = None THEN {} ELSE {0}]
    /\ reused = {}
    /\ basis = [r \in Requests |-> None]

(* Call w goes on at point p with the local variables c, or ends.          *)
Goto(w, p, c) ==
    /\ pc' = [pc EXCEPT ![w] = p]
    /\ call' = [call EXCEPT ![w] = c]

Finish(w) == Goto(w, "idle", None)

(* Only the audit entry is left to write: the rest is not read any more.   *)
ToAudit(w, c) ==
    Goto(w, "audit", [c EXCEPT !.at = 0, !.body = None, !.seen = None,
                               !.tier = None, !.merged = None, !.stamp = 0])

Tick ==
    /\ clock < MaxTime
    /\ clock' = clock + 1
    /\ UNCHANGED <<arrived, dbVars, pc, call>>

(***************************************************************************)
(* Arrivals.  The middleware stamps the call before authentication, rate   *)
(* limiting and body parsing, so any time may pass before its first read.  *)
(***************************************************************************)
NewCall(w, op, a, target, body, t, stamp) ==
    [op |-> op, admin |-> a, at |-> clock, target |-> target, body |-> body,
     seen |-> None, tier |-> t, merged |-> None, stamp |-> stamp]

Accept(w) ==
    /\ pc[w] = "idle"
    /\ arrived < MaxCalls
    /\ arrived' = arrived + 1

(* An identifier that neither a row, nor a request, nor a call uses.       *)
Unused(h) ==
    /\ handles[h] = None
    /\ \A r \in Requests : requests[r] # None => requests[r].handle # h
    /\ \A v \in Calls : call[v] # None => call[v].target # h

ArriveCreate(w) ==
    /\ Accept(w)
    /\ \E a \in Admins, h \in Handles, b \in NewRows :
          /\ Unused(h)
          /\ Goto(w, "judge", NewCall(w, "create", a, h, b, None, clock))
    /\ UNCHANGED <<clock, dbVars>>

(* PATCH may set anything; suspend, release and restore only the status.   *)
StatusOnly(b) == /\ b.creator = Keep /\ b.name = Keep /\ b.class = Keep
                 /\ b.status \in {"suspended", "released", "active"}

ArriveChange(w) ==
    /\ Accept(w)
    /\ \E op \in {"patch", "status"}, a \in Admins, h \in Handles, b \in Patches :
          /\ op = "status" => StatusOnly(b)
          /\ Goto(w, "read", NewCall(w, op, a, h, b, None, clock))
    /\ UNCHANGED <<clock, dbVars>>

ArriveCreator(w) ==
    /\ Accept(w)
    /\ \E a \in Admins, c \in Creators, t \in Tiers :
          Goto(w, "creator", NewCall(w, "creator", a, c, None, t, clock))
    /\ UNCHANGED <<clock, dbVars>>

(* The caller copies expected_revision from the latest detail response.    *)
ArriveDecision(w) ==
    /\ Accept(w)
    /\ \E op \in {"approve", "reject", "expire"}, a \in Admins, r \in Requests :
          /\ requests[r] # None
          /\ Goto(w, "load", NewCall(w, op, a, r, None, None, requests[r].updated))
    /\ UNCHANGED <<clock, dbVars>>

(***************************************************************************)
(* POST, PATCH and the status routes up to the choice between a direct     *)
(* write and an approval request.                                          *)
(***************************************************************************)
Or(given, present) == IF given = Keep THEN present ELSE given

(* The content a body asks for: a field left out keeps its present value.  *)
Merge(b, row) == [creator |-> Or(b.creator, row.creator),
                  name    |-> Or(b.name, row.name),
                  class   |-> Or(b.class, row.class),
                  status  |-> Or(b.status, row.status)]

(* For a creation there is no row and the body is complete.                *)
Proposal(c) == IF c.seen = None THEN c.body ELSE Merge(c.body, c.seen)

(* Mutant of IsCritical: the class the row has is forgotten.               *)
IsCriticalByProposal(c) ==
    c.tier = "critical" /\ Proposal(c).class = "hard_reserved"

IsCritical(c) ==
    /\ c.tier = "critical"
    /\ \/ Proposal(c).class = "hard_reserved"
       \/ c.seen # None /\ c.seen.class = "hard_reserved"

DirectPoint(op) == IF op = "create" THEN "insert"
                   ELSE IF op = "patch" THEN "current" ELSE "status"

(* A direct write of a new row or of a status takes its revision here.     *)
Choose(w, c) ==
    \/ /\ IsCritical(c) /\ c.admin \in SuperAdmins
       /\ Goto(w, "request", c)
    \/ /\ IsCritical(c) /\ c.admin \notin SuperAdmins
       /\ Finish(w)
    \/ /\ ~IsCritical(c)
       /\ Goto(w, DirectPoint(c.op), [c EXCEPT !.stamp = clock])

ReadHandle(w) ==
    /\ pc[w] = "read"
    /\ LET row == handles[call[w].target] IN
          \/ row = None /\ Finish(w)
          \/ row # None /\ Goto(w, "judge", [call[w] EXCEPT !.seen = row])
    /\ UNCHANGED <<clock, arrived, dbVars>>

(* The tier that counts is that of the owner the row would get.            *)
Judge(w) ==
    /\ pc[w] = "judge"
    /\ LET c == [call[w] EXCEPT !.tier = tier[Proposal(call[w]).creator]] IN
          \/ c.op = "create" /\ Goto(w, "exact", c)
          \/ c.op # "create" /\ Choose(w, c)
    /\ UNCHANGED <<clock, arrived, dbVars>>

Taken(name, except) ==
    \E h \in Handles \ {except} : handles[h] # None /\ handles[h].name = name

FindExact(w) ==
    /\ pc[w] = "exact"
    /\ LET taken == Taken(call[w].body.name, call[w].target) IN
          \/ taken /\ Finish(w)
          \/ ~taken /\ Choose(w, call[w])
    /\ UNCHANGED <<clock, arrived, dbVars>>

Log(action, entity, a) ==
    audit' = audit \cup {[action |-> action, entity |-> entity, admin |-> a]}

(* Mutant of NewRequest: the revision is not frozen.                       *)
NewRequestUnfrozen(c) ==
    [action |-> IF c.op = "create" THEN "create" ELSE "update",
     handle |-> c.target, by |-> c.admin, payload |-> Proposal(c),
     target |-> None, expires |-> c.at + Lifetime, status |-> "pending",
     count |-> 0, updated |-> c.at]

NewRequest(c) ==
    [action |-> IF c.op = "create" THEN "create" ELSE "update",
     handle |-> c.target, by |-> c.admin, payload |-> Proposal(c),
     target |-> IF c.op = "create" THEN None ELSE c.seen.rev,
     expires |-> c.at + Lifetime, status |-> "pending", count |-> 0,
     updated |-> c.at]

RequestApproval(w) ==
    /\ pc[w] = "request"
    /\ \E r \in Requests :
          /\ requests[r] = None
          /\ requests' = [requests EXCEPT ![r] = NewRequest(call[w])]
          /\ basis' = [basis EXCEPT ![r] = call[w].seen]
          /\ Log("requested", r, call[w].admin)
    /\ Finish(w)
    /\ UNCHANGED <<clock, arrived, tier, handles, decisions, stamps, reused>>

(***************************************************************************)
(* Direct writes.  Every write of a row, stamped at, leaves its stamp on   *)
(* record; a write that would give two rows one name fails as a whole.     *)
(***************************************************************************)
Write(h, row, at) ==
    /\ handles' = [handles EXCEPT ![h] = row]
    /\ stamps' = [stamps EXCEPT ![h] = @ \cup {at}]
    /\ reused' = IF at \in stamps[h] THEN reused \cup {h} ELSE reused

Stored(content, rev) ==
    [creator |-> content.creator, name |-> content.name,
     class |-> content.class, status |-> content.status, rev |-> rev]

Insert(w) ==
    /\ pc[w] = "insert"
    /\ LET c == call[w] IN
          \/ /\ Taken(c.body.name, c.target)
             /\ Finish(w)
             /\ UNCHANGED <<handles, stamps, reused>>
          \/ /\ ~Taken(c.body.name, c.target)
             /\ Write(c.target, Stored(c.body, c.stamp), c.stamp)
             /\ ToAudit(w, c)
    /\ UNCHANGED <<clock, arrived, tier, requests, decisions, audit, basis>>

(* repository.update reads the row again and rewrites all but its status.  *)
ReadCurrent(w) ==
    /\ pc[w] = "current"
    /\ Goto(w, "update",
            [call[w] EXCEPT !.merged = Merge(call[w].body, handles[call[w].target]),
                            !.stamp = clock])
    /\ UNCHANGED <<clock, arrived, dbVars>>

Update(w) ==
    /\ pc[w] = "update"
    /\ LET c   == call[w]
           row == Stored([c.merged EXCEPT !.status = handles[c.target].status], c.stamp)
       IN \/ /\ Taken(row.name, c.target)
             /\ Finish(w)
             /\ UNCHANGED <<handles, stamps, reused>>
          \/ /\ ~Taken(row.name, c.target)
             /\ Write(c.target, row, c.stamp)
             /\ Goto(w, "readback", c)
    /\ UNCHANGED <<clock, arrived, tier, requests, decisions, audit, basis>>

(* A status in the body is written by a second statement, if it differs.   *)
ReadBack(w) ==
    /\ pc[w] = "readback"
    /\ LET c == call[w] IN
          IF c.body.status \in {Keep, handles[c.target].status}
          THEN ToAudit(w, c)
          ELSE Goto(w, "status", [c EXCEPT !.stamp = clock])
    /\ UNCHANGED <<clock, arrived, dbVars>>

(* Mutant of WriteStatus: updated_at is left alone.                        *)
WriteStatusUnstamped(w) ==
    /\ pc[w] = "status"
    /\ LET c == call[w] IN
          /\ Write(c.target, [handles[c.target] EXCEPT !.status = c.body.status], c.stamp)
          /\ ToAudit(w, c)
    /\ UNCHANGED <<clock, arrived, tier, requests, decisions, audit, basis>>

WriteStatus(w) ==
    /\ pc[w] = "status"
    /\ LET c == call[w] IN
          /\ Write(c.target, [handles[c.target] EXCEPT !.status = c.body.status,
                                                       !.rev = c.stamp], c.stamp)
          /\ ToAudit(w, c)
    /\ UNCHANGED <<clock, arrived, tier, requests, decisions, audit, basis>>

(* PATCH of a creator rewrites the whole row from a read of its own, so a  *)
(* body without a tier writes back the tier that read returned.            *)
ReadCreator(w) ==
    /\ pc[w] = "creator"
    /\ Goto(w, "tier", [call[w] EXCEPT !.tier = Or(@, tier[call[w].target])])
    /\ UNCHANGED <<clock, arrived, dbVars>>

UpdateCreator(w) ==
    /\ pc[w] = "tier"
    /\ tier' = [tier EXCEPT ![call[w].target] = call[w].tier]
    /\ ToAudit(w, call[w])
    /\ UNCHANGED <<clock, arrived, handles, requests, decisions, audit, stamps, reused, basis>>

(* The routes append the audit entry of a direct write afterwards.         *)
AppendAudit(w) ==
    /\ pc[w] = "audit"
    /\ Log(IF call[w].op = "creator" THEN "creator" ELSE "handle",
           call[w].target, call[w].admin)
    /\ Finish(w)
    /\ UNCHANGED <<clock, arrived, tier, handles, requests, decisions, stamps, reused, basis>>

(***************************************************************************)
(* Decisions.  The checks made on the row that was read come first, the    *)
(* guards of the batch test the rows again when it commits.                *)
(***************************************************************************)
Open(q, at) == q.status = "pending" /\ q.expires > at

(* Mutant of PastDue: any request past its deadline expires.               *)
PastDueAnyStatus(q, at) == q.expires <= at

PastDue(q, at) == q.status \in {"pending", "approved"} /\ q.expires <= at

LoadRequest(w) ==
    /\ pc[w] = "load"
    /\ LET c  == call[w]
           q  == requests[c.target]
           ok == IF c.op = "expire"
                 THEN PastDue(q, c.at) /\ q.updated = c.stamp
                 ELSE c.admin \in SuperAdmins /\ q.by # c.admin /\ Open(q, c.at)
       IN \/ ok /\ Goto(w, "decide", c)
          \/ ~ok /\ Finish(w)
    /\ UNCHANGED <<clock, arrived, dbVars>>

(* Mutant of MayDecide: the batch trusts the status read before it.        *)
MayDecideUnguarded(c) ==
    /\ requests[c.target].by # c.admin
    /\ \A d \in decisions : ~(d.request = c.target /\ d.admin = c.admin)

(* The first guard of the batches that decide, with the uniqueness of      *)
(* decisions by (request, administrator).                                  *)
MayDecide(c) ==
    /\ Open(requests[c.target], c.at)
    /\ requests[c.target].by # c.admin
    /\ \A d \in decisions : ~(d.request = c.target /\ d.admin = c.admin)

(* Mutant of TargetUnchanged: the target need only exist.                  *)
TargetPresent(q) == q.action = "create" \/ handles[q.handle] # None

(* The second guard and the unique name: what the target write relies on.  *)
TargetUnchanged(q) ==
    q.action = "create" \/ (handles[q.handle] # None /\ handles[q.handle].rev = q.target)

(* Mutant of Applicable: a name taken in the meantime is not noticed.      *)
ApplicableAnyName(q) ==
    /\ TargetUnchanged(q)
    /\ q.action = "create" => handles[q.handle] = None

Applicable(q) ==
    /\ TargetUnchanged(q)
    /\ q.action = "create" => handles[q.handle] = None
    /\ ~Taken(q.payload.name, q.handle)

Resolve(r, status, count, at) ==
    requests' = [requests EXCEPT ![r].status = status, ![r].count = count,
                                 ![r].updated = at]

Record(r, a, verdict) ==
    decisions' = decisions \cup {[request |-> r, admin |-> a, verdict |-> verdict]}

Apply(w) ==
    /\ pc[w] = "decide" /\ call[w].op = "approve"
    /\ LET c == call[w]
           q == requests[c.target]
       IN \/ /\ MayDecide(c) /\ Applicable(q)
             /\ Record(c.target, c.admin, "approved")
             /\ Write(q.handle, Stored(q.payload, c.at), c.at)
             /\ Resolve(c.target, "applied", 1, c.at)
             /\ Log("applied", q.handle, c.admin)
          \/ /\ ~(MayDecide(c) /\ Applicable(q))
             /\ UNCHANGED <<decisions, handles, stamps, reused, requests, audit>>
    /\ Finish(w)
    /\ UNCHANGED <<clock, arrived, tier, basis>>

Reject(w) ==
    /\ pc[w] = "decide" /\ call[w].op = "reject"
    /\ LET c == call[w] IN
          \/ /\ MayDecide(c)
             /\ Record(c.target, c.admin, "rejected")
             /\ Resolve(c.target, "rejected", requests[c.target].count, c.at)
             /\ Log("rejected", c.target, c.admin)
          \/ /\ ~MayDecide(c)
             /\ UNCHANGED <<decisions, requests, audit>>
    /\ Finish(w)
    /\ UNCHANGED <<clock, arrived, tier, handles, stamps, reused, basis>>

Expire(w) ==
    /\ pc[w] = "decide" /\ call[w].op = "expire"
    /\ LET c  == call[w]
           q  == requests[c.target]
           ok == PastDue(q, c.at) /\ q.updated = c.stamp
       IN \/ /\ ok
             /\ Resolve(c.target, "expired", q.count, c.at)
             /\ Log("expired", c.target, c.admin)
          \/ ~ok /\ UNCHANGED <<requests, audit>>
    /\ Finish(w)
    /\ UNCHANGED <<clock, arrived, tier, handles, decisions, stamps, reused, basis>>

(***************************************************************************)
(* A statement or a batch can fail and the Worker can be stopped between   *)
(* two of them: the call ends with what it has written so far.             *)
(***************************************************************************)
Fail(w) ==
    /\ pc[w] # "idle"
    /\ Finish(w)
    /\ UNCHANGED <<clock, arrived, dbVars>>

Arrive(w) == ArriveCreate(w) \/ ArriveChange(w) \/ ArriveCreator(w) \/ ArriveDecision(w)

DirectWrite(w) == Insert(w) \/ Update(w) \/ WriteStatus(w)

Next ==
    \/ Tick
    \/ \E w \in Calls :
         \/ Arrive(w)
         \/ ReadHandle(w) \/ Judge(w) \/ FindExact(w) \/ RequestApproval(w)
         \/ ReadCurrent(w) \/ DirectWrite(w) \/ ReadBack(w)
         \/ ReadCreator(w) \/ UpdateCreator(w) \/ AppendAudit(w)
         \/ LoadRequest(w) \/ Apply(w) \/ Reject(w) \/ Expire(w)
         \/ Fail(w)

Spec == Init /\ [][Next]_vars
-----------------------------------------------------------------------------
(***************************************************************************)
(* Types.  A request to change a row names the revision it was raised      *)
(* against, a request to create one names none (create in                  *)
(* admin-approval-repository.ts and its callers).  A call that has found   *)
(* its row or its request can rely on it to stay, and has at each point    *)
(* the local variables that the next step reads.                           *)
(***************************************************************************)
StoreOK ==
    /\ tier \in [Creators -> TierValues]
    /\ handles \in [Handles -> Row \cup {None}]
    /\ requests \in [Requests -> Request \cup {None}]
    /\ \A r \in Requests : requests[r] # None =>
          (requests[r].action = "create" <=> requests[r].target = None)
    /\ decisions \subseteq Decision
    /\ audit \subseteq AuditEntry
    /\ stamps \in [Handles -> SUBSET Nat]
    /\ reused \subseteq Handles
    /\ basis \in [Requests -> Row \cup {None}]

(* The points that a call of each operation passes.                        *)
Passes(op, p) ==
    \/ op = "create" /\ p \in {"judge", "exact", "request", "insert", "audit"}
    \/ op = "patch"  /\ p \in {"read", "judge", "request", "current", "update",
                                "readback", "status", "audit"}
    \/ op = "status" /\ p \in {"read", "judge", "request", "status", "audit"}
    \/ op = "creator" /\ p \in {"creator", "tier", "audit"}
    \/ op \in {"approve", "reject", "expire"} /\ p \in {"load", "decide"}

CallOK(c, p) ==
    /\ c \in Call
    /\ Passes(c.op, p)
    /\ c.op \in {"create", "patch", "status"} => c.target \in Handles
    /\ c.op \in {"patch", "status"} /\ p # "read" => handles[c.target] # None
    /\ c.op \in {"patch", "status"} /\ p \notin {"read", "audit"} => c.seen # None
    /\ c.op \in {"patch", "status"} /\ p # "audit" => c.body \in Patch
    /\ c.op = "create" /\ p # "audit" => c.body \in Content /\ c.seen = None
    /\ c.op = "status" /\ p # "audit" => StatusOnly(c.body)
    /\ p = "update" => c.merged \in Content
    /\ p = "status" => c.body.status # Keep
    /\ c.op = "creator" => c.target \in Creators
    /\ p = "creator" => c.tier \in TierValues \cup {Keep}
    /\ p = "tier" => c.tier \in TierValues
    /\ c.op \in {"approve", "reject", "expire"} =>
          c.target \in Requests /\ requests[c.target] # None

CallsOK == \A w \in Calls : IF pc[w] = "idle" THEN call[w] = None
                                               ELSE CallOK(call[w], pc[w])

TypeOK ==
    /\ clock \in Nat /\ arrived \in Nat
    /\ pc \in [Calls -> Points] /\ call \in [Calls -> Call \cup {None}]
    /\ StoreOK
    /\ CallsOK

DecisionsOn(r) == {d \in decisions : d.request = r}

(* The one decision on r is somebody else's, and on the audit trail.       *)
Decided(r, verdict, action, entity) ==
    \E a \in Admins \ {requests[r].by} :
        /\ DecisionsOn(r) = {[request |-> r, admin |-> a, verdict |-> verdict]}
        /\ [action |-> action, entity |-> entity, admin |-> a] \in audit

MatchesStatus(r) ==
    IF requests[r] = None THEN DecisionsOn(r) = {}
    ELSE /\ requests[r].status # "approved"
         /\ requests[r].status \in {"pending", "expired"} => DecisionsOn(r) = {}
         /\ requests[r].status = "applied" =>
               Decided(r, "approved", "applied", requests[r].handle)
         /\ requests[r].status = "rejected" => Decided(r, "rejected", "rejected", r)
         /\ requests[r].count = 1 <=> requests[r].status = "applied"
         /\ [action |-> "requested", entity |-> r, admin |-> requests[r].by] \in audit

(***************************************************************************)
(* A request carries exactly the decision its status tells of: none while  *)
(* it is pending or when it expired, one by an administrator other than    *)
(* the requester when it was applied or rejected; and whoever raised it    *)
(* and whoever decided it is on the audit trail.  However many approvals,  *)
(* rejections and expiries race, it never holds two verdicts.              *)
(***************************************************************************)
DecisionsMatchStatus == \A r \in Requests : MatchesStatus(r)

(* The status, the requester and the deciders that the rows speak of.      *)
StateOf == [r \in Requests |-> IF requests[r] = None THEN "absent" ELSE requests[r].status]
RaisedBy == [r \in Requests |-> IF requests[r] = None THEN {} ELSE {requests[r].by}]
DecidedBy == [r \in Requests |-> {d.admin : d \in DecisionsOn(r)}]

Contract == INSTANCE FourEyes WITH
    state <- StateOf, raisedBy <- RaisedBy, decidedBy <- DecidedBy

(***************************************************************************)
(* The rows of requests and decisions implement the four-eyes contract:    *)
(* decided once, by somebody else, and no outcome is ever left.            *)
(***************************************************************************)
FourEyesContract == Contract!FESpec

(* A row read earlier is the present one if the revision is still the same.*)
Snapshot(row, h) ==
    /\ row.rev \in stamps[h]
    /\ h \in reused \/ handles[h] = row \/ handles[h].rev # row.rev

RowStamped(h) == handles[h] # None => handles[h].rev \in stamps[h]

CallFresh(w) ==
    pc[w] \in {"judge", "request"} /\ call[w].op # "create" =>
        Snapshot(call[w].seen, call[w].target)

RequestFresh(r) ==
    LET q == requests[r] IN
    q # None /\ q.action = "update" =>
        /\ handles[q.handle] # None
        /\ basis[r] # None /\ basis[r].rev = q.target
        /\ Snapshot(basis[r], q.handle)
        /\ q.status = "applied" =>
              q.handle \in reused \/ handles[q.handle].rev # q.target

(***************************************************************************)
(* What the optimistic concurrency of the requests rests on: a row that    *)
(* still has the revision of an earlier read is the row that was read, be  *)
(* the read that of a call under way or that a request was raised from;    *)
(* and the row of an applied change has left the revision of its request.  *)
(* Except for rows that were stamped twice in the same millisecond.        *)
(***************************************************************************)
RevisionsIdentifyRows ==
    /\ \A h \in Handles : RowStamped(h)
    /\ \A w \in Calls : CallFresh(w)
    /\ \A r \in Requests : RequestFresh(r)

BecomesApplied(r) ==
    /\ requests[r] # None /\ requests[r].status # "applied"
    /\ requests'[r].status = "applied"

AppliesFresh ==
    \A r \in Requests :
        BecomesApplied(r) /\ requests[r].action = "update" =>
            handles[requests[r].handle] = basis[r] \/ requests[r].handle \in reused

(***************************************************************************)
(* An approved change is applied to exactly the row its requester saw,     *)
(* whatever other calls wrote in between, unless that row was given one    *)
(* revision twice (two writes of it stamped in the same millisecond).      *)
(***************************************************************************)
AppliedFresh == [][AppliesFresh]_vars

(***************************************************************************)
(* Of all the requests raised against one revision of a handle at most one *)
(* is ever applied, with the same exception.                               *)
(***************************************************************************)
OneWinnerPerRevision ==
    \A r, s \in Requests :
        /\ r # s
        /\ requests[r] # None /\ requests[s] # None
        /\ requests[r].status = "applied" /\ requests[s].status = "applied"
        /\ requests[r].action = "update" /\ requests[s].action = "update"
        /\ requests[r].handle = requests[s].handle
        /\ requests[r].target = requests[s].target
        => requests[r].handle \in reused

Protected(row) ==
    row # None /\ row.class = "hard_reserved" /\ tier[row.creator] = "critical"

ChangesUnapproved(h) ==
    /\ handles'[h] # handles[h]
    /\ Protected(handles[h]) \/ Protected(handles'[h])
    /\ \A r \in Requests : ~(BecomesApplied(r) /\ requests[r].handle = h)

(* What call w, about to write, decided on is no longer so: the tier of    *)
(* the owner, the row itself, or, for the second write of a PATCH, what    *)
(* its first write should have left.                                       *)
Overtaken(w) ==
    LET c    == call[w]
        row  == handles[c.target]
        goal == Proposal(c)
    IN  \/ c.tier # tier[goal.creator]
        \/ IF c.op = "patch" /\ pc[w] = "status"
           THEN [row EXCEPT !.status = goal.status] # Stored(goal, row.rev)
           ELSE row # c.seen
        \/ pc[w] = "update" /\ c.merged # goal

HandsOver(c) == c.seen # None /\ c.body.creator \notin {Keep, c.seen.creator}

ChangeExplained ==
    \A h \in Handles : ChangesUnapproved(h) =>
        \E w \in Calls :
            /\ pc[w] \in {"insert", "update", "status"} /\ pc'[w] # pc[w]
            /\ call[w].target = h
            /\ Overtaken(w) \/ HandsOver(call[w])

(***************************************************************************)
(* A hard-reserved handle of a critical creator comes about and changes    *)
(* without an approval in two cases only: a PATCH hands the row to another *)
(* creator, or the row or the tier is no longer what the writing call read *)
(* when it chose to write directly.  So no route bypasses the approval     *)
(* when calls do not overlap and the owner stays.                          *)
(***************************************************************************)
UnapprovedChangeExplained == [][ChangeExplained]_vars

(***************************************************************************)
(* What APPROVAL_WORKFLOW.md says without that exception: a critical       *)
(* hard-reserved handle is created, updated, suspended, released or        *)
(* restored with a second administrator only.                              *)
(***************************************************************************)
CriticalChangesApproved == [][\A h \in Handles : ~ChangesUnapproved(h)]_vars

(***************************************************************************)
(* A normalised name belongs to one row, though the routes check it long   *)
(* before they write: against pending creations of the same name, inserts  *)
(* and renames that race.                                                  *)
(***************************************************************************)
NameHasOneRow ==
    \A h \in Handles : handles[h] # None => ~Taken(handles[h].name, h)
=============================================================================

---------------------- MODULE ApprovalWorkflow_proofs ----------------------
(***************************************************************************)
(* What ApprovalWorkflow guarantees for any number of administrators,      *)
(* handles, requests and calls.                                            *)
(***************************************************************************)
EXTENDS ApprovalWorkflow, TLAPS

(* No step removes a handle row or a request.                              *)
RowsStay == \A h \in Handles : handles[h] # None => handles'[h] # None
RequestsStay == \A r \in Requests : requests[r] # None => requests'[r] # None

(***************************************************************************)
(* A step that moves one call leaves every call well-formed.               *)
(***************************************************************************)
LEMMA MoveCall ==
    ASSUME CallsOK, pc \in [Calls -> Points], call \in [Calls -> Call \cup {None}],
           NEW w \in Calls, NEW p \in Points, NEW c,
           Goto(w, p, c), RowsStay, RequestsStay,
           IF p = "idle" THEN c = None ELSE CallOK(c, p)
    PROVE  /\ pc' \in [Calls -> Points] /\ call' \in [Calls -> Call \cup {None}]
           /\ CallsOK'
<1>1. c \in Call \cup {None}
  BY DEF CallOK
<1>2. pc' \in [Calls -> Points] /\ call' \in [Calls -> Call \cup {None}]
  BY <1>1 DEF Goto
<1>3. ASSUME NEW v \in Calls
      PROVE  IF pc'[v] = "idle" THEN call'[v] = None ELSE CallOK(call[v], pc[v])'
  <2>1. CASE v = w
    BY <2>1 DEF Goto, CallOK, RowsStay, RequestsStay
  <2>2. CASE v # w
    BY <2>2 DEF Goto, CallsOK, CallOK, RowsStay, RequestsStay
  <2>. QED  BY <2>1, <2>2
<1>. QED  BY <1>2, <1>3 DEF CallsOK

(***************************************************************************)
(* A call ends.                                                            *)
(***************************************************************************)
LEMMA EndCall ==
    ASSUME CallsOK, pc \in [Calls -> Points], call \in [Calls -> Call \cup {None}],
           NEW w \in Calls, Finish(w), RowsStay, RequestsStay
    PROVE  /\ pc' \in [Calls -> Points] /\ call' \in [Calls -> Call \cup {None}]
           /\ CallsOK'
  BY MoveCall DEF Finish, Points

(***************************************************************************)
(* Initially nothing is under way, and the start rows are rows.            *)
(***************************************************************************)
LEMMA TypeInit == Init => TypeOK
<1>. SUFFICES ASSUME Init PROVE TypeOK
  OBVIOUS
<1>1. StoreOK
  BY ConstantsOK DEF Init, StoreOK
<1>2. CallsOK /\ pc \in [Calls -> Points] /\ call \in [Calls -> Call \cup {None}]
  BY DEF Init, CallsOK, Points
<1>. QED  BY <1>1, <1>2 DEF Init, TypeOK

(***************************************************************************)
(* A step that moves one call and leaves the tables alone.                 *)
(***************************************************************************)
LEMMA TypeMove ==
    ASSUME TypeOK, NEW w \in Calls, NEW p \in Points, NEW c,
           Goto(w, p, c), UNCHANGED <<clock, dbVars>>, arrived' \in Nat,
           IF p = "idle" THEN c = None ELSE CallOK(c, p)
    PROVE  TypeOK'
<1>1. RowsStay /\ RequestsStay /\ StoreOK'
  BY DEF TypeOK, StoreOK, dbVars, RowsStay, RequestsStay
<1>. QED  BY <1>1, MoveCall DEF TypeOK, dbVars

LEMMA TypeEnd ==
    ASSUME TypeOK, NEW w \in Calls, Finish(w), UNCHANGED <<clock, dbVars>>, arrived' \in Nat
    PROVE  TypeOK'
  BY TypeMove DEF Finish, Points

(***************************************************************************)
(* What a call asks for is the content of a row.                           *)
(***************************************************************************)
LEMMA MergeType ==
    ASSUME NEW b \in Patch, NEW row, row \in Row \/ row \in Content
    PROVE  Merge(b, row) \in Content
  BY DEF Merge, Or, Patch, Row, Content

LEMMA ContentIsPatch == Content \subseteq Patch
  BY DEF Content, Patch

LEMMA StoredType ==
    ASSUME NEW content \in Content, NEW rev \in Nat
    PROVE  Stored(content, rev) \in Row
  BY DEF Stored, Row, Content

LEMMA ProposalType ==
    ASSUME NEW c, NEW p, CallOK(c, p), c.op \in {"create", "patch", "status"},
           p \in {"judge", "exact", "request"}
    PROVE  Proposal(c) \in Content
<1>1. CASE c.op = "create"
  BY <1>1 DEF CallOK, Proposal
<1>2. CASE c.op # "create"
  BY <1>2, MergeType DEF CallOK, Proposal, Call, Passes
<1>. QED  BY <1>1, <1>2

LEMMA ArriveType ==
    ASSUME TypeOK, NEW w \in Calls, Arrive(w)
    PROVE  TypeOK'
<1>1. CASE ArriveCreate(w)
  <2>1. PICK a \in Admins, h \in Handles, b \in NewRows :
           Goto(w, "judge", NewCall(w, "create", a, h, b, None, clock))
    BY <1>1 DEF ArriveCreate
  <2>2. CallOK(NewCall(w, "create", a, h, b, None, clock), "judge")
    BY <2>1, ConstantsOK, ContentIsPatch
       DEF CallOK, NewCall, Call, Passes, Operations, TypeOK
  <2>. QED  BY <1>1, <2>1, <2>2, TypeMove DEF ArriveCreate, Accept, TypeOK, Points
<1>2. CASE ArriveChange(w)
  <2>1. PICK op \in {"patch", "status"}, a \in Admins, h \in Handles, b \in Patches :
           /\ op = "status" => StatusOnly(b)
           /\ Goto(w, "read", NewCall(w, op, a, h, b, None, clock))
    BY <1>2 DEF ArriveChange
  <2>2. CallOK(NewCall(w, op, a, h, b, None, clock), "read")
    BY <2>1, ConstantsOK DEF CallOK, NewCall, Call, Passes, Operations, TypeOK
  <2>. QED  BY <1>2, <2>1, <2>2, TypeMove DEF ArriveChange, Accept, TypeOK, Points
<1>3. CASE ArriveCreator(w)
  <2>1. PICK a \in Admins, c \in Creators, t \in Tiers :
           Goto(w, "creator", NewCall(w, "creator", a, c, None, t, clock))
    BY <1>3 DEF ArriveCreator
  <2>2. CallOK(NewCall(w, "creator", a, c, None, t, clock), "creator")
    BY <2>1, ConstantsOK DEF CallOK, NewCall, Call, Passes, Operations, TypeOK
  <2>. QED  BY <1>3, <2>1, <2>2, TypeMove DEF ArriveCreator, Accept, TypeOK, Points
<1>4. CASE ArriveDecision(w)
  <2>1. PICK op \in {"approve", "reject", "expire"}, a \in Admins, r \in Requests :
           /\ requests[r] # None
           /\ Goto(w, "load", NewCall(w, op, a, r, None, None, requests[r].updated))
    BY <1>4 DEF ArriveDecision
  <2>2. requests[r].updated \in Nat
    BY <2>1 DEF TypeOK, StoreOK, Request
  <2>3. CallOK(NewCall(w, op, a, r, None, None, requests[r].updated), "load")
    BY <2>1, <2>2 DEF CallOK, NewCall, Call, Passes, Operations, TypeOK
  <2>. QED  BY <1>4, <2>1, <2>3, TypeMove DEF ArriveDecision, Accept, TypeOK, Points
<1>. QED  BY <1>1, <1>2, <1>3, <1>4 DEF Arrive

(***************************************************************************)
(* The choice between a direct write and a request.                        *)
(***************************************************************************)
LEMMA ChooseType ==
    ASSUME TypeOK, NEW w \in Calls, NEW c, NEW p \in {"judge", "exact"}, CallOK(c, p),
           c.op \in {"create", "patch", "status"},
           Choose(w, c), UNCHANGED <<clock, arrived, dbVars>>
    PROVE  TypeOK'
<1>1. CASE IsCritical(c) /\ Goto(w, "request", c)
  <2>1. CallOK(c, "request")
    BY DEF CallOK, Passes
  <2>. QED  BY <1>1, <2>1, TypeMove DEF TypeOK, Points
<1>2. CASE Finish(w)
  BY <1>2, TypeEnd DEF TypeOK
<1>3. CASE Goto(w, DirectPoint(c.op), [c EXCEPT !.stamp = clock])
  <2>1. CallOK([c EXCEPT !.stamp = clock], DirectPoint(c.op))
    <3>1. [c EXCEPT !.stamp = clock] \in Call
      BY DEF CallOK, Call, TypeOK
    <3>2. c.op = "status" => c.body.status # Keep
      BY ConstantsOK DEF CallOK, StatusOnly, Passes, Statuses
    <3>. QED  BY <3>1, <3>2 DEF CallOK, Passes, DirectPoint, Call
  <2>2. DirectPoint(c.op) \in Points \ {"idle"}
    BY DEF DirectPoint, Points
  <2>. QED  BY <1>3, <2>1, <2>2, TypeMove DEF TypeOK
<1>. QED  BY <1>1, <1>2, <1>3 DEF Choose

LEMMA ReadHandleType ==
    ASSUME TypeOK, NEW w \in Calls, ReadHandle(w)
    PROVE  TypeOK'
<1>. DEFINE c == call[w]
            row == handles[c.target]
<1>1. CallOK(c, "read") /\ c.op \in {"patch", "status"}
  BY DEF TypeOK, CallsOK, ReadHandle, CallOK, Passes
<1>2. CASE Finish(w)
  BY <1>2, TypeEnd DEF ReadHandle, TypeOK
<1>3. CASE row # None /\ Goto(w, "judge", [c EXCEPT !.seen = row])
  <2>1. row \in Row
    BY <1>1, <1>3 DEF CallOK, TypeOK, StoreOK
  <2>2. CallOK([c EXCEPT !.seen = row], "judge")
    BY <1>1, <1>3, <2>1, ConstantsOK DEF CallOK, Passes, Call
  <2>. QED  BY <1>3, <2>2, TypeMove DEF ReadHandle, TypeOK, Points
<1>. QED  BY <1>2, <1>3 DEF ReadHandle

LEMMA JudgeType ==
    ASSUME TypeOK, NEW w \in Calls, Judge(w)
    PROVE  TypeOK'
<1>. DEFINE c == [call[w] EXCEPT !.tier = tier[Proposal(call[w]).creator]]
<1>1. CallOK(call[w], "judge") /\ call[w].op \in {"create", "patch", "status"}
  BY DEF TypeOK, CallsOK, Judge, CallOK, Passes
<1>2. Proposal(call[w]).creator \in Creators
  BY <1>1, ProposalType DEF Content
<1>3. CallOK(c, "judge") /\ c.op = call[w].op
  BY <1>1, <1>2 DEF CallOK, Passes, Call, TypeOK, StoreOK
<1>4. CASE c.op = "create" /\ Goto(w, "exact", c)
  <2>1. CallOK(c, "exact")
    BY <1>3, <1>4 DEF CallOK, Passes
  <2>. QED  BY <1>4, <2>1, TypeMove DEF Judge, TypeOK, Points
<1>5. CASE Choose(w, c)
  BY <1>1, <1>3, <1>5, ChooseType DEF Judge
<1>. QED  BY <1>4, <1>5 DEF Judge

LEMMA FindExactType ==
    ASSUME TypeOK, NEW w \in Calls, FindExact(w)
    PROVE  TypeOK'
<1>1. CallOK(call[w], "exact") /\ call[w].op \in {"create", "patch", "status"}
  BY DEF TypeOK, CallsOK, FindExact, CallOK, Passes
<1>2. CASE Finish(w)
  BY <1>2, TypeEnd DEF FindExact, TypeOK
<1>3. CASE Choose(w, call[w])
  BY <1>1, <1>3, ChooseType DEF FindExact
<1>. QED  BY <1>2, <1>3 DEF FindExact

(***************************************************************************)
(* A new request names a revision exactly when it changes a row.           *)
(***************************************************************************)
LEMMA NewRequestType ==
    ASSUME NEW c, CallOK(c, "request")
    PROVE  /\ NewRequest(c) \in Request
           /\ NewRequest(c).action = "create" <=> NewRequest(c).target = None
           /\ c.op = "create" <=> NewRequest(c).action = "create"
<1>1. c \in Call /\ c.op \in {"create", "patch", "status"}
  BY DEF CallOK, Passes
<1>2. Proposal(c) \in Content
  BY <1>1, ProposalType
<1>3. c.op # "create" => c.seen.rev \in Nat
  BY <1>1 DEF CallOK, Call, Row
<1>4. c.at + Lifetime \in Nat /\ c.target \in Handles
  BY <1>1, ConstantsOK DEF CallOK, Call
<1>. QED  BY <1>1, <1>2, <1>3, <1>4, ConstantsOK
          DEF NewRequest, Request, ActionTypes, RequestStatuses, Call

LEMMA RequestApprovalType ==
    ASSUME TypeOK, NEW w \in Calls, RequestApproval(w)
    PROVE  TypeOK'
<1>1. CallOK(call[w], "request")
  BY DEF TypeOK, CallsOK, RequestApproval
<1>2. PICK r \in Requests :
         /\ requests[r] = None
         /\ requests' = [requests EXCEPT ![r] = NewRequest(call[w])]
         /\ basis' = [basis EXCEPT ![r] = call[w].seen]
         /\ Log("requested", r, call[w].admin)
  BY DEF RequestApproval
<1>3. call[w].seen \in Row \cup {None} /\ call[w].admin \in Admins
  BY <1>1 DEF CallOK, Call
<1>4. StoreOK'
  BY <1>1, <1>2, <1>3, NewRequestType DEF RequestApproval, TypeOK, StoreOK, Log, AuditEntry
<1>5. RowsStay /\ RequestsStay
  BY <1>1, <1>2, NewRequestType, ConstantsOK
     DEF RequestApproval, RowsStay, RequestsStay, TypeOK, StoreOK
<1>. QED  BY <1>4, <1>5, EndCall DEF RequestApproval, TypeOK

(***************************************************************************)
(* A write keeps the tables well-typed and every row in place.             *)
(***************************************************************************)
LEMMA WriteType ==
    ASSUME StoreOK, NEW h \in Handles, NEW row \in Row, NEW at \in Nat, Write(h, row, at)
    PROVE  /\ handles' \in [Handles -> Row \cup {None}]
           /\ stamps' \in [Handles -> SUBSET Nat]
           /\ reused' \subseteq Handles
           /\ RowsStay
  BY ConstantsOK DEF Write, StoreOK, RowsStay

(* The audit entry of a direct write is all that is left to do.            *)
LEMMA ToAuditOK ==
    ASSUME TypeOK, NEW c, NEW p, CallOK(c, p),
           p \in {"insert", "readback", "status", "tier"}
    PROVE  CallOK([c EXCEPT !.at = 0, !.body = None, !.seen = None,
                            !.tier = None, !.merged = None, !.stamp = 0], "audit")
  BY DEF CallOK, Passes, Call

LEMMA InsertType ==
    ASSUME TypeOK, NEW w \in Calls, Insert(w)
    PROVE  TypeOK'
<1>. DEFINE c == call[w]
<1>1. CallOK(c, "insert") /\ c.op = "create"
  BY DEF TypeOK, CallsOK, Insert, CallOK, Passes
<1>2. CASE Finish(w) /\ UNCHANGED <<handles, stamps, reused>>
  BY <1>2, TypeEnd DEF Insert, TypeOK, dbVars
<1>3. CASE Write(c.target, Stored(c.body, c.stamp), c.stamp) /\ ToAudit(w, c)
  <2>1. c.target \in Handles /\ c.stamp \in Nat /\ Stored(c.body, c.stamp) \in Row
    BY <1>1, StoredType DEF CallOK, Call
  <2>2. StoreOK' /\ RowsStay /\ RequestsStay
    BY <1>3, <2>1, WriteType DEF Insert, TypeOK, StoreOK, RequestsStay
  <2>. QED  BY <1>1, <1>3, <2>2, ToAuditOK, MoveCall DEF Insert, TypeOK, ToAudit, Points
<1>. QED  BY <1>2, <1>3 DEF Insert

LEMMA ReadCurrentType ==
    ASSUME TypeOK, NEW w \in Calls, ReadCurrent(w)
    PROVE  TypeOK'
<1>. DEFINE c == call[w]
            m == Merge(c.body, handles[c.target])
            d == [c EXCEPT !.merged = m, !.stamp = clock]
<1>1. CallOK(c, "current") /\ c.op = "patch"
  BY DEF TypeOK, CallsOK, ReadCurrent, CallOK, Passes
<1>2. m \in Content
  <2>1. c.body \in Patch /\ handles[c.target] \in Row
    BY <1>1 DEF CallOK, TypeOK, StoreOK
  <2>. QED  BY <2>1, MergeType
<1>3. CallOK(d, "update")
  BY <1>1, <1>2 DEF CallOK, Passes, Call, TypeOK
<1>4. Goto(w, "update", d)
  BY DEF ReadCurrent
<1>. QED  BY <1>3, <1>4, TypeMove DEF ReadCurrent, TypeOK, Points

LEMMA UpdateType ==
    ASSUME TypeOK, NEW w \in Calls, Update(w)
    PROVE  TypeOK'
<1>. DEFINE c   == call[w]
            row == Stored([c.merged EXCEPT !.status = handles[c.target].status], c.stamp)
<1>1. CallOK(c, "update") /\ c.op = "patch"
  BY DEF TypeOK, CallsOK, Update, CallOK, Passes
<1>2. c.target \in Handles /\ c.stamp \in Nat /\ row \in Row
  <2>1. c.merged \in Content /\ handles[c.target] \in Row
    BY <1>1 DEF CallOK, TypeOK, StoreOK
  <2>2. [c.merged EXCEPT !.status = handles[c.target].status] \in Content
    BY <2>1 DEF Content, Row
  <2>. QED  BY <1>1, <2>2, StoredType DEF CallOK, Call
<1>3. CASE Finish(w) /\ UNCHANGED <<handles, stamps, reused>>
  BY <1>3, TypeEnd DEF Update, TypeOK, dbVars
<1>4. CASE Write(c.target, row, c.stamp) /\ Goto(w, "readback", c)
  <2>1. CallOK(c, "readback")
    BY <1>1, <1>2 DEF CallOK, Passes, Call
  <2>2. StoreOK' /\ RowsStay /\ RequestsStay
    BY <1>2, <1>4, WriteType DEF Update, TypeOK, StoreOK, RequestsStay
  <2>. QED  BY <1>4, <2>1, <2>2, MoveCall DEF Update, TypeOK, Points
<1>. QED  BY <1>3, <1>4 DEF Update

LEMMA ReadBackType ==
    ASSUME TypeOK, NEW w \in Calls, ReadBack(w)
    PROVE  TypeOK'
<1>. DEFINE c == call[w]
<1>1. CallOK(c, "readback") /\ c.op = "patch"
  BY DEF TypeOK, CallsOK, ReadBack, CallOK, Passes
<1>2. CASE ToAudit(w, c)
  BY <1>1, <1>2, ToAuditOK, TypeMove DEF ReadBack, ToAudit, TypeOK, Points
<1>3. CASE c.body.status # Keep /\ Goto(w, "status", [c EXCEPT !.stamp = clock])
  <2>1. CallOK([c EXCEPT !.stamp = clock], "status")
    BY <1>1, <1>3 DEF CallOK, Passes, Call, TypeOK
  <2>. QED  BY <1>3, <2>1, TypeMove DEF ReadBack, TypeOK, Points
<1>. QED  BY <1>2, <1>3 DEF ReadBack

LEMMA WriteStatusType ==
    ASSUME TypeOK, NEW w \in Calls, WriteStatus(w)
    PROVE  TypeOK'
<1>. DEFINE c   == call[w]
            row == [handles[c.target] EXCEPT !.status = c.body.status, !.rev = c.stamp]
<1>1. CallOK(c, "status") /\ c.op \in {"patch", "status"}
  BY DEF TypeOK, CallsOK, WriteStatus, CallOK, Passes
<1>2. c.target \in Handles /\ c.stamp \in Nat /\ row \in Row
  <2>1. c.body.status \in Statuses /\ handles[c.target] \in Row
    BY <1>1 DEF CallOK, TypeOK, StoreOK, Patch
  <2>. QED  BY <1>1, <2>1 DEF CallOK, Call, Row
<1>3. Write(c.target, row, c.stamp) /\ ToAudit(w, c)
  BY DEF WriteStatus
<1>4. StoreOK' /\ RowsStay /\ RequestsStay
  BY <1>2, <1>3, WriteType DEF WriteStatus, TypeOK, StoreOK, RequestsStay
<1>. QED  BY <1>1, <1>3, <1>4, ToAuditOK, MoveCall DEF WriteStatus, TypeOK, ToAudit, Points

LEMMA ReadCreatorType ==
    ASSUME TypeOK, NEW w \in Calls, ReadCreator(w)
    PROVE  TypeOK'
<1>. DEFINE c == call[w]
            d == [c EXCEPT !.tier = Or(@, tier[c.target])]
<1>1. CallOK(c, "creator") /\ c.op = "creator"
  BY DEF TypeOK, CallsOK, ReadCreator, CallOK, Passes
<1>2. CallOK(d, "tier")
  BY <1>1 DEF CallOK, Passes, Call, Or, TypeOK, StoreOK
<1>3. Goto(w, "tier", d)
  BY DEF ReadCreator
<1>. QED  BY <1>2, <1>3, TypeMove DEF ReadCreator, TypeOK, Points

LEMMA UpdateCreatorType ==
    ASSUME TypeOK, NEW w \in Calls, UpdateCreator(w)
    PROVE  TypeOK'
<1>1. CallOK(call[w], "tier") /\ call[w].tier \in TierValues /\ call[w].target \in Creators
  BY DEF TypeOK, CallsOK, UpdateCreator, CallOK, Passes
<1>2. StoreOK' /\ RowsStay /\ RequestsStay
  BY <1>1 DEF UpdateCreator, TypeOK, StoreOK, RowsStay, RequestsStay
<1>. QED  BY <1>1, <1>2, ToAuditOK, MoveCall DEF UpdateCreator, TypeOK, ToAudit, Points

LEMMA AppendAuditType ==
    ASSUME TypeOK, NEW w \in Calls, AppendAudit(w)
    PROVE  TypeOK'
<1>1. CallOK(call[w], "audit")
  BY DEF TypeOK, CallsOK, AppendAudit
<1>2. StoreOK' /\ RowsStay /\ RequestsStay
  BY <1>1 DEF AppendAudit, Log, AuditEntry, CallOK, Call, TypeOK, StoreOK, RowsStay, RequestsStay
<1>. QED  BY <1>2, EndCall DEF AppendAudit, TypeOK

LEMMA LoadRequestType ==
    ASSUME TypeOK, NEW w \in Calls, LoadRequest(w)
    PROVE  TypeOK'
<1>1. CallOK(call[w], "load")
  BY DEF TypeOK, CallsOK, LoadRequest
<1>2. CASE Goto(w, "decide", call[w])
  <2>1. CallOK(call[w], "decide")
    BY <1>1 DEF CallOK, Passes
  <2>. QED  BY <1>2, <2>1, TypeMove DEF LoadRequest, TypeOK, Points
<1>3. CASE Finish(w)
  BY <1>3, TypeEnd DEF LoadRequest, TypeOK
<1>. QED  BY <1>2, <1>3 DEF LoadRequest

(* A call that decides has a request to decide on.                         *)
LEMMA DecideCall ==
    ASSUME TypeOK, NEW w \in Calls, pc[w] = "decide"
    PROVE  /\ call[w].target \in Requests /\ call[w].admin \in Admins /\ call[w].at \in Nat
           /\ requests[call[w].target] \in Request
  BY DEF TypeOK, CallsOK, CallOK, Passes, Call, StoreOK

(* Resolving a request leaves it a request, and its kind as it was.        *)
LEMMA ResolveType ==
    ASSUME StoreOK, NEW r \in Requests, requests[r] \in Request,
           NEW status \in RequestStatuses, NEW count \in {0, 1}, NEW at \in Nat,
           Resolve(r, status, count, at)
    PROVE  /\ requests' \in [Requests -> Request \cup {None}]
           /\ \A s \in Requests : requests'[s] # None =>
                 (requests'[s].action = "create" <=> requests'[s].target = None)
           /\ RequestsStay
<1>1. /\ requests'[r] \in Request /\ requests'[r] # None
      /\ requests'[r].action = requests[r].action /\ requests'[r].target = requests[r].target
  <2>1. requests'[r] = [requests[r] EXCEPT !.status = status, !.count = count, !.updated = at]
    BY DEF StoreOK, Resolve
  <2>2. requests'[r] \in Request
    BY <2>1 DEF Request
  <2>3. requests'[r] # None
    BY <2>2, ConstantsOK
  <2>. QED  BY <2>1, <2>2, <2>3 DEF Request
<1>2. \A s \in Requests \ {r} : requests'[s] = requests[s]
  BY DEF StoreOK, Resolve
<1>3. requests' \in [Requests -> Request \cup {None}]
  BY <1>1 DEF StoreOK, Resolve
<1>. QED  BY <1>1, <1>2, <1>3, ConstantsOK DEF StoreOK, RequestsStay

LEMMA ApplyType ==
    ASSUME TypeOK, NEW w \in Calls, Apply(w)
    PROVE  TypeOK'
<1>. DEFINE c == call[w]
            q == requests[c.target]
<1>1. c.target \in Requests /\ c.admin \in Admins /\ c.at \in Nat /\ q \in Request
  BY DecideCall DEF Apply
<1>2. CASE UNCHANGED <<decisions, handles, stamps, reused, requests, audit>>
  BY <1>2, TypeEnd DEF Apply, TypeOK, dbVars
<1>3. CASE /\ Record(c.target, c.admin, "approved")
           /\ Write(q.handle, Stored(q.payload, c.at), c.at)
           /\ Resolve(c.target, "applied", 1, c.at)
           /\ Log("applied", q.handle, c.admin)
  <2>1. q.handle \in Handles /\ Stored(q.payload, c.at) \in Row
    BY <1>1, StoredType DEF Request
  <2>2. /\ handles' \in [Handles -> Row \cup {None}] /\ stamps' \in [Handles -> SUBSET Nat]
        /\ reused' \subseteq Handles /\ RowsStay
    BY <1>1, <1>3, <2>1, WriteType DEF TypeOK
  <2>3. /\ requests' \in [Requests -> Request \cup {None}] /\ RequestsStay
        /\ \A s \in Requests : requests'[s] # None =>
              (requests'[s].action = "create" <=> requests'[s].target = None)
    BY <1>1, <1>3, ResolveType DEF TypeOK, RequestStatuses
  <2>4. decisions' \subseteq Decision /\ audit' \subseteq AuditEntry
    BY <1>1, <1>3, <2>1 DEF Record, Log, Decision, AuditEntry, TypeOK, StoreOK
  <2>5. StoreOK'
    BY <2>2, <2>3, <2>4 DEF Apply, TypeOK, StoreOK
  <2>. QED  BY <2>2, <2>3, <2>5, EndCall DEF Apply, TypeOK
<1>. QED  BY <1>2, <1>3 DEF Apply

LEMMA RejectType ==
    ASSUME TypeOK, NEW w \in Calls, Reject(w)
    PROVE  TypeOK'
<1>. DEFINE c == call[w]
            q == requests[c.target]
<1>1. c.target \in Requests /\ c.admin \in Admins /\ c.at \in Nat /\ q \in Request
  BY DecideCall DEF Reject
<1>2. CASE UNCHANGED <<decisions, requests, audit>>
  BY <1>2, TypeEnd DEF Reject, TypeOK, dbVars
<1>3. CASE /\ Record(c.target, c.admin, "rejected")
           /\ Resolve(c.target, "rejected", q.count, c.at)
           /\ Log("rejected", c.target, c.admin)
  <2>1. q.count \in {0, 1}
    BY <1>1 DEF Request
  <2>2. /\ requests' \in [Requests -> Request \cup {None}] /\ RequestsStay
        /\ \A s \in Requests : requests'[s] # None =>
              (requests'[s].action = "create" <=> requests'[s].target = None)
    BY <1>1, <1>3, <2>1, ResolveType DEF TypeOK, RequestStatuses
  <2>3. decisions' \subseteq Decision /\ audit' \subseteq AuditEntry
    BY <1>1, <1>3 DEF Record, Log, Decision, AuditEntry, TypeOK, StoreOK
  <2>4. StoreOK' /\ RowsStay
    BY <2>2, <2>3 DEF Reject, TypeOK, StoreOK, RowsStay
  <2>. QED  BY <2>2, <2>4, EndCall DEF Reject, TypeOK
<1>. QED  BY <1>2, <1>3 DEF Reject

LEMMA ExpireType ==
    ASSUME TypeOK, NEW w \in Calls, Expire(w)
    PROVE  TypeOK'
<1>. DEFINE c == call[w]
            q == requests[c.target]
<1>1. c.target \in Requests /\ c.admin \in Admins /\ c.at \in Nat /\ q \in Request
  BY DecideCall DEF Expire
<1>2. CASE UNCHANGED <<requests, audit>>
  BY <1>2, TypeEnd DEF Expire, TypeOK, dbVars
<1>3. CASE Resolve(c.target, "expired", q.count, c.at) /\ Log("expired", c.target, c.admin)
  <2>1. q.count \in {0, 1}
    BY <1>1 DEF Request
  <2>2. /\ requests' \in [Requests -> Request \cup {None}] /\ RequestsStay
        /\ \A s \in Requests : requests'[s] # None =>
              (requests'[s].action = "create" <=> requests'[s].target = None)
    BY <1>1, <1>3, <2>1, ResolveType DEF TypeOK, RequestStatuses
  <2>3. audit' \subseteq AuditEntry
    BY <1>1, <1>3 DEF Log, AuditEntry, TypeOK, StoreOK
  <2>4. StoreOK' /\ RowsStay
    BY <2>2, <2>3 DEF Expire, TypeOK, StoreOK, RowsStay
  <2>. QED  BY <2>2, <2>4, EndCall DEF Expire, TypeOK
<1>. QED  BY <1>2, <1>3 DEF Expire

LEMMA TypeNext == TypeOK /\ [Next]_vars => TypeOK'
<1>. SUFFICES ASSUME TypeOK, [Next]_vars PROVE TypeOK'
  OBVIOUS
<1>1. CASE Tick
  BY <1>1, ConstantsOK DEF Tick, TypeOK, StoreOK, CallsOK, CallOK, dbVars
<1>2. CASE UNCHANGED vars
  BY <1>2 DEF vars, TypeOK, StoreOK, CallsOK, CallOK, dbVars
<1>3. ASSUME NEW w \in Calls, DirectWrite(w) PROVE TypeOK'
  BY <1>3, InsertType, UpdateType, WriteStatusType DEF DirectWrite
<1>4. ASSUME NEW w \in Calls, Fail(w) PROVE TypeOK'
  BY <1>4, TypeEnd DEF Fail, TypeOK
<1>. QED
  BY <1>1, <1>2, <1>3, <1>4, ArriveType, ReadHandleType, JudgeType, FindExactType,
     RequestApprovalType, ReadCurrentType, ReadBackType, ReadCreatorType,
     UpdateCreatorType, AppendAuditType, LoadRequestType, ApplyType, RejectType, ExpireType
     DEF Next

(***************************************************************************)
(* Type correctness: the tables hold well-formed rows, and at each of its  *)
(* points a call has what its next step reads.                             *)
(***************************************************************************)
THEOREM TypeCorrect == Spec => []TypeOK
  BY TypeInit, TypeNext, PTL DEF Spec
-----------------------------------------------------------------------------
(***************************************************************************)
(* Decisions.  Most steps leave requests and decisions alone.              *)
(***************************************************************************)
LEMMA MatchKept ==
    ASSUME NEW r \in Requests, MatchesStatus(r), requests'[r] = requests[r],
           DecisionsOn(r)' = DecisionsOn(r), audit \subseteq audit'
    PROVE  MatchesStatus(r)'
  BY DEF MatchesStatus, Decided

LEMMA MatchFrame ==
    ASSUME DecisionsMatchStatus, UNCHANGED <<requests, decisions>>, audit \subseteq audit'
    PROVE  DecisionsMatchStatus'
  BY MatchKept DEF DecisionsMatchStatus, DecisionsOn

(* A request that may still be decided has no decision yet.                *)
LEMMA PendingUndecided ==
    ASSUME DecisionsMatchStatus, NEW r \in Requests, requests[r] # None,
           requests[r].status \in {"pending", "approved"}
    PROVE  requests[r].status = "pending" /\ DecisionsOn(r) = {} /\ requests[r].count # 1
  BY DEF DecisionsMatchStatus, MatchesStatus

(* A decision concerns one request.                                        *)
LEMMA RecordOn ==
    ASSUME NEW r \in Requests, NEW a, NEW verdict, Record(r, a, verdict)
    PROVE  /\ \A s \in Requests \ {r} : DecisionsOn(s)' = DecisionsOn(s)
           /\ DecisionsOn(r)' = DecisionsOn(r) \cup
                 {[request |-> r, admin |-> a, verdict |-> verdict]}
  BY DEF Record, DecisionsOn

LEMMA ResolveFields ==
    ASSUME StoreOK, NEW r \in Requests, requests[r] \in Request,
           NEW status \in RequestStatuses, NEW count \in {0, 1}, NEW at \in Nat,
           Resolve(r, status, count, at)
    PROVE  /\ requests'[r] # None
           /\ requests'[r].status = status /\ requests'[r].count = count
           /\ requests'[r].by = requests[r].by /\ requests'[r].handle = requests[r].handle
           /\ requests'[r].action = requests[r].action
           /\ requests'[r].target = requests[r].target
           /\ \A s \in Requests \ {r} : requests'[s] = requests[s]
<1>1. requests'[r] = [requests[r] EXCEPT !.status = status, !.count = count, !.updated = at]
  BY DEF StoreOK, Resolve
<1>2. requests'[r] \in Request
  BY <1>1 DEF Request
<1>3. requests'[r] # None
  BY <1>2, ConstantsOK
<1>. QED  BY <1>1, <1>3 DEF StoreOK, Resolve, Request

LEMMA MatchRequest ==
    ASSUME TypeOK, DecisionsMatchStatus, NEW w \in Calls, RequestApproval(w)
    PROVE  DecisionsMatchStatus'
<1>1. PICK r \in Requests :
         /\ requests[r] = None
         /\ requests' = [requests EXCEPT ![r] = NewRequest(call[w])]
         /\ Log("requested", r, call[w].admin)
  BY DEF RequestApproval
<1>2. CallOK(call[w], "request")
  BY DEF TypeOK, CallsOK, RequestApproval
<1>3. NewRequest(call[w]) # None
  BY <1>2, NewRequestType, ConstantsOK
<1>4. MatchesStatus(r)'
  <2>1. DecisionsOn(r)' = {}
    BY <1>1 DEF DecisionsMatchStatus, MatchesStatus, DecisionsOn, RequestApproval
  <2>2. requests'[r] = NewRequest(call[w])
    BY <1>1 DEF TypeOK, StoreOK
  <2>. QED  BY <1>1, <1>3, <2>1, <2>2 DEF MatchesStatus, NewRequest, Log
<1>5. \A s \in Requests \ {r} : requests'[s] = requests[s] /\ DecisionsOn(s)' = DecisionsOn(s)
  BY <1>1 DEF RequestApproval, TypeOK, StoreOK, DecisionsOn
<1>6. audit \subseteq audit'
  BY <1>1 DEF Log
<1>. QED  BY <1>4, <1>5, <1>6, MatchKept DEF DecisionsMatchStatus

LEMMA MatchApply ==
    ASSUME TypeOK, DecisionsMatchStatus, NEW w \in Calls, Apply(w)
    PROVE  DecisionsMatchStatus'
<1>. PICK r \in Requests, a \in Admins, at \in Nat :
        r = call[w].target /\ a = call[w].admin /\ at = call[w].at
  BY DecideCall DEF Apply
<1>. DEFINE q == requests[r]
<1>1. q \in Request
  BY DecideCall DEF Apply
<1>2. CASE UNCHANGED <<decisions, requests, audit>>
  BY <1>2, MatchFrame
<1>3. CASE /\ MayDecide(call[w])
           /\ Record(r, a, "approved")
           /\ Resolve(r, "applied", 1, at)
           /\ Log("applied", q.handle, a)
  <2>1. q # None /\ q.status = "pending" /\ q.by # a
    BY <1>1, <1>3, ConstantsOK DEF MayDecide, Open
  <2>2. DecisionsOn(r) = {}
    BY <1>1, <2>1, PendingUndecided
  <2>3. /\ requests'[r] # None /\ requests'[r].status = "applied" /\ requests'[r].count = 1
        /\ requests'[r].by = q.by /\ requests'[r].handle = q.handle
        /\ \A s \in Requests \ {r} : requests'[s] = requests[s]
    BY <1>1, <1>3, ResolveFields DEF TypeOK, RequestStatuses
  <2>4. /\ \A s \in Requests \ {r} : DecisionsOn(s)' = DecisionsOn(s)
        /\ DecisionsOn(r)' = {[request |-> r, admin |-> a, verdict |-> "approved"]}
    BY <1>1, <1>3, <2>2, RecordOn
  <2>5. [action |-> "requested", entity |-> r, admin |-> q.by] \in audit
    BY <1>1, <2>1 DEF DecisionsMatchStatus, MatchesStatus
  <2>6. MatchesStatus(r)'
    BY <1>1, <1>3, <2>1, <2>3, <2>4, <2>5 DEF MatchesStatus, Decided, Log, Request
  <2>7. audit \subseteq audit'
    BY <1>3 DEF Log
  <2>. QED  BY <2>3, <2>4, <2>6, <2>7, MatchKept DEF DecisionsMatchStatus
<1>. QED  BY <1>2, <1>3 DEF Apply

LEMMA MatchReject ==
    ASSUME TypeOK, DecisionsMatchStatus, NEW w \in Calls, Reject(w)
    PROVE  DecisionsMatchStatus'
<1>. PICK r \in Requests, a \in Admins, at \in Nat :
        r = call[w].target /\ a = call[w].admin /\ at = call[w].at
  BY DecideCall DEF Reject
<1>. DEFINE q == requests[r]
<1>1. q \in Request
  BY DecideCall DEF Reject
<1>2. CASE UNCHANGED <<decisions, requests, audit>>
  BY <1>2, MatchFrame
<1>3. CASE /\ MayDecide(call[w])
           /\ Record(r, a, "rejected")
           /\ Resolve(r, "rejected", q.count, at)
           /\ Log("rejected", r, a)
  <2>1. q # None /\ q.status = "pending" /\ q.by # a /\ q.count \in {0, 1}
    BY <1>1, <1>3, ConstantsOK DEF MayDecide, Open, Request
  <2>2. DecisionsOn(r) = {} /\ q.count # 1
    BY <1>1, <2>1, PendingUndecided
  <2>3. /\ requests'[r] # None /\ requests'[r].status = "rejected" /\ requests'[r].count = q.count
        /\ requests'[r].by = q.by /\ requests'[r].handle = q.handle
        /\ \A s \in Requests \ {r} : requests'[s] = requests[s]
    BY <1>1, <1>3, <2>1, ResolveFields DEF TypeOK, RequestStatuses
  <2>4. /\ \A s \in Requests \ {r} : DecisionsOn(s)' = DecisionsOn(s)
        /\ DecisionsOn(r)' = {[request |-> r, admin |-> a, verdict |-> "rejected"]}
    BY <1>1, <1>3, <2>2, RecordOn
  <2>5. [action |-> "requested", entity |-> r, admin |-> q.by] \in audit
    BY <1>1, <2>1 DEF DecisionsMatchStatus, MatchesStatus
  <2>6. MatchesStatus(r)'
    BY <1>1, <1>3, <2>1, <2>2, <2>3, <2>4, <2>5 DEF MatchesStatus, Decided, Log, Request
  <2>7. audit \subseteq audit'
    BY <1>3 DEF Log
  <2>. QED  BY <2>3, <2>4, <2>6, <2>7, MatchKept DEF DecisionsMatchStatus
<1>. QED  BY <1>2, <1>3 DEF Reject

LEMMA MatchExpire ==
    ASSUME TypeOK, DecisionsMatchStatus, NEW w \in Calls, Expire(w)
    PROVE  DecisionsMatchStatus'
<1>. PICK r \in Requests, a \in Admins, at \in Nat :
        r = call[w].target /\ a = call[w].admin /\ at = call[w].at
  BY DecideCall DEF Expire
<1>. DEFINE q == requests[r]
<1>1. q \in Request
  BY DecideCall DEF Expire
<1>2. CASE UNCHANGED <<requests, audit>>
  BY <1>2, MatchFrame DEF Expire
<1>3. CASE /\ PastDue(q, at)
           /\ Resolve(r, "expired", q.count, at)
           /\ Log("expired", r, a)
  <2>1. q # None /\ q.status \in {"pending", "approved"} /\ q.count \in {0, 1}
    BY <1>1, <1>3, ConstantsOK DEF PastDue, Request
  <2>2. DecisionsOn(r) = {} /\ q.count # 1
    BY <1>1, <2>1, PendingUndecided
  <2>3. /\ requests'[r] # None /\ requests'[r].status = "expired" /\ requests'[r].count = q.count
        /\ requests'[r].by = q.by /\ requests'[r].handle = q.handle
        /\ \A s \in Requests \ {r} : requests'[s] = requests[s]
    BY <1>1, <1>3, <2>1, ResolveFields DEF TypeOK, RequestStatuses
  <2>4. \A s \in Requests : DecisionsOn(s)' = DecisionsOn(s)
    BY DEF DecisionsOn, Expire
  <2>5. [action |-> "requested", entity |-> r, admin |-> q.by] \in audit
    BY <1>1, <2>1 DEF DecisionsMatchStatus, MatchesStatus
  <2>6. MatchesStatus(r)'
    BY <1>1, <1>3, <2>1, <2>2, <2>3, <2>4, <2>5 DEF MatchesStatus, Decided, Log, Request
  <2>7. audit \subseteq audit'
    BY <1>3 DEF Log
  <2>. QED  BY <2>3, <2>4, <2>6, <2>7, MatchKept DEF DecisionsMatchStatus
<1>. QED  BY <1>2, <1>3 DEF Expire

(* The steps that touch neither requests nor decisions.                    *)
LEMMA MatchOther ==
    ASSUME DecisionsMatchStatus, NEW w \in Calls,
           \/ Arrive(w) \/ ReadHandle(w) \/ Judge(w) \/ FindExact(w) \/ ReadCurrent(w)
           \/ DirectWrite(w) \/ ReadBack(w) \/ ReadCreator(w) \/ UpdateCreator(w)
           \/ AppendAudit(w) \/ LoadRequest(w) \/ Fail(w)
    PROVE  DecisionsMatchStatus'
<1>1. UNCHANGED <<requests, decisions>> /\ audit \subseteq audit'
  BY DEF Arrive, ArriveCreate, ArriveChange, ArriveCreator, ArriveDecision, ReadHandle,
         Judge, FindExact, ReadCurrent, DirectWrite, Insert, Update, WriteStatus, ReadBack,
         ReadCreator, UpdateCreator, AppendAudit, LoadRequest, Fail, Log, dbVars
<1>. QED  BY <1>1, MatchFrame

(***************************************************************************)
(* No request ever holds two verdicts, none at all while it is pending or  *)
(* when it expired, and never that of the administrator who raised it.     *)
(***************************************************************************)
THEOREM DecisionsSafe == Spec => []DecisionsMatchStatus
<1>1. Init => DecisionsMatchStatus
  BY DEF Init, DecisionsMatchStatus, MatchesStatus, DecisionsOn
<1>2. TypeOK /\ DecisionsMatchStatus /\ [Next]_vars => DecisionsMatchStatus'
  <2>. SUFFICES ASSUME TypeOK, DecisionsMatchStatus, [Next]_vars
                PROVE  DecisionsMatchStatus'
    OBVIOUS
  <2>1. CASE Tick \/ UNCHANGED vars
    BY <2>1, MatchFrame DEF Tick, vars, dbVars
  <2>. QED
    BY <2>1, MatchOther, MatchRequest, MatchApply, MatchReject, MatchExpire DEF Next
<1>. QED  BY <1>1, <1>2, TypeCorrect, PTL DEF Spec
-----------------------------------------------------------------------------
(***************************************************************************)
(* Revisions.  A step keeps what was known of the rows read earlier, and a *)
(* revision that a row has left stays left.                                *)
(***************************************************************************)
Left(h, rev) == rev \in stamps[h] /\ (h \in reused \/ handles[h].rev # rev)

SnapshotsStay == \A h \in Handles, row \in Row : Snapshot(row, h) => Snapshot(row, h)'

RevisionsStayLeft == \A h \in Handles, rev \in Nat : Left(h, rev) => Left(h, rev)'

RowsStayStamped == \A h \in Handles : RowStamped(h)'

LEMMA RevisionsFrame ==
    ASSUME RevisionsIdentifyRows, UNCHANGED <<handles, stamps, reused>>
    PROVE  SnapshotsStay /\ RevisionsStayLeft /\ RowsStayStamped /\ RowsStay
  BY DEF RevisionsIdentifyRows, RowStamped, SnapshotsStay, Snapshot, RevisionsStayLeft, Left,
         RowsStayStamped, RowsStay

LEMMA RevisionsWrite ==
    ASSUME StoreOK, RevisionsIdentifyRows, NEW h \in Handles, NEW row \in Row,
           Write(h, row, row.rev)
    PROVE  SnapshotsStay /\ RevisionsStayLeft /\ RowsStayStamped /\ RowsStay
<1>1. /\ handles'[h] = row /\ stamps'[h] = stamps[h] \cup {row.rev}
      /\ \A k \in Handles \ {h} : handles'[k] = handles[k] /\ stamps'[k] = stamps[k]
      /\ reused \subseteq reused' /\ (row.rev \in stamps[h] => h \in reused')
  BY DEF Write, StoreOK
<1>2. SnapshotsStay /\ RevisionsStayLeft
  BY <1>1 DEF SnapshotsStay, Snapshot, RevisionsStayLeft, Left
<1>3. RowsStayStamped /\ RowsStay
  BY <1>1, ConstantsOK DEF RevisionsIdentifyRows, RowStamped, RowsStayStamped, RowsStay
<1>. QED  BY <1>2, <1>3

(* A step that moves one call to a point with a fresh row, if with any.    *)
LEMMA FreshMove ==
    ASSUME TypeOK, RevisionsIdentifyRows, SnapshotsStay, NEW w \in Calls, NEW p, NEW c,
           Goto(w, p, c),
           p \in {"judge", "request"} /\ c.op # "create" =>
              c.seen \in Row /\ c.target \in Handles /\ Snapshot(c.seen, c.target)
    PROVE  \A v \in Calls : CallFresh(v)'
<1>. SUFFICES ASSUME NEW v \in Calls PROVE CallFresh(v)'
  OBVIOUS
<1>1. CASE v = w
  BY <1>1 DEF Goto, TypeOK, CallFresh, SnapshotsStay, Snapshot
<1>2. CASE v # w
  <2>1. pc'[v] = pc[v] /\ call'[v] = call[v]
    BY <1>2 DEF Goto, TypeOK
  <2>2. pc[v] \in {"judge", "request"} /\ call[v].op # "create" =>
           call[v].seen \in Row /\ call[v].target \in Handles
    BY DEF TypeOK, CallsOK, CallOK, Passes, Call
  <2>. QED  BY <2>1, <2>2 DEF RevisionsIdentifyRows, CallFresh, SnapshotsStay, Snapshot
<1>. QED  BY <1>1, <1>2

(* A request that the step does not touch stays fresh.                     *)
LEMMA FreshKept ==
    ASSUME TypeOK, RevisionsIdentifyRows, SnapshotsStay, RevisionsStayLeft, RowsStay,
           NEW r \in Requests, requests'[r] = requests[r], basis'[r] = basis[r]
    PROVE  RequestFresh(r)'
<1>. DEFINE q == requests[r]
<1>. SUFFICES ASSUME q # None, q.action = "update"
              PROVE  RequestFresh(r)'
  BY DEF RequestFresh
<1>1. q \in Request /\ q.handle \in Handles /\ basis[r] \in Row \cup {None}
  BY DEF TypeOK, StoreOK, Request
<1>2. RequestFresh(r)
  BY DEF RevisionsIdentifyRows
<1>3. /\ handles[q.handle] # None /\ basis[r] \in Row /\ basis[r].rev = q.target
      /\ Snapshot(basis[r], q.handle) /\ q.target \in Nat
  BY <1>1, <1>2 DEF RequestFresh, Row
<1>4. handles'[q.handle] # None
  BY <1>1, <1>3 DEF RowsStay
<1>5. /\ basis[r].rev \in stamps'[q.handle]
      /\ q.handle \in reused' \/ handles'[q.handle] = basis[r]
         \/ handles'[q.handle].rev # basis[r].rev
  BY <1>1, <1>3 DEF SnapshotsStay, Snapshot
<1>6. q.status = "applied" => q.handle \in reused' \/ handles'[q.handle].rev # q.target
  <2>1. q.target \in stamps[q.handle]
    BY <1>3 DEF Snapshot
  <2>. SUFFICES ASSUME q.status = "applied"
                PROVE  q.handle \in reused' \/ handles'[q.handle].rev # q.target
    OBVIOUS
  <2>2. Left(q.handle, q.target)
    BY <1>2, <2>1 DEF RequestFresh, Left
  <2>. QED  BY <1>1, <1>3, <2>2 DEF RevisionsStayLeft, Left
<1>7. /\ handles'[requests'[r].handle] # None
      /\ basis'[r] # None /\ basis'[r].rev = requests'[r].target
      /\ Snapshot(basis[r], requests[r].handle)'
      /\ requests'[r].status = "applied" =>
            requests'[r].handle \in reused'
            \/ handles'[requests'[r].handle].rev # requests'[r].target
  BY <1>3, <1>4, <1>5, <1>6, ConstantsOK DEF Snapshot
<1>. QED  BY <1>7 DEF RequestFresh

(* A step that moves one call and leaves the requests alone.               *)
LEMMA FreshStep ==
    ASSUME TypeOK, RevisionsIdentifyRows,
           SnapshotsStay, RevisionsStayLeft, RowsStayStamped, RowsStay,
           UNCHANGED <<requests, basis>>, NEW w \in Calls, NEW p, NEW c, Goto(w, p, c),
           p \in {"judge", "request"} /\ c.op # "create" =>
              c.seen \in Row /\ c.target \in Handles /\ Snapshot(c.seen, c.target)
    PROVE  RevisionsIdentifyRows'
<1>1. \A v \in Calls : CallFresh(v)'
  BY FreshMove
<1>2. \A r \in Requests : RequestFresh(r)'
  BY FreshKept
<1>. QED  BY <1>1, <1>2 DEF RevisionsIdentifyRows, RowsStayStamped

(* Steps that read, or write no handle row.                                *)
LEMMA FreshQuiet ==
    ASSUME TypeOK, RevisionsIdentifyRows, NEW w \in Calls,
           \/ Arrive(w) \/ FindExact(w) \/ ReadCurrent(w) \/ ReadBack(w) \/ ReadCreator(w)
           \/ UpdateCreator(w) \/ AppendAudit(w) \/ LoadRequest(w) \/ Fail(w)
    PROVE  RevisionsIdentifyRows'
<1>1. UNCHANGED <<handles, stamps, reused, requests, basis>>
  BY DEF Arrive, ArriveCreate, ArriveChange, ArriveCreator, ArriveDecision, FindExact,
         ReadCurrent, ReadBack, ReadCreator, UpdateCreator, AppendAudit, LoadRequest, Fail,
         dbVars
<1>2. SnapshotsStay /\ RevisionsStayLeft /\ RowsStayStamped /\ RowsStay
  BY <1>1, RevisionsFrame
<1>3. \E p, c : Goto(w, p, c) /\ (p \in {"judge", "request"} => c.op = "create")
  <2>1. CASE Arrive(w)
    <3>1. CASE ArriveCreate(w)
      <4>1. PICK a \in Admins, h \in Handles, b \in NewRows :
               Goto(w, "judge", NewCall(w, "create", a, h, b, None, clock))
        BY <3>1 DEF ArriveCreate
      <4>2. NewCall(w, "create", a, h, b, None, clock).op = "create"
        BY DEF NewCall
      <4>. QED  BY <4>1, <4>2
    <3>2. CASE ArriveChange(w) \/ ArriveCreator(w) \/ ArriveDecision(w)
      BY <3>2 DEF ArriveChange, ArriveCreator, ArriveDecision
    <3>. QED  BY <2>1, <3>1, <3>2 DEF Arrive
  <2>2. CASE FindExact(w)
    BY <2>2 DEF FindExact, Choose, DirectPoint, Finish, TypeOK, CallsOK, CallOK, Passes
  <2>3. CASE ReadCurrent(w) \/ ReadBack(w) \/ ReadCreator(w) \/ UpdateCreator(w)
    BY <2>3 DEF ReadCurrent, ReadBack, ReadCreator, UpdateCreator, ToAudit
  <2>4. CASE AppendAudit(w) \/ LoadRequest(w) \/ Fail(w)
    BY <2>4 DEF AppendAudit, LoadRequest, Fail, Finish
  <2>. QED  BY <2>1, <2>2, <2>3, <2>4
<1>. QED  BY <1>1, <1>2, <1>3, FreshStep

LEMMA FreshReadHandle ==
    ASSUME TypeOK, RevisionsIdentifyRows, NEW w \in Calls, ReadHandle(w)
    PROVE  RevisionsIdentifyRows'
<1>. DEFINE c == call[w]
            row == handles[c.target]
            d == [c EXCEPT !.seen = row]
<1>1. SnapshotsStay /\ RevisionsStayLeft /\ RowsStayStamped /\ RowsStay
  BY RevisionsFrame DEF ReadHandle, dbVars
<1>2. c \in Call /\ c.target \in Handles
  BY DEF TypeOK, CallsOK, ReadHandle, CallOK, Passes
<1>3. CASE Finish(w)
  BY <1>1, <1>3, FreshStep DEF ReadHandle, dbVars, Finish
<1>4. CASE row # None /\ Goto(w, "judge", d)
  <2>1. row \in Row /\ Snapshot(row, c.target)
    BY <1>2, <1>4 DEF TypeOK, StoreOK, RevisionsIdentifyRows, RowStamped, Snapshot
  <2>2. d.seen = row /\ d.target = c.target
    BY <1>2 DEF Call
  <2>. QED  BY <1>1, <1>2, <1>4, <2>1, <2>2, FreshStep DEF ReadHandle, dbVars
<1>. QED  BY <1>3, <1>4 DEF ReadHandle

LEMMA FreshJudge ==
    ASSUME TypeOK, RevisionsIdentifyRows, NEW w \in Calls, Judge(w)
    PROVE  RevisionsIdentifyRows'
<1>. DEFINE c == call[w]
            d == [c EXCEPT !.tier = tier[Proposal(c).creator]]
<1>1. SnapshotsStay /\ RevisionsStayLeft /\ RowsStayStamped /\ RowsStay
  BY RevisionsFrame DEF Judge, dbVars
<1>2. CallOK(c, "judge")
  BY DEF TypeOK, CallsOK, Judge
<1>3. d.op = c.op /\ d.seen = c.seen /\ d.target = c.target
  BY <1>2 DEF CallOK, Call
<1>4. c.op # "create" => d.seen \in Row /\ d.target \in Handles /\ Snapshot(d.seen, d.target)
  <2>1. c.op # "create" => c.seen \in Row /\ c.target \in Handles
    BY <1>2 DEF CallOK, Passes, Call
  <2>2. c.op # "create" => Snapshot(c.seen, c.target)
    BY DEF RevisionsIdentifyRows, CallFresh, Judge
  <2>. QED  BY <1>3, <2>1, <2>2
<1>5. UNCHANGED <<requests, basis>>
  BY DEF Judge, dbVars
<1>6. CASE Goto(w, "exact", d)
  BY <1>1, <1>5, <1>6, FreshStep
<1>7. CASE Goto(w, "request", d)
  BY <1>1, <1>3, <1>4, <1>5, <1>7, FreshStep
<1>8. CASE Finish(w)
  BY <1>1, <1>5, <1>8, FreshStep DEF Finish
<1>9. CASE Goto(w, DirectPoint(d.op), [d EXCEPT !.stamp = clock])
  BY <1>1, <1>5, <1>9, FreshStep DEF DirectPoint
<1>. QED  BY <1>6, <1>7, <1>8, <1>9 DEF Judge, Choose

(* A request is raised from the row its call read, at its revision.        *)
LEMMA FreshRequest ==
    ASSUME TypeOK, RevisionsIdentifyRows, NEW w \in Calls, RequestApproval(w)
    PROVE  RevisionsIdentifyRows'
<1>1. SnapshotsStay /\ RevisionsStayLeft /\ RowsStayStamped /\ RowsStay
  BY RevisionsFrame DEF RequestApproval
<1>2. PICK r \in Requests :
         /\ requests' = [requests EXCEPT ![r] = NewRequest(call[w])]
         /\ basis' = [basis EXCEPT ![r] = call[w].seen]
  BY DEF RequestApproval
<1>3. CallOK(call[w], "request") /\ Finish(w)
  BY DEF TypeOK, CallsOK, RequestApproval
<1>4. /\ requests'[r] = NewRequest(call[w]) /\ basis'[r] = call[w].seen
      /\ \A s \in Requests \ {r} : requests'[s] = requests[s] /\ basis'[s] = basis[s]
  BY <1>2 DEF TypeOK, StoreOK
<1>5. RequestFresh(r)'
  <2>. SUFFICES ASSUME NewRequest(call[w]).action = "update"
                PROVE  RequestFresh(r)'
    BY <1>4 DEF RequestFresh
  <2>1. call[w].op # "create"
    BY <1>3, NewRequestType DEF NewRequest
  <2>2. /\ call[w].seen \in Row /\ call[w].target \in Handles
        /\ handles[call[w].target] # None
    BY <1>3, <2>1 DEF CallOK, Call, Passes
  <2>3. Snapshot(call[w].seen, call[w].target)
    BY <2>1 DEF RevisionsIdentifyRows, CallFresh, RequestApproval
  <2>4. /\ requests'[r].handle = call[w].target /\ requests'[r].target = call[w].seen.rev
        /\ requests'[r].status = "pending"
    BY <1>4, <2>1 DEF NewRequest
  <2>5. call[w].seen # None
    BY <2>2, ConstantsOK
  <2>. QED  BY <1>4, <2>2, <2>3, <2>4, <2>5 DEF RequestFresh, Snapshot, RequestApproval
<1>6. \A s \in Requests : RequestFresh(s)'
  BY <1>1, <1>4, <1>5, FreshKept
<1>7. \A v \in Calls : CallFresh(v)'
  BY <1>1, <1>3, FreshMove DEF Finish
<1>. QED  BY <1>1, <1>6, <1>7 DEF RevisionsIdentifyRows, RowsStayStamped

(* A write stamps the row it leaves behind.                                *)
LEMMA FreshWrite ==
    ASSUME TypeOK, RevisionsIdentifyRows, NEW w \in Calls, DirectWrite(w)
    PROVE  RevisionsIdentifyRows'
<1>1. UNCHANGED <<requests, basis>>
  BY DEF DirectWrite, Insert, Update, WriteStatus
<1>2. \E p, c : Goto(w, p, c) /\ p \notin {"judge", "request"}
  BY DEF DirectWrite, Insert, Update, WriteStatus, Finish, ToAudit
<1>3. CallOK(call[w], pc[w]) /\ pc[w] \in {"insert", "update", "status"}
  BY DEF TypeOK, CallsOK, DirectWrite, Insert, Update, WriteStatus
<1>4. call[w].target \in Handles /\ call[w].stamp \in Nat
  BY <1>3 DEF CallOK, Call, Passes
<1>5. \/ UNCHANGED <<handles, stamps, reused>>
      \/ \E row \in Row : Write(call[w].target, row, row.rev)
  <2>1. CASE Insert(w)
    <3>1. CallOK(call[w], "insert") /\ call[w].op = "create"
      BY <1>3, <2>1 DEF Insert, CallOK, Passes
    <3>2. Stored(call[w].body, call[w].stamp) \in Row
      BY <1>4, <3>1, StoredType DEF CallOK
    <3>. QED  BY <2>1, <3>2 DEF Insert, Stored
  <2>2. CASE Update(w)
    <3>. DEFINE m == [call[w].merged EXCEPT !.status = handles[call[w].target].status]
    <3>1. CallOK(call[w], "update") /\ call[w].op = "patch"
      BY <1>3, <2>2 DEF Update, CallOK, Passes
    <3>2. call[w].merged \in Content /\ handles[call[w].target] \in Row
      BY <1>4, <3>1 DEF CallOK, TypeOK, StoreOK
    <3>3. m \in Content
      BY <3>2 DEF Content, Row
    <3>4. Stored(m, call[w].stamp) \in Row /\ Stored(m, call[w].stamp).rev = call[w].stamp
      BY <1>4, <3>3, StoredType DEF Stored
    <3>5. \/ UNCHANGED <<handles, stamps, reused>>
          \/ Write(call[w].target, Stored(m, call[w].stamp), call[w].stamp)
      BY <2>2 DEF Update
    <3>. QED  BY <3>4, <3>5
  <2>3. CASE WriteStatus(w)
    <3>. DEFINE row == [handles[call[w].target] EXCEPT !.status = call[w].body.status,
                                                       !.rev = call[w].stamp]
    <3>1. CallOK(call[w], "status")
      BY <1>3, <2>3 DEF WriteStatus
    <3>2. call[w].body.status \in Statuses /\ handles[call[w].target] \in Row
      BY <1>4, <3>1 DEF CallOK, Passes, TypeOK, StoreOK, Patch
    <3>3. row \in Row /\ row.rev = call[w].stamp
      BY <1>4, <3>2 DEF Row
    <3>4. Write(call[w].target, row, call[w].stamp)
      BY <2>3 DEF WriteStatus
    <3>. QED  BY <3>3, <3>4
  <2>. QED  BY <2>1, <2>2, <2>3 DEF DirectWrite
<1>6. SnapshotsStay /\ RevisionsStayLeft /\ RowsStayStamped /\ RowsStay
  <2>1. CASE UNCHANGED <<handles, stamps, reused>>
    BY <2>1, RevisionsFrame
  <2>2. CASE \E row \in Row : Write(call[w].target, row, row.rev)
    BY <1>4, <2>2, RevisionsWrite DEF TypeOK
  <2>. QED  BY <1>5, <2>1, <2>2
<1>. QED  BY <1>1, <1>2, <1>6, FreshStep

(***************************************************************************)
(* What approving does: nothing, or the write of the payload over a row    *)
(* that still has the revision of the request.                             *)
(***************************************************************************)
LEMMA ApplySteps ==
    ASSUME TypeOK, NEW w \in Calls, Apply(w)
    PROVE  \/ UNCHANGED <<requests, handles, stamps, reused>>
           \/ \E r \in Requests, row \in Row :
                 /\ requests[r] \in Request /\ requests[r].handle \in Handles
                 /\ requests[r].status = "pending"
                 /\ TargetUnchanged(requests[r])
                 /\ Write(requests[r].handle, row, row.rev)
                 /\ Resolve(r, "applied", 1, row.rev)
<1>. DEFINE c == call[w]
            q == requests[c.target]
<1>1. c.target \in Requests /\ c.at \in Nat /\ q \in Request
  BY DecideCall DEF Apply
<1>2. CASE /\ MayDecide(c) /\ Applicable(q)
           /\ Write(q.handle, Stored(q.payload, c.at), c.at)
           /\ Resolve(c.target, "applied", 1, c.at)
  <2>1. q.handle \in Handles /\ Stored(q.payload, c.at) \in Row
    BY <1>1, StoredType DEF Request
  <2>2. Stored(q.payload, c.at).rev = c.at
    BY DEF Stored
  <2>3. q.status = "pending" /\ TargetUnchanged(q)
    BY <1>2 DEF MayDecide, Open, Applicable
  <2>. QED  BY <1>1, <1>2, <2>1, <2>2, <2>3
<1>. QED  BY <1>2 DEF Apply

LEMMA FreshApply ==
    ASSUME TypeOK, RevisionsIdentifyRows, NEW w \in Calls, Apply(w)
    PROVE  RevisionsIdentifyRows'
<1>1. Finish(w) /\ basis' = basis
  BY DEF Apply
<1>2. CASE UNCHANGED <<requests, handles, stamps, reused>>
  BY <1>1, <1>2, RevisionsFrame, FreshStep DEF Finish
<1>3. ASSUME NEW r \in Requests, NEW row \in Row,
             requests[r] \in Request, requests[r].handle \in Handles,
             TargetUnchanged(requests[r]),
             Write(requests[r].handle, row, row.rev),
             Resolve(r, "applied", 1, row.rev)
      PROVE  RevisionsIdentifyRows'
  <2>. DEFINE q == requests[r]
  <2>1. SnapshotsStay /\ RevisionsStayLeft /\ RowsStayStamped /\ RowsStay
    BY <1>3, RevisionsWrite DEF TypeOK
  <2>2. /\ requests'[r] # None /\ requests'[r].status = "applied"
        /\ requests'[r].handle = q.handle /\ requests'[r].action = q.action
        /\ requests'[r].target = q.target
        /\ \A s \in Requests \ {r} : requests'[s] = requests[s]
    BY <1>3, ResolveFields DEF TypeOK, RequestStatuses, Row
  <2>3. RequestFresh(r)'
    <3>. SUFFICES ASSUME q.action = "update" PROVE RequestFresh(r)'
      BY <2>2 DEF RequestFresh
    <3>1. /\ handles[q.handle] # None /\ basis[r] \in Row /\ basis[r].rev = q.target
          /\ Snapshot(basis[r], q.handle) /\ q # None
      BY <1>3, ConstantsOK DEF RevisionsIdentifyRows, RequestFresh, TypeOK, StoreOK
    <3>2. handles'[q.handle] # None /\ Snapshot(basis[r], requests[r].handle)'
      BY <1>1, <1>3, <2>1, <2>2, <3>1 DEF RowsStay, SnapshotsStay, Snapshot
    <3>3. q.handle \in reused' \/ handles'[q.handle].rev # q.target
      <4>1. q.target \in stamps[q.handle]
        BY <3>1 DEF Snapshot
      <4>2. handles'[q.handle] = row /\ (row.rev \in stamps[q.handle] => q.handle \in reused')
        BY <1>3 DEF Write, TypeOK, StoreOK
      <4>. QED  BY <4>1, <4>2
    <3>4. basis'[r] # None /\ basis'[r].rev = requests'[r].target
      BY <1>1, <2>2, <3>1, ConstantsOK
    <3>. QED  BY <2>2, <3>2, <3>3, <3>4 DEF RequestFresh
  <2>4. \A s \in Requests : RequestFresh(s)'
    BY <1>1, <2>1, <2>2, <2>3, FreshKept
  <2>5. \A v \in Calls : CallFresh(v)'
    BY <1>1, <2>1, FreshMove DEF Finish
  <2>. QED  BY <2>1, <2>4, <2>5 DEF RevisionsIdentifyRows, RowsStayStamped
<1>. QED  BY <1>2, <1>3, ApplySteps

(* Rejecting and expiring leave the handle rows alone.                     *)
LEMMA FreshResolve ==
    ASSUME TypeOK, RevisionsIdentifyRows, NEW w \in Calls, Reject(w) \/ Expire(w)
    PROVE  RevisionsIdentifyRows'
<1>1. Finish(w) /\ UNCHANGED <<handles, stamps, reused, basis>> /\ pc[w] = "decide"
  BY DEF Reject, Expire
<1>2. SnapshotsStay /\ RevisionsStayLeft /\ RowsStayStamped /\ RowsStay
  BY <1>1, RevisionsFrame
<1>3. PICK r \in Requests, at \in Nat : r = call[w].target /\ at = call[w].at
  BY <1>1, DecideCall
<1>4. requests[r] \in Request /\ requests[r].count \in {0, 1}
  BY <1>1, <1>3, DecideCall DEF Request
<1>5. CASE requests' = requests
  BY <1>1, <1>2, <1>5, FreshStep DEF Finish
<1>6. ASSUME NEW status \in {"rejected", "expired"},
             Resolve(r, status, requests[r].count, at)
      PROVE  RevisionsIdentifyRows'
  <2>1. /\ requests'[r] # None /\ requests'[r].status = status
        /\ requests'[r].handle = requests[r].handle /\ requests'[r].action = requests[r].action
        /\ requests'[r].target = requests[r].target
        /\ \A s \in Requests \ {r} : requests'[s] = requests[s]
    BY <1>4, <1>6, ResolveFields DEF TypeOK, RequestStatuses
  <2>2. RequestFresh(r)'
    <3>1. requests[r] # None
      BY <1>4, ConstantsOK
    <3>2. RequestFresh(r)
      BY DEF RevisionsIdentifyRows
    <3>3. status # "applied"
      BY <1>6
    <3>. QED  BY <1>1, <2>1, <3>1, <3>2, <3>3 DEF RequestFresh, Snapshot
  <2>3. \A s \in Requests : RequestFresh(s)'
    BY <1>1, <1>2, <2>1, <2>2, FreshKept
  <2>4. \A v \in Calls : CallFresh(v)'
    BY <1>1, <1>2, FreshMove DEF Finish
  <2>. QED  BY <1>2, <2>3, <2>4 DEF RevisionsIdentifyRows, RowsStayStamped
<1>. QED  BY <1>3, <1>5, <1>6 DEF Reject, Expire

(***************************************************************************)
(* A revision identifies a row: whatever a call or a requester saw is the  *)
(* present row for as long as the revision is the same.                    *)
(***************************************************************************)
THEOREM RevisionsSafe == Spec => []RevisionsIdentifyRows
<1>1. Init => RevisionsIdentifyRows
  BY ConstantsOK DEF Init, RevisionsIdentifyRows, RowStamped, CallFresh, RequestFresh
<1>2. TypeOK /\ RevisionsIdentifyRows /\ [Next]_vars => RevisionsIdentifyRows'
  <2>. SUFFICES ASSUME TypeOK, RevisionsIdentifyRows, [Next]_vars
                PROVE  RevisionsIdentifyRows'
    OBVIOUS
  <2>1. CASE Tick \/ UNCHANGED vars
    BY <2>1 DEF Tick, vars, dbVars, RevisionsIdentifyRows, RowStamped, CallFresh,
                RequestFresh, Snapshot
  <2>. QED
    BY <2>1, FreshQuiet, FreshReadHandle, FreshJudge, FreshRequest, FreshWrite, FreshApply,
       FreshResolve DEF Next
<1>. QED  BY <1>1, <1>2, TypeCorrect, PTL DEF Spec
-----------------------------------------------------------------------------
(***************************************************************************)
(* What a step does to the requests: it touches one at most, which is      *)
(* raised, applied over the revision it names, or resolved otherwise.      *)
(***************************************************************************)
Raised(r) == requests[r] = None /\ requests'[r] # None /\ requests'[r].status = "pending"

SameContents(r) ==
    /\ requests[r] # None /\ requests'[r] # None
    /\ requests'[r].action = requests[r].action /\ requests'[r].by = requests[r].by
    /\ requests'[r].handle = requests[r].handle /\ requests'[r].target = requests[r].target

AppliedNow(r) ==
    /\ SameContents(r) /\ requests[r].status = "pending" /\ requests'[r].status = "applied"
    /\ TargetUnchanged(requests[r])

ResolvedNow(r) == SameContents(r) /\ requests'[r].status \in {"rejected", "expired"}

LEMMA QuietRequests ==
    ASSUME NEW w \in Calls,
           \/ Arrive(w) \/ ReadHandle(w) \/ Judge(w) \/ FindExact(w) \/ ReadCurrent(w)
           \/ DirectWrite(w) \/ ReadBack(w) \/ ReadCreator(w) \/ UpdateCreator(w)
           \/ AppendAudit(w) \/ LoadRequest(w) \/ Fail(w)
    PROVE  UNCHANGED <<requests, decisions>>
  BY DEF Arrive, ArriveCreate, ArriveChange, ArriveCreator, ArriveDecision, ReadHandle,
         Judge, FindExact, ReadCurrent, DirectWrite, Insert, Update, WriteStatus, ReadBack,
         ReadCreator, UpdateCreator, AppendAudit, LoadRequest, Fail, dbVars

LEMMA RequestSteps ==
    ASSUME TypeOK, [Next]_vars
    PROVE  \/ requests' = requests
           \/ \E r \in Requests :
                 /\ \A s \in Requests \ {r} : requests'[s] = requests[s]
                 /\ Raised(r) \/ AppliedNow(r) \/ ResolvedNow(r)
<1>1. CASE Tick \/ UNCHANGED vars
  BY <1>1 DEF Tick, vars, dbVars
<1>2. ASSUME NEW w \in Calls, RequestApproval(w)
      PROVE  \E r \in Requests :
                /\ \A s \in Requests \ {r} : requests'[s] = requests[s]
                /\ Raised(r)
  <2>1. PICK r \in Requests :
           requests[r] = None /\ requests' = [requests EXCEPT ![r] = NewRequest(call[w])]
    BY <1>2 DEF RequestApproval
  <2>2. CallOK(call[w], "request")
    BY <1>2 DEF TypeOK, CallsOK, RequestApproval
  <2>3. NewRequest(call[w]) # None /\ NewRequest(call[w]).status = "pending"
    BY <2>2, NewRequestType, ConstantsOK DEF NewRequest
  <2>. QED  BY <2>1, <2>3 DEF TypeOK, StoreOK, Raised
<1>3. ASSUME NEW w \in Calls, Apply(w)
      PROVE  \/ requests' = requests
             \/ \E r \in Requests :
                   /\ \A s \in Requests \ {r} : requests'[s] = requests[s]
                   /\ AppliedNow(r)
  <2>1. CASE UNCHANGED <<requests, handles, stamps, reused>>
    BY <2>1
  <2>2. ASSUME NEW r \in Requests, NEW row \in Row, requests[r] \in Request,
               requests[r].status = "pending", TargetUnchanged(requests[r]),
               Resolve(r, "applied", 1, row.rev)
        PROVE  (\A s \in Requests \ {r} : requests'[s] = requests[s]) /\ AppliedNow(r)
    BY <2>2, ResolveFields, ConstantsOK
       DEF TypeOK, RequestStatuses, Row, AppliedNow, SameContents
  <2>. QED  BY <1>3, <2>1, <2>2, ApplySteps
<1>4. ASSUME NEW w \in Calls, Reject(w) \/ Expire(w)
      PROVE  \/ requests' = requests
             \/ \E r \in Requests :
                   /\ \A s \in Requests \ {r} : requests'[s] = requests[s]
                   /\ ResolvedNow(r)
  <2>1. PICK r \in Requests, at \in Nat :
           r = call[w].target /\ at = call[w].at /\ requests[r] \in Request
    BY <1>4, DecideCall DEF Reject, Expire
  <2>2. requests[r].count \in {0, 1} /\ requests[r] # None
    BY <2>1, ConstantsOK DEF Request
  <2>3. \/ requests' = requests
        \/ \E status \in {"rejected", "expired"} : Resolve(r, status, requests[r].count, at)
    BY <1>4, <2>1 DEF Reject, Expire
  <2>4. ASSUME NEW status \in {"rejected", "expired"}, Resolve(r, status, requests[r].count, at)
        PROVE  (\A s \in Requests \ {r} : requests'[s] = requests[s]) /\ ResolvedNow(r)
    BY <2>1, <2>2, <2>4, ResolveFields DEF TypeOK, RequestStatuses, ResolvedNow, SameContents
  <2>. QED  BY <2>3, <2>4
<1>5. ASSUME NEW w \in Calls,
             \/ Arrive(w) \/ ReadHandle(w) \/ Judge(w) \/ FindExact(w) \/ ReadCurrent(w)
             \/ DirectWrite(w) \/ ReadBack(w) \/ ReadCreator(w) \/ UpdateCreator(w)
             \/ AppendAudit(w) \/ LoadRequest(w) \/ Fail(w)
      PROVE  requests' = requests
  BY <1>5, QuietRequests
<1>. QED  BY <1>1, <1>2, <1>3, <1>4, <1>5 DEF Next

(* Once a handle was given a revision twice, it is exempt for good.        *)
LEMMA ReusedGrows == ASSUME [Next]_vars PROVE reused \subseteq reused'
<1>1. ASSUME NEW w \in Calls, DirectWrite(w) \/ Apply(w)
      PROVE  reused \subseteq reused'
  <2>1. ASSUME NEW h, NEW row, NEW at, Write(h, row, at)
        PROVE  reused \subseteq reused'
    BY <2>1 DEF Write
  <2>2. CASE Insert(w)
    BY <2>1, <2>2 DEF Insert
  <2>3. CASE Update(w)
    BY <2>1, <2>3 DEF Update
  <2>4. CASE WriteStatus(w)
    BY <2>1, <2>4 DEF WriteStatus
  <2>5. CASE Apply(w)
    BY <2>1, <2>5 DEF Apply
  <2>. QED  BY <1>1, <2>2, <2>3, <2>4, <2>5 DEF DirectWrite
<1>2. ASSUME NEW w \in Calls,
             \/ Arrive(w) \/ ReadHandle(w) \/ Judge(w) \/ FindExact(w) \/ RequestApproval(w)
             \/ ReadCurrent(w) \/ ReadBack(w) \/ ReadCreator(w) \/ UpdateCreator(w)
             \/ AppendAudit(w) \/ LoadRequest(w) \/ Reject(w) \/ Expire(w) \/ Fail(w)
      PROVE  reused' = reused
  BY <1>2 DEF Arrive, ArriveCreate, ArriveChange, ArriveCreator, ArriveDecision, ReadHandle,
         Judge, FindExact, RequestApproval, ReadCurrent, ReadBack, ReadCreator, UpdateCreator,
         AppendAudit, LoadRequest, Reject, Expire, Fail, dbVars
<1>3. CASE Tick \/ UNCHANGED vars
  BY <1>3 DEF Tick, vars, dbVars
<1>. QED  BY <1>1, <1>2, <1>3 DEF Next

(***************************************************************************)
(* An approved change is applied to exactly the row its requester saw.     *)
(***************************************************************************)
THEOREM ApprovalsFresh == Spec => AppliedFresh
<1>1. TypeOK /\ RevisionsIdentifyRows /\ [Next]_vars => AppliesFresh
  <2>. SUFFICES ASSUME TypeOK, RevisionsIdentifyRows, [Next]_vars, NEW r \in Requests,
                       BecomesApplied(r), requests[r].action = "update"
                PROVE  handles[requests[r].handle] = basis[r] \/ requests[r].handle \in reused
    BY DEF AppliesFresh
  <2>1. AppliedNow(r)
    BY RequestSteps DEF BecomesApplied, Raised, ResolvedNow
  <2>2. RequestFresh(r)
    BY DEF RevisionsIdentifyRows
  <2>3. handles[requests[r].handle].rev = requests[r].target /\ requests[r] # None
    BY <2>1 DEF AppliedNow, SameContents, TargetUnchanged
  <2>4. basis[r].rev = requests[r].target /\ Snapshot(basis[r], requests[r].handle)
    BY <2>2, <2>3 DEF RequestFresh
  <2>. QED  BY <2>3, <2>4 DEF Snapshot
<1>. QED  BY <1>1, TypeCorrect, RevisionsSafe, PTL DEF Spec, AppliedFresh

(***************************************************************************)
(* At most one of the requests raised against one revision is applied.     *)
(***************************************************************************)
THEOREM OneWinner == Spec => []OneWinnerPerRevision
<1>1. Init => OneWinnerPerRevision
  BY DEF Init, OneWinnerPerRevision
<1>2. TypeOK /\ RevisionsIdentifyRows /\ OneWinnerPerRevision /\ [Next]_vars
         => OneWinnerPerRevision'
  <2>. SUFFICES ASSUME TypeOK, RevisionsIdentifyRows, OneWinnerPerRevision, [Next]_vars,
                       NEW r \in Requests, NEW s \in Requests, r # s,
                       requests'[r] # None, requests'[s] # None,
                       requests'[r].status = "applied", requests'[s].status = "applied",
                       requests'[r].action = "update", requests'[s].action = "update",
                       requests'[r].handle = requests'[s].handle,
                       requests'[r].target = requests'[s].target
                PROVE  requests'[r].handle \in reused'
    BY DEF OneWinnerPerRevision
  <2>1. reused \subseteq reused'
    BY ReusedGrows
  <2>2. ASSUME NEW p \in Requests, NEW q \in Requests, p # q,
               AppliedNow(p), requests'[q] = requests[q],
               requests'[p].action = "update", requests'[q].action = "update",
               requests'[q] # None, requests'[q].status = "applied",
               requests'[p].handle = requests'[q].handle,
               requests'[p].target = requests'[q].target
        PROVE  requests'[q].handle \in reused
    <3>1. handles[requests[p].handle].rev = requests[p].target
      BY <2>2 DEF AppliedNow, SameContents, TargetUnchanged
    <3>2. RequestFresh(q)
      BY DEF RevisionsIdentifyRows
    <3>. QED  BY <2>2, <3>1, <3>2 DEF RequestFresh, AppliedNow, SameContents
  <2>3. CASE requests'[r] = requests[r] /\ requests'[s] = requests[s]
    BY <2>1, <2>3 DEF OneWinnerPerRevision
  <2>4. CASE AppliedNow(r) /\ requests'[s] = requests[s]
    BY <2>1, <2>2, <2>4
  <2>5. CASE requests'[r] = requests[r] /\ AppliedNow(s)
    BY <2>1, <2>2, <2>5
  <2>. QED  BY <2>3, <2>4, <2>5, RequestSteps DEF Raised, ResolvedNow
<1>. QED  BY <1>1, <1>2, TypeCorrect, RevisionsSafe, PTL DEF Spec
-----------------------------------------------------------------------------
(***************************************************************************)
(* The four-eyes contract.  Each lemma maps an action to one of FourEyes.  *)
(***************************************************************************)
LEMMA RefineQuiet ==
    ASSUME UNCHANGED <<requests, decisions>>
    PROVE  UNCHANGED Contract!feVars
  BY DEF Contract!feVars, StateOf, RaisedBy, DecidedBy, DecisionsOn

(* What is said of the other requests does not change.                     *)
LEMMA RefineOthers ==
    ASSUME NEW r \in Requests,
           \A s \in Requests \ {r} :
              requests'[s] = requests[s] /\ DecisionsOn(s)' = DecisionsOn(s)
    PROVE  /\ StateOf' = [StateOf EXCEPT ![r] = StateOf'[r]]
           /\ RaisedBy' = [RaisedBy EXCEPT ![r] = RaisedBy'[r]]
           /\ DecidedBy' = [DecidedBy EXCEPT ![r] = DecidedBy'[r]]
  BY DEF StateOf, RaisedBy, DecidedBy

LEMMA RefineRequest ==
    ASSUME TypeOK, NEW w \in Calls, RequestApproval(w)
    PROVE  Contract!FENext
<1>1. CallOK(call[w], "request") /\ decisions' = decisions
  BY DEF TypeOK, CallsOK, RequestApproval
<1>2. PICK r \in Requests :
         requests[r] = None /\ requests' = [requests EXCEPT ![r] = NewRequest(call[w])]
  BY DEF RequestApproval
<1>3. PICK a \in Admins : a = call[w].admin
  BY <1>1 DEF CallOK, Call
<1>4. /\ requests'[r] = NewRequest(call[w])
      /\ \A s \in Requests \ {r} : requests'[s] = requests[s]
  BY <1>2 DEF TypeOK, StoreOK
<1>5. requests'[r] # None /\ requests'[r].status = "pending" /\ requests'[r].by = a
  BY <1>1, <1>3, <1>4, NewRequestType, ConstantsOK DEF NewRequest
<1>6. \A s \in Requests : DecisionsOn(s)' = DecisionsOn(s)
  BY <1>1 DEF DecisionsOn
<1>7. StateOf[r] = "absent" /\ StateOf'[r] = "pending" /\ RaisedBy'[r] = {a}
  BY <1>2, <1>5 DEF StateOf, RaisedBy
<1>8. DecidedBy' = DecidedBy
  BY <1>6 DEF DecidedBy
<1>9. Contract!Raise(r, a)
  BY <1>4, <1>6, <1>7, <1>8, RefineOthers DEF Contract!Raise
<1>. QED  BY <1>9 DEF Contract!FENext

(* A decision is taken on a pending request, by somebody else.             *)
LEMMA RefineDecide ==
    ASSUME TypeOK, DecisionsMatchStatus, NEW r \in Requests, NEW a \in Admins,
           NEW status \in {"applied", "rejected"}, NEW verdict, NEW count \in {0, 1},
           NEW at \in Nat, requests[r] \in Request,
           requests[r].status = "pending", requests[r].by # a,
           Resolve(r, status, count, at), Record(r, a, verdict)
    PROVE  Contract!FENext
<1>1. /\ requests'[r] # None /\ requests'[r].status = status
      /\ requests'[r].by = requests[r].by
      /\ \A s \in Requests \ {r} : requests'[s] = requests[s]
  BY ResolveFields DEF TypeOK, RequestStatuses
<1>2. requests[r] # None
  BY ConstantsOK
<1>3. DecisionsOn(r) = {}
  BY <1>2, PendingUndecided
<1>4. /\ \A s \in Requests \ {r} : DecisionsOn(s)' = DecisionsOn(s)
      /\ DecisionsOn(r)' = {[request |-> r, admin |-> a, verdict |-> verdict]}
  BY <1>3, RecordOn
<1>5. StateOf[r] = "pending" /\ StateOf'[r] = status /\ a \notin RaisedBy[r]
  BY <1>1, <1>2 DEF StateOf, RaisedBy
<1>6. DecidedBy'[r] = {a}
  <2>. DEFINE d == [request |-> r, admin |-> a, verdict |-> verdict]
  <2>1. DecidedBy'[r] = {e.admin : e \in DecisionsOn(r)'}
    BY DEF DecidedBy
  <2>2. {e.admin : e \in {d}} = {d.admin}
    OBVIOUS
  <2>3. d.admin = a
    OBVIOUS
  <2>. QED  BY <1>4, <2>1, <2>2, <2>3
<1>7. RaisedBy' = RaisedBy
  BY <1>1, <1>2 DEF RaisedBy
<1>8. Contract!Decide(r, a, status)
  BY <1>1, <1>4, <1>5, <1>6, <1>7, RefineOthers DEF Contract!Decide
<1>. QED  BY <1>8 DEF Contract!FENext

LEMMA RefineApplyReject ==
    ASSUME TypeOK, DecisionsMatchStatus, NEW w \in Calls, Apply(w) \/ Reject(w)
    PROVE  Contract!FENext \/ UNCHANGED Contract!feVars
<1>1. PICK r \in Requests, a \in Admins, at \in Nat :
         /\ r = call[w].target /\ a = call[w].admin /\ at = call[w].at
         /\ requests[r] \in Request
  BY DecideCall DEF Apply, Reject
<1>2. CASE UNCHANGED <<requests, decisions>>
  BY <1>2, RefineQuiet
<1>3. ASSUME MayDecide(call[w]),
             NEW status \in {"applied", "rejected"}, NEW verdict, NEW count \in {0, 1},
             Resolve(r, status, count, at), Record(r, a, verdict)
      PROVE  Contract!FENext
  <2>1. requests[r].status = "pending" /\ requests[r].by # a
    BY <1>1, <1>3 DEF MayDecide, Open
  <2>. QED  BY <1>1, <1>3, <2>1, RefineDecide
<1>4. requests[r].count \in {0, 1}
  BY <1>1 DEF Request
<1>. QED  BY <1>1, <1>2, <1>3, <1>4 DEF Apply, Reject

LEMMA RefineExpire ==
    ASSUME TypeOK, NEW w \in Calls, Expire(w)
    PROVE  Contract!FENext \/ UNCHANGED Contract!feVars
<1>1. PICK r \in Requests, at \in Nat :
         r = call[w].target /\ at = call[w].at /\ requests[r] \in Request
  BY DecideCall DEF Expire
<1>2. CASE UNCHANGED <<requests, decisions>>
  BY <1>2, RefineQuiet
<1>3. CASE PastDue(requests[r], at) /\ Resolve(r, "expired", requests[r].count, at)
  <2>1. requests[r].count \in {0, 1} /\ requests[r] # None
    BY <1>1, ConstantsOK DEF Request
  <2>2. /\ requests'[r] # None /\ requests'[r].status = "expired"
        /\ requests'[r].by = requests[r].by
        /\ \A s \in Requests \ {r} : requests'[s] = requests[s]
    BY <1>1, <1>3, <2>1, ResolveFields DEF TypeOK, RequestStatuses
  <2>3. \A s \in Requests : DecisionsOn(s)' = DecisionsOn(s)
    BY DEF Expire, DecisionsOn
  <2>4. StateOf[r] \in {"pending", "approved"} /\ StateOf'[r] = "expired"
    BY <1>3, <2>1, <2>2 DEF StateOf, PastDue
  <2>5. RaisedBy' = RaisedBy /\ DecidedBy' = DecidedBy
    BY <2>1, <2>2, <2>3 DEF RaisedBy, DecidedBy
  <2>6. Contract!Lapse(r)
    BY <2>2, <2>3, <2>4, <2>5, RefineOthers DEF Contract!Lapse, Contract!Live
  <2>. QED  BY <2>6 DEF Contract!FENext
<1>. QED  BY <1>1, <1>2, <1>3 DEF Expire

(***************************************************************************)
(* The approval workflow of handles implements the four-eyes contract:     *)
(* every request is decided at most once, by an administrator other than   *)
(* the one who raised it, and stays as it was decided.                     *)
(***************************************************************************)
THEOREM ImplementsFourEyes == Spec => FourEyesContract
<1>1. Init => Contract!FEInit
  BY DEF Init, Contract!FEInit, StateOf, RaisedBy, DecidedBy, DecisionsOn
<1>2. TypeOK /\ DecisionsMatchStatus /\ [Next]_vars => [Contract!FENext]_(Contract!feVars)
  <2>. SUFFICES ASSUME TypeOK, DecisionsMatchStatus, [Next]_vars
                PROVE  Contract!FENext \/ UNCHANGED Contract!feVars
    OBVIOUS
  <2>1. CASE Tick \/ UNCHANGED vars
    BY <2>1, RefineQuiet DEF Tick, vars, dbVars
  <2>2. ASSUME NEW w \in Calls,
               \/ Arrive(w) \/ ReadHandle(w) \/ Judge(w) \/ FindExact(w) \/ ReadCurrent(w)
               \/ DirectWrite(w) \/ ReadBack(w) \/ ReadCreator(w) \/ UpdateCreator(w)
               \/ AppendAudit(w) \/ LoadRequest(w) \/ Fail(w)
        PROVE  UNCHANGED Contract!feVars
    BY <2>2, QuietRequests, RefineQuiet
  <2>. QED
    BY <2>1, <2>2, RefineRequest, RefineApplyReject, RefineExpire DEF Next
<1>. QED
  BY <1>1, <1>2, TypeCorrect, DecisionsSafe, PTL DEF Spec, FourEyesContract, Contract!FESpec
-----------------------------------------------------------------------------
(***************************************************************************)
(* Names.  A write keeps names unique if its row has no other row's name.  *)
(***************************************************************************)
LEMMA NamesWrite ==
    ASSUME StoreOK, NameHasOneRow, NEW h \in Handles, NEW row \in Row, NEW at,
           Write(h, row, at), ~Taken(row.name, h)
    PROVE  NameHasOneRow'
<1>1. handles'[h] = row /\ \A k \in Handles \ {h} : handles'[k] = handles[k]
  BY DEF Write, StoreOK
<1>. QED  BY <1>1 DEF NameHasOneRow, Taken

LEMMA NamesDirectWrite ==
    ASSUME TypeOK, NameHasOneRow, NEW w \in Calls, DirectWrite(w)
    PROVE  NameHasOneRow'
<1>1. CallOK(call[w], pc[w]) /\ pc[w] \in {"insert", "update", "status"}
  BY DEF TypeOK, CallsOK, DirectWrite, Insert, Update, WriteStatus
<1>2. call[w].target \in Handles /\ call[w].stamp \in Nat
  BY <1>1 DEF CallOK, Call, Passes
<1>3. CASE Insert(w)
  <2>1. call[w].body \in Content
    BY <1>1, <1>3 DEF Insert, CallOK, Passes
  <2>2. /\ Stored(call[w].body, call[w].stamp) \in Row
        /\ Stored(call[w].body, call[w].stamp).name = call[w].body.name
    BY <1>2, <2>1, StoredType DEF Stored
  <2>3. CASE handles' = handles
    BY <2>3 DEF NameHasOneRow, Taken
  <2>. QED  BY <1>2, <1>3, <2>2, <2>3, NamesWrite DEF Insert, TypeOK
<1>4. CASE Update(w)
  <2>. DEFINE m   == [call[w].merged EXCEPT !.status = handles[call[w].target].status]
              row == Stored(m, call[w].stamp)
  <2>1. call[w].merged \in Content /\ handles[call[w].target] \in Row
    BY <1>1, <1>2, <1>4 DEF Update, CallOK, Passes, TypeOK, StoreOK
  <2>2. m \in Content
    BY <2>1 DEF Content, Row
  <2>3. row \in Row
    BY <1>2, <2>2, StoredType
  <2>4. CASE handles' = handles
    BY <2>4 DEF NameHasOneRow, Taken
  <2>5. CASE ~Taken(row.name, call[w].target) /\ Write(call[w].target, row, call[w].stamp)
    BY <1>2, <2>3, <2>5, NamesWrite DEF TypeOK
  <2>. QED  BY <1>4, <2>4, <2>5 DEF Update
<1>5. CASE WriteStatus(w)
  <2>. DEFINE old == handles[call[w].target]
              row == [old EXCEPT !.status = call[w].body.status, !.rev = call[w].stamp]
  <2>1. call[w].body.status \in Statuses /\ old \in Row /\ old # None
    BY <1>1, <1>2, <1>5 DEF WriteStatus, CallOK, Passes, TypeOK, StoreOK, Patch
  <2>2. row \in Row /\ row.name = old.name
    BY <1>2, <2>1 DEF Row
  <2>3. ~Taken(row.name, call[w].target)
    BY <1>2, <2>1, <2>2 DEF NameHasOneRow
  <2>4. Write(call[w].target, row, call[w].stamp)
    BY <1>5 DEF WriteStatus
  <2>. QED  BY <1>2, <2>2, <2>3, <2>4, NamesWrite DEF TypeOK
<1>. QED  BY <1>3, <1>4, <1>5 DEF DirectWrite

LEMMA NamesApply ==
    ASSUME TypeOK, NameHasOneRow, NEW w \in Calls, Apply(w)
    PROVE  NameHasOneRow'
<1>. DEFINE c == call[w]
            q == requests[c.target]
<1>1. c.at \in Nat /\ q \in Request
  BY DecideCall DEF Apply
<1>2. q.handle \in Handles /\ Stored(q.payload, c.at) \in Row
  BY <1>1, StoredType DEF Request
<1>3. Stored(q.payload, c.at).name = q.payload.name
  BY DEF Stored
<1>4. CASE handles' = handles
  BY <1>4 DEF NameHasOneRow, Taken
<1>5. CASE ~Taken(q.payload.name, q.handle) /\ Write(q.handle, Stored(q.payload, c.at), c.at)
  BY <1>2, <1>3, <1>5, NamesWrite DEF TypeOK
<1>. QED  BY <1>4, <1>5 DEF Apply, Applicable

(* The steps that write no handle row.                                     *)
LEMMA QuietHandles ==
    ASSUME NEW w \in Calls,
           \/ Arrive(w) \/ ReadHandle(w) \/ Judge(w) \/ FindExact(w) \/ RequestApproval(w)
           \/ ReadCurrent(w) \/ ReadBack(w) \/ ReadCreator(w) \/ UpdateCreator(w)
           \/ AppendAudit(w) \/ LoadRequest(w) \/ Reject(w) \/ Expire(w) \/ Fail(w)
    PROVE  handles' = handles
  BY DEF Arrive, ArriveCreate, ArriveChange, ArriveCreator, ArriveDecision, ReadHandle,
         Judge, FindExact, RequestApproval, ReadCurrent, ReadBack, ReadCreator, UpdateCreator,
         AppendAudit, LoadRequest, Reject, Expire, Fail, dbVars

(***************************************************************************)
(* A normalised name belongs to one row, whatever creations, renames and   *)
(* approvals race.                                                         *)
(***************************************************************************)
THEOREM NamesUnique == Spec => []NameHasOneRow
<1>1. Init => NameHasOneRow
  BY ConstantsOK DEF Init, NameHasOneRow, Taken
<1>2. TypeOK /\ NameHasOneRow /\ [Next]_vars => NameHasOneRow'
  <2>. SUFFICES ASSUME TypeOK, NameHasOneRow, [Next]_vars PROVE NameHasOneRow'
    OBVIOUS
  <2>1. CASE handles' = handles
    BY <2>1 DEF NameHasOneRow, Taken
  <2>2. Tick \/ UNCHANGED vars => handles' = handles
    BY DEF Tick, vars, dbVars
  <2>. QED
    BY <2>1, <2>2, QuietHandles, NamesDirectWrite, NamesApply DEF Next
<1>. QED  BY <1>1, <1>2, TypeCorrect, PTL DEF Spec
-----------------------------------------------------------------------------
(***************************************************************************)
(* Unapproved changes.  A call that writes directly has judged its change  *)
(* not to be critical.                                                     *)
(***************************************************************************)
ChoseDirect(w) ==
    pc[w] \in {"insert", "current", "update", "readback", "status"} => ~IsCritical(call[w])

DirectJudged == \A w \in Calls : ChoseDirect(w)

LEMMA JudgedMove ==
    ASSUME TypeOK, DirectJudged, NEW w \in Calls, NEW p, NEW c, Goto(w, p, c),
           p \in {"insert", "current", "update", "readback", "status"} => ~IsCritical(c)
    PROVE  DirectJudged'
<1>. SUFFICES ASSUME NEW v \in Calls PROVE ChoseDirect(v)'
  BY DEF DirectJudged
<1>1. CASE v = w
  BY <1>1 DEF Goto, TypeOK, ChoseDirect, IsCritical, Proposal
<1>2. CASE v # w
  BY <1>2 DEF Goto, TypeOK, DirectJudged, ChoseDirect, IsCritical, Proposal
<1>. QED  BY <1>1, <1>2

LEMMA JudgedChoose ==
    ASSUME TypeOK, DirectJudged, NEW w \in Calls, NEW c \in Call, Choose(w, c)
    PROVE  DirectJudged'
<1>. DEFINE d == [c EXCEPT !.stamp = clock]
<1>1. CASE Goto(w, "request", c) \/ Finish(w)
  BY <1>1, JudgedMove DEF Finish
<1>2. CASE ~IsCritical(c) /\ Goto(w, DirectPoint(c.op), d)
  <2>1. d.tier = c.tier /\ d.body = c.body /\ d.seen = c.seen
    BY DEF Call
  <2>2. ~IsCritical(d)
    BY <1>2, <2>1 DEF IsCritical, Proposal
  <2>. QED  BY <1>2, <2>2, JudgedMove
<1>. QED  BY <1>1, <1>2 DEF Choose

LEMMA JudgedStep ==
    ASSUME TypeOK, DirectJudged, [Next]_vars
    PROVE  DirectJudged'
<1>1. ASSUME NEW v \in Calls, Judge(v) \/ FindExact(v) PROVE DirectJudged'
  <2>1. CallOK(call[v], pc[v]) /\ pc[v] \in {"judge", "exact"}
    BY <1>1 DEF TypeOK, CallsOK, Judge, FindExact
  <2>2. call[v].op \in {"create", "patch", "status"} /\ call[v] \in Call
    BY <2>1 DEF CallOK, Passes
  <2>3. CASE FindExact(v)
    BY <2>2, <2>3, JudgedChoose, JudgedMove DEF FindExact, Finish
  <2>4. CASE Judge(v)
    <3>. DEFINE d == [call[v] EXCEPT !.tier = tier[Proposal(call[v]).creator]]
    <3>1. Proposal(call[v]).creator \in Creators
      BY <2>1, <2>2, ProposalType DEF Content
    <3>2. d \in Call
      BY <2>2, <3>1 DEF Call, TypeOK, StoreOK
    <3>. QED  BY <2>4, <3>2, JudgedChoose, JudgedMove DEF Judge
  <2>. QED  BY <1>1, <2>3, <2>4
<1>2. ASSUME NEW v \in Calls, ReadCurrent(v) \/ Update(v) \/ ReadBack(v) PROVE DirectJudged'
  <2>1. CallOK(call[v], pc[v]) /\ pc[v] \in {"current", "update", "readback"}
    BY <1>2 DEF TypeOK, CallsOK, ReadCurrent, Update, ReadBack
  <2>2. call[v] \in Call /\ ~IsCritical(call[v])
    BY <2>1 DEF CallOK, DirectJudged, ChoseDirect
  <2>3. CASE ReadCurrent(v)
    <3>. DEFINE d == [call[v] EXCEPT
                        !.merged = Merge(call[v].body, handles[call[v].target]), !.stamp = clock]
    <3>1. d.tier = call[v].tier /\ d.body = call[v].body /\ d.seen = call[v].seen
      BY <2>2 DEF Call
    <3>2. ~IsCritical(d)
      BY <2>2, <3>1 DEF IsCritical, Proposal
    <3>. QED  BY <2>3, <3>2, JudgedMove DEF ReadCurrent
  <2>4. CASE Update(v)
    BY <2>2, <2>4, JudgedMove DEF Update, Finish
  <2>5. CASE ReadBack(v)
    <3>. DEFINE d == [call[v] EXCEPT !.stamp = clock]
    <3>1. d.tier = call[v].tier /\ d.body = call[v].body /\ d.seen = call[v].seen
      BY <2>2 DEF Call
    <3>2. ~IsCritical(d)
      BY <2>2, <3>1 DEF IsCritical, Proposal
    <3>. QED  BY <2>5, <3>2, JudgedMove DEF ReadBack, ToAudit
  <2>. QED  BY <1>2, <2>3, <2>4, <2>5
<1>3. ASSUME NEW v \in Calls,
             \/ Arrive(v) \/ ReadHandle(v) \/ RequestApproval(v) \/ Insert(v) \/ WriteStatus(v)
             \/ ReadCreator(v) \/ UpdateCreator(v) \/ AppendAudit(v) \/ LoadRequest(v)
             \/ Apply(v) \/ Reject(v) \/ Expire(v) \/ Fail(v)
      PROVE  DirectJudged'
  <2>1. \E p, c : Goto(v, p, c) /\ p \notin {"insert", "current", "update", "readback", "status"}
    BY <1>3 DEF Arrive, ArriveCreate, ArriveChange, ArriveCreator, ArriveDecision, ReadHandle,
         RequestApproval, Insert, WriteStatus, ReadCreator, UpdateCreator, AppendAudit,
         LoadRequest, Apply, Reject, Expire, Fail, Finish, ToAudit
  <2>. QED  BY <2>1, JudgedMove
<1>4. CASE Tick \/ UNCHANGED vars
  BY <1>4 DEF Tick, vars, DirectJudged, ChoseDirect, IsCritical, Proposal
<1>. QED  BY <1>1, <1>2, <1>3, <1>4 DEF Next, DirectWrite

(***************************************************************************)
(* A change that was not judged critical leaves an unprotected row as it   *)
(* keeps the owner and what it was judged on still holds.                  *)
(***************************************************************************)
LEMMA UncriticalUnprotected ==
    ASSUME NEW c, ~IsCritical(c), c.tier = tier[Proposal(c).creator]
    PROVE  /\ \A row : row.class = Proposal(c).class /\ row.creator = Proposal(c).creator
                          => ~Protected(row)
           /\ c.seen # None /\ ~HandsOver(c) => ~Protected(c.seen)
<1>1. c.tier = "critical" => Proposal(c).class # "hard_reserved"
  BY DEF IsCritical
<1>2. c.seen # None /\ c.tier = "critical" => c.seen.class # "hard_reserved"
  BY DEF IsCritical
<1>3. c.seen # None /\ ~HandsOver(c) => Proposal(c).creator = c.seen.creator
  BY DEF HandsOver, Proposal, Merge, Or
<1>. QED  BY <1>1, <1>2, <1>3 DEF Protected

LEMMA DirectExplained ==
    ASSUME TypeOK, DirectJudged, NEW w \in Calls, DirectWrite(w),
           NEW h \in Handles, handles'[h] # handles[h],
           ~Overtaken(w), ~HandsOver(call[w])
    PROVE  ~Protected(handles[h]) /\ ~Protected(handles'[h]) /\ call[w].target = h
<1>. DEFINE c    == call[w]
            goal == Proposal(c)
            row  == handles[c.target]
<1>1. CallOK(c, pc[w]) /\ pc[w] \in {"insert", "update", "status"}
  BY DEF TypeOK, CallsOK, DirectWrite, Insert, Update, WriteStatus
<1>2. c.target \in Handles /\ c \in Call
  BY <1>1 DEF CallOK, Passes
<1>3. c.tier = tier[goal.creator]
  BY DEF Overtaken
<1>4. ASSUME NEW new, Write(c.target, new, c.stamp)
      PROVE  c.target = h /\ handles'[h] = new
  BY <1>2, <1>4 DEF Write, TypeOK, StoreOK
<1>5. CASE Insert(w)
  <2>1. c.op = "create" /\ c.seen = None /\ ~IsCritical(c) /\ goal = c.body
    BY <1>1, <1>5 DEF Insert, CallOK, Passes, DirectJudged, ChoseDirect, Proposal
  <2>2. row = None
    BY <2>1 DEF Overtaken
  <2>3. Write(c.target, Stored(c.body, c.stamp), c.stamp)
    BY <1>5 DEF Insert
  <2>4. ~Protected(Stored(c.body, c.stamp))
    BY <1>3, <2>1, UncriticalUnprotected DEF Stored
  <2>. QED  BY <1>4, <2>2, <2>3, <2>4 DEF Protected
<1>6. CASE Update(w)
  <2>. DEFINE new == Stored([c.merged EXCEPT !.status = row.status], c.stamp)
  <2>1. c.op = "patch" /\ pc[w] = "update" /\ c.seen # None /\ ~IsCritical(c)
    BY <1>1, <1>6 DEF Update, CallOK, Passes, DirectJudged, ChoseDirect
  <2>2. row = c.seen /\ c.merged = goal /\ goal \in Content
    BY <1>1, <2>1 DEF Overtaken, CallOK
  <2>3. Write(c.target, new, c.stamp)
    BY <1>6 DEF Update
  <2>4. new.class = goal.class /\ new.creator = goal.creator
    BY <2>2 DEF Stored, Content
  <2>. QED  BY <1>3, <1>4, <2>1, <2>2, <2>3, <2>4, UncriticalUnprotected
<1>7. CASE WriteStatus(w)
  <2>. DEFINE new == [row EXCEPT !.status = c.body.status, !.rev = c.stamp]
  <2>1. /\ c.op \in {"patch", "status"} /\ pc[w] = "status" /\ c.seen # None
        /\ ~IsCritical(c) /\ row # None
    BY <1>1, <1>7 DEF WriteStatus, CallOK, Passes, DirectJudged, ChoseDirect
  <2>2. row \in Row
    BY <1>2, <2>1 DEF TypeOK, StoreOK
  <2>3. Write(c.target, new, c.stamp)
    BY <1>7 DEF WriteStatus
  <2>4. new.class = row.class /\ new.creator = row.creator
    BY <2>2 DEF Row
  <2>5. ~Protected(row)
    <3>1. CASE c.op = "status"
      <4>1. row = c.seen
        BY <3>1 DEF Overtaken
      <4>. QED  BY <1>3, <2>1, <4>1, UncriticalUnprotected
    <3>2. CASE c.op = "patch"
      <4>1. [row EXCEPT !.status = goal.status] = Stored(goal, row.rev)
        BY <2>1, <3>2 DEF Overtaken
      <4>2. row.class = goal.class /\ row.creator = goal.creator
        BY <2>2, <4>1 DEF Stored, Row
      <4>. QED  BY <1>3, <2>1, <4>2, UncriticalUnprotected
    <3>. QED  BY <2>1, <3>1, <3>2
  <2>6. ~Protected(new)
    BY <2>1, <2>4, <2>5 DEF Protected
  <2>. QED  BY <1>4, <2>3, <2>5, <2>6
<1>. QED  BY <1>5, <1>6, <1>7 DEF DirectWrite

(***************************************************************************)
(* A hard-reserved handle of a critical creator changes without approval   *)
(* only when a PATCH hands it to another creator, or when the call that    *)
(* writes was overtaken after it chose to write directly.                  *)
(***************************************************************************)
THEOREM UnapprovedExplained == Spec => UnapprovedChangeExplained
<1>1. Init => DirectJudged
  BY DEF Init, DirectJudged, ChoseDirect
<1>2. TypeOK /\ DirectJudged /\ [Next]_vars => DirectJudged'
  BY JudgedStep
<1>3. TypeOK /\ DirectJudged /\ [Next]_vars => ChangeExplained
  <2>. SUFFICES ASSUME TypeOK, DirectJudged, [Next]_vars,
                       NEW h \in Handles, ChangesUnapproved(h)
                PROVE  \E w \in Calls :
                          /\ pc[w] \in {"insert", "update", "status"} /\ pc'[w] # pc[w]
                          /\ call[w].target = h
                          /\ Overtaken(w) \/ HandsOver(call[w])
    BY DEF ChangeExplained
  <2>1. handles'[h] # handles[h] /\ (Protected(handles[h]) \/ Protected(handles'[h]))
    BY DEF ChangesUnapproved
  <2>2. ASSUME NEW w \in Calls, Apply(w) PROVE FALSE
    <3>1. PICK r \in Requests, row \in Row :
             /\ requests[r] \in Request /\ requests[r].handle \in Handles
             /\ requests[r].status = "pending"
             /\ Write(requests[r].handle, row, row.rev)
             /\ Resolve(r, "applied", 1, row.rev)
      BY <2>1, <2>2, ApplySteps
    <3>2. requests'[r].status = "applied" /\ requests[r] # None
      BY <3>1, ResolveFields, ConstantsOK DEF TypeOK, RequestStatuses, Row
    <3>3. requests[r].handle = h
      BY <2>1, <3>1 DEF Write, TypeOK, StoreOK
    <3>. QED  BY <3>1, <3>2, <3>3 DEF ChangesUnapproved, BecomesApplied
  <2>3. PICK w \in Calls : DirectWrite(w)
    BY <2>1, <2>2, QuietHandles DEF Next, Tick, vars, dbVars
  <2>4. pc[w] \in {"insert", "update", "status"} /\ pc'[w] # pc[w]
    BY <2>3 DEF DirectWrite, Insert, Update, WriteStatus, Finish, ToAudit, Goto, TypeOK
  <2>5. call[w].target = h
    <3>1. \E row : Write(call[w].target, row, call[w].stamp)
      BY <2>1, <2>3 DEF DirectWrite, Insert, Update, WriteStatus
    <3>. QED  BY <2>1, <3>1 DEF Write, TypeOK, StoreOK
  <2>. QED  BY <2>1, <2>3, <2>4, <2>5, DirectExplained
<1>. QED  BY <1>1, <1>2, <1>3, TypeCorrect, PTL DEF Spec, UnapprovedChangeExplained
-----------------------------------------------------------------------------
(***************************************************************************)
(* What the contract comes to: no step leaves an outcome.                  *)
(***************************************************************************)
LEMMA OutcomeStays ==
    ASSUME [Contract!FENext]_(Contract!feVars)
    PROVE  \A r \in Requests : StateOf[r] \in Contract!Resolved => StateOf'[r] = StateOf[r]
<1>1. ASSUME NEW r \in Requests, NEW outcome,
             StateOf[r] \notin Contract!Resolved, StateOf' = [StateOf EXCEPT ![r] = outcome]
      PROVE  \A s \in Requests : StateOf[s] \in Contract!Resolved => StateOf'[s] = StateOf[s]
  BY <1>1 DEF StateOf
<1>2. ASSUME NEW r \in Requests, NEW a \in Admins, Contract!Raise(r, a)
      PROVE  \A s \in Requests : StateOf[s] \in Contract!Resolved => StateOf'[s] = StateOf[s]
  BY <1>1, <1>2 DEF Contract!Raise, Contract!Resolved
<1>3. ASSUME NEW r \in Requests, NEW a \in Admins, NEW outcome \in {"approved", "applied", "rejected"},
             Contract!Decide(r, a, outcome)
      PROVE  \A s \in Requests : StateOf[s] \in Contract!Resolved => StateOf'[s] = StateOf[s]
  BY <1>1, <1>3 DEF Contract!Decide, Contract!Resolved
<1>4. ASSUME NEW r \in Requests, Contract!PutIntoEffect(r) \/ Contract!Lapse(r)
      PROVE  \A s \in Requests : StateOf[s] \in Contract!Resolved => StateOf'[s] = StateOf[s]
  BY <1>1, <1>4 DEF Contract!PutIntoEffect, Contract!Lapse, Contract!Live, Contract!Resolved
<1>5. CASE UNCHANGED Contract!feVars
  BY <1>5 DEF Contract!feVars
<1>. QED
  BY <1>2, <1>3, <1>4, <1>5 DEF Contract!FENext

(* A request that was applied, was rejected or has expired stays so,       *)
(* whatever approvals, rejections and expiries of it are still under way.  *)
THEOREM OutcomesAreFinal ==
    Spec => [][\A r \in Requests :
                  requests[r] # None /\ requests[r].status \in {"applied", "rejected", "expired"} =>
                     requests'[r] # None /\ requests'[r].status = requests[r].status]_vars
<1>. DEFINE Final ==
        \A r \in Requests :
            requests[r] # None /\ requests[r].status \in {"applied", "rejected", "expired"} =>
               requests'[r] # None /\ requests'[r].status = requests[r].status
<1>1. [Contract!FENext]_(Contract!feVars) => Final
  <2>. SUFFICES ASSUME [Contract!FENext]_(Contract!feVars) PROVE Final
    OBVIOUS
  <2>1. \A r \in Requests : StateOf[r] \in Contract!Resolved => StateOf'[r] = StateOf[r]
    BY OutcomeStays
  <2>. QED
    BY <2>1 DEF StateOf, Contract!Resolved
<1>. HIDE DEF Final
<1>2. Spec => [][Final]_vars
  BY <1>1, ImplementsFourEyes, PTL DEF FourEyesContract, Contract!FESpec
<1>. QED
  BY <1>2 DEF Final
=============================================================================

--------------------- MODULE ReleasePublication_proofs ---------------------
(***************************************************************************)
(* What ReleasePublication guarantees for any number of administrators,    *)
(* releases, requests and calls.                                           *)
(***************************************************************************)
EXTENDS ReleasePublication, TLAPS

(* No step removes a release or a request.                                 *)
RowsStay ==
    /\ \A r \in Releases : releases[r] # None => releases'[r] # None
    /\ \A q \in Requests : requests[q] # None => requests'[q] # None

(* A step that moves one call leaves every call well-formed.               *)
LEMMA MoveCall ==
    ASSUME CallsOK, pc \in [Calls -> Points], call \in [Calls -> Call \cup {None}],
           NEW w \in Calls, NEW p \in Points, NEW c,
           Goto(w, p, c), RowsStay,
           IF p = "idle" THEN c = None ELSE CallOK(c, p)
    PROVE  /\ pc' \in [Calls -> Points] /\ call' \in [Calls -> Call \cup {None}]
           /\ CallsOK'
<1>1. c \in Call \cup {None}
  BY DEF CallOK
<1>2. pc' \in [Calls -> Points] /\ call' \in [Calls -> Call \cup {None}]
  BY <1>1 DEF Goto
<1>3. ASSUME NEW v \in Calls, pc'[v] # "idle"
      PROVE  CallOK(call[v], pc[v])'
  <2>1. CASE v = w
    <3>1. pc'[v] = p /\ call'[v] = c /\ CallOK(c, p)
      BY <2>1, <1>3 DEF Goto
    <3>2. c.request \in Requests \cup {None}
      BY <3>1 DEF CallOK, Call
    <3>. QED  BY <3>1, <3>2 DEF CallOK, RowsStay
  <2>2. CASE v # w
    <3>1. pc'[v] = pc[v] /\ call'[v] = call[v] /\ CallOK(call[v], pc[v])
      BY <2>2, <1>3 DEF Goto, CallsOK
    <3>2. call[v].request \in Requests \cup {None}
      BY <3>1 DEF CallOK, Call
    <3>. QED  BY <3>1, <3>2 DEF CallOK, RowsStay
  <2>. QED  BY <2>1, <2>2
<1>. QED  BY <1>2, <1>3 DEF CallsOK

(* A call ends.                                                            *)
LEMMA EndCall ==
    ASSUME CallsOK, pc \in [Calls -> Points], call \in [Calls -> Call \cup {None}],
           NEW w \in Calls, Finish(w), RowsStay
    PROVE  /\ pc' \in [Calls -> Points] /\ call' \in [Calls -> Call \cup {None}]
           /\ CallsOK'
  BY MoveCall DEF Finish, Points

(* Initially nothing is under way, and what is there is a draft.           *)
LEMMA TypeInit == Init => TypeOK
<1>. SUFFICES ASSUME Init PROVE TypeOK
  OBVIOUS
<1>1. ASSUME NEW r \in Releases
      PROVE  /\ StartReleases[r] \in Release \cup {None}
             /\ StartReleases[r] # None => StartReleases[r].checksum \in Checksum \cup {None}
  BY ConstantsOK DEF Release, ReleaseStatuses
<1>2. releases \in [Releases -> Release \cup {None}]
  BY <1>1, ConstantsOK DEF Init
<1>3. snapshots \in [Releases -> Checksum \cup {None}]
  BY <1>1 DEF Init
<1>4. StoreOK
  BY <1>2, <1>3 DEF Init, StoreOK, Checksum
<1>5. CallsOK /\ pc \in [Calls -> Points] /\ call \in [Calls -> Call \cup {None}]
  BY DEF Init, CallsOK, Points
<1>6. ReferencesOK
  BY <1>2, ConstantsOK DEF Init, ReferencesOK, Points
<1>. QED  BY <1>4, <1>5, <1>6 DEF Init, TypeOK, Typed

(* A step that moves one call and leaves the tables alone.                 *)
LEMMA TypeMove ==
    ASSUME Typed, NEW w \in Calls, NEW p \in Points, NEW c,
           Goto(w, p, c), UNCHANGED <<clock, dbVars>>, arrived' \in Nat,
           IF p = "idle" THEN c = None ELSE CallOK(c, p)
    PROVE  Typed'
<1>1. RowsStay /\ StoreOK'
  BY DEF Typed, StoreOK, dbVars, RowsStay
<1>. QED  BY <1>1, MoveCall DEF Typed, dbVars

(* The same for a call that ends.                                          *)
LEMMA TypeEnd ==
    ASSUME Typed, NEW w \in Calls, Finish(w), UNCHANGED <<clock, dbVars>>, arrived' \in Nat
    PROVE  Typed'
  BY TypeMove DEF Finish, Points

(* A call starts with no local variables but its revision.                 *)
LEMMA NewCallType ==
    ASSUME clock \in Nat, NEW op \in Routes, NEW a \in Admins,
           NEW t \in Releases \cup Requests, NEW stamp \in Nat
    PROVE  /\ NewCall(op, a, t, stamp) \in Call
           /\ NewCall(op, a, t, stamp).op = op /\ NewCall(op, a, t, stamp).target = t
  BY DEF NewCall, Call, Blank, Mark

LEMMA ArriveReleaseType ==
    ASSUME Typed, NEW w \in Calls, ArriveRelease(w)
    PROVE  Typed'
<1>1. PICK op \in Operations \ ByRequest, a \in Admins, r \in Releases :
         /\ IF op = "create" THEN Unused(r) ELSE releases[r] # None
         /\ Goto(w, FirstPoint(op), NewCall(op, a, r, 0))
  BY DEF ArriveRelease
<1>. DEFINE c == NewCall(op, a, r, 0)
<1>2. op \in Routes
  BY ConstantsOK
<1>3. c \in Call /\ c.op = op /\ c.target = r
  BY <1>2, NewCallType DEF Typed
<1>4. FirstPoint(op) \in Points \ {"idle"} /\ Passes(op, FirstPoint(op))
  BY <1>2 DEF FirstPoint, Points, Passes, Routes, ByRequest
<1>5. /\ FirstPoint(op) = "insert" <=> op = "create"
      /\ FirstPoint(op) \in {"insert", "draft", "release", "withdraw", "choose"}
  BY <1>2 DEF FirstPoint, Routes, ByRequest
<1>6. CallOK(c, FirstPoint(op))
  <2>. HIDE DEF c
  <2>. QED  BY <1>1, <1>3, <1>4, <1>5 DEF CallOK
<1>7. Goto(w, FirstPoint(op), c) /\ arrived' \in Nat /\ UNCHANGED <<clock, dbVars>>
  BY <1>1 DEF ArriveRelease, Accept, Typed
<1>. HIDE DEF c
<1>. QED  BY <1>4, <1>6, <1>7, TypeMove

LEMMA ArriveDecisionType ==
    ASSUME Typed, NEW w \in Calls, ArriveDecision(w)
    PROVE  Typed'
<1>1. PICK op \in Operations \cap ByRequest, a \in Admins, q \in Requests :
         /\ requests[q] # None
         /\ Goto(w, "load", NewCall(op, a, q, requests[q].updated))
  BY DEF ArriveDecision
<1>. DEFINE c == NewCall(op, a, q, requests[q].updated)
<1>2. op \in Routes /\ requests[q].updated \in Nat
  BY <1>1, ConstantsOK DEF Typed, StoreOK, Request
<1>3. c \in Call /\ c.op = op /\ c.target = q
  BY <1>2, NewCallType DEF Typed
<1>4. Goto(w, "load", c) /\ arrived' \in Nat /\ UNCHANGED <<clock, dbVars>>
  BY <1>1 DEF ArriveDecision, Accept, Typed
<1>. HIDE DEF c
<1>5. CallOK(c, "load")
  BY <1>1, <1>3 DEF CallOK, Passes, ByRequest
<1>. QED  BY <1>4, <1>5, TypeMove DEF Points

(***************************************************************************)
(* Drafts and their calculation.                                           *)
(***************************************************************************)
LEMMA CreateDraftType ==
    ASSUME Typed, NEW w \in Calls, CreateDraft(w)
    PROVE  Typed'
<1>. DEFINE c   == call[w]
            row == [status |-> "draft", checksum |-> None, updated |-> clock,
                    published |-> None]
<1>1. CallOK(c, "insert") /\ c.op = "create" /\ c.target \in Releases
  BY DEF Typed, CallsOK, CreateDraft, CallOK, Passes, ByRequest
<1>2. row \in Release /\ row # None
  <2>1. row \in Release
    BY DEF Typed, Release, ReleaseStatuses
  <2>. QED  BY <2>1, ConstantsOK
<1>. HIDE DEF row
<1>3. releases' = [releases EXCEPT ![c.target] = row]
  BY DEF CreateDraft, row
<1>4. StoreOK' /\ RowsStay /\ releases'[c.target] # None
  BY <1>1, <1>2, <1>3 DEF CreateDraft, Typed, StoreOK, RowsStay
<1>5. pc' \in [Calls -> Points] /\ call' \in [Calls -> Call \cup {None}]
  BY <1>1 DEF CreateDraft, Typed, Goto, Points, CallOK
<1>6. ASSUME NEW v \in Calls, pc'[v] # "idle"
      PROVE  CallOK(call[v], pc[v])'
  <2>1. CASE v = w
    <3>1. pc'[v] = "audit" /\ call'[v] = c
      BY <2>1 DEF CreateDraft, Goto, Typed
    <3>. QED  BY <1>1, <1>4, <3>1 DEF CallOK, Passes, ByRequest
  <2>2. CASE v # w
    <3>1. pc'[v] = pc[v] /\ call'[v] = call[v] /\ CallOK(call[v], pc[v])
      BY <2>2, <1>6 DEF CreateDraft, Goto, Typed, CallsOK
    <3>2. call[v].request \in Requests \cup {None}
      BY <3>1 DEF CallOK, Call
    <3>. QED  BY <1>4, <3>1, <3>2 DEF CallOK, RowsStay
  <2>. QED  BY <2>1, <2>2
<1>. QED  BY <1>4, <1>5, <1>6 DEF CreateDraft, Typed, CallsOK

LEMMA CheckDraftType ==
    ASSUME Typed, NEW w \in Calls, CheckDraft(w)
    PROVE  Typed'
<1>. DEFINE c   == call[w]
            row == releases[c.target]
<1>1. CallOK(c, "draft") /\ c.op = "calculate" /\ row \in Release
  BY DEF Typed, StoreOK, CallsOK, CheckDraft, CallOK, Passes, ByRequest
<1>2. CASE Finish(w)
  BY <1>2, TypeEnd DEF CheckDraft, Typed
<1>3. CASE Goto(w, "state", [c EXCEPT !.found = row])
  <2>1. CallOK([c EXCEPT !.found = row], "state")
    BY <1>1 DEF CallOK, Passes, Call
  <2>. QED  BY <1>3, <2>1, TypeMove DEF CheckDraft, Typed, Points
<1>. QED  BY <1>2, <1>3 DEF CheckDraft

LEMMA ReadStateType ==
    ASSUME Typed, NEW w \in Calls, ReadState(w)
    PROVE  Typed'
<1>1. CallOK(call[w], "state") /\ call[w].op = "calculate"
  BY DEF Typed, CallsOK, ReadState, CallOK, Passes, ByRequest
<1>2. PICK part \in {"creators", "handles"} :
         LET c == [call[w] EXCEPT !.mark[part] = registry[part]]
         IN  Goto(w, IF c.mark \in Checksum THEN "existing" ELSE "state", c)
  BY DEF ReadState
<1>. DEFINE c == [call[w] EXCEPT !.mark[part] = registry[part]]
            p == IF c.mark \in Checksum THEN "existing" ELSE "state"
<1>3. registry[part] \in Nat /\ call[w].mark \in Mark
  BY <1>1 DEF Typed, StoreOK, Checksum, CallOK, Call
<1>4. [call[w].mark EXCEPT ![part] = registry[part]] \in Mark
  BY <1>3 DEF Mark
<1>5. c \in Call /\ c.op = call[w].op /\ c.target = call[w].target
  BY <1>1, <1>4 DEF CallOK, Call
<1>. HIDE DEF c
<1>6. CallOK(c, p) /\ p \in Points \ {"idle"}
  BY <1>1, <1>5 DEF CallOK, Passes, Points
<1>7. Goto(w, p, c)
  BY <1>2 DEF c
<1>. HIDE DEF p
<1>. QED  BY <1>6, <1>7, TypeMove DEF ReadState, Typed

LEMMA FindExistingType ==
    ASSUME Typed, NEW w \in Calls, FindExisting(w)
    PROVE  Typed'
<1>. DEFINE c == [call[w] EXCEPT !.stamp = clock]
<1>1. CallOK(call[w], "existing")
  BY DEF Typed, CallsOK, FindExisting
<1>2. CallOK(c, "save")
  BY <1>1 DEF CallOK, Passes, Call, Typed
<1>. QED  BY <1>2, TypeMove DEF FindExisting, Typed, Points

(* A snapshot changes nothing but the checksum and the stamp of a draft.   *)
LEMMA StampedType ==
    ASSUME NEW row \in Release, NEW c \in Call, c.mark \in Checksum
    PROVE  /\ Stamped(row, c) \in Release
           /\ Stamped(row, c).status = row.status
           /\ Stamped(row, c).published = row.published
           /\ row.status # "draft" => Stamped(row, c) = row
  BY DEF Stamped, Release, Call

(* Where a call at "save" puts its snapshot.                               *)
LEMMA AtSave ==
    ASSUME Typed, NEW w \in Calls, SaveSnapshot(w)
    PROVE  /\ CallOK(call[w], "save") /\ call[w] \in Call /\ call[w].mark \in Checksum
           /\ call[w].target \in Releases /\ releases[call[w].target] \in Release
           /\ releases' = [releases EXCEPT ![call[w].target] =
                              Stamped(releases[call[w].target], call[w])]
  BY DEF Typed, StoreOK, CallsOK, SaveSnapshot, CallOK, Passes, ByRequest

LEMMA SaveSnapshotType ==
    ASSUME Typed, NEW w \in Calls, SaveSnapshot(w)
    PROVE  Typed'
<1>. DEFINE c   == call[w]
            row == Stamped(releases[c.target], c)
<1>1. /\ CallOK(c, "save") /\ c \in Call /\ c.mark \in Checksum
      /\ c.target \in Releases /\ releases[c.target] \in Release
      /\ releases' = [releases EXCEPT ![c.target] = row]
  BY AtSave
<1>2. row \in Release
  BY <1>1, StampedType
<1>3. row # None
  BY <1>2, ConstantsOK
<1>. HIDE DEF row
<1>4. c.admin \in Admins
  BY <1>1 DEF Call
<1>5. StoreOK' /\ RowsStay
  BY <1>1, <1>2, <1>3, <1>4 DEF SaveSnapshot, Typed, StoreOK, RowsStay, Log, AuditEntry
<1>. QED  BY <1>5, EndCall DEF SaveSnapshot, Typed

(***************************************************************************)
(* Requests to publish.                                                    *)
(***************************************************************************)
LEMMA ReadReleaseType ==
    ASSUME Typed, NEW w \in Calls, ReadRelease(w)
    PROVE  Typed'
<1>. DEFINE c == [call[w] EXCEPT !.found = releases[call[w].target]]
<1>1. CallOK(call[w], "release") /\ call[w].op = "request"
  BY DEF Typed, CallsOK, ReadRelease, CallOK, Passes, ByRequest
<1>2. releases[call[w].target] \in Release /\ releases[call[w].target] # None
  BY <1>1 DEF CallOK, ByRequest, Typed, StoreOK
<1>3. CallOK(c, "snapshot")
  BY <1>1, <1>2 DEF CallOK, Passes, Call
<1>. QED  BY <1>3, TypeMove DEF ReadRelease, Typed, Points

LEMMA ReadSnapshotType ==
    ASSUME Typed, NEW w \in Calls, ReadSnapshot(w)
    PROVE  Typed'
<1>. DEFINE held == snapshots[call[w].target]
            c    == [call[w] EXCEPT !.mark = held]
<1>1. CallOK(call[w], "snapshot") /\ call[w].op = "request"
  BY DEF Typed, CallsOK, ReadSnapshot, CallOK, Passes, ByRequest
<1>2. CASE Finish(w)
  BY <1>2, TypeEnd DEF ReadSnapshot, Typed
<1>3. CASE held # None /\ Goto(w, "raise", c)
  <2>1. held \in Checksum /\ held \in Mark
    BY <1>1, <1>3 DEF CallOK, ByRequest, Typed, StoreOK, Checksum, Mark
  <2>. HIDE DEF held
  <2>2. CallOK(c, "raise")
    BY <1>1, <2>1 DEF CallOK, Passes, Call
  <2>. QED  BY <1>3, <2>2, TypeMove DEF ReadSnapshot, Typed, Points
<1>. QED  BY <1>2, <1>3 DEF ReadSnapshot

LEMMA NewRequestType ==
    ASSUME NEW c, CallOK(c, "raise")
    PROVE  /\ NewRequest(c) \in Request /\ NewRequest(c) # None
           /\ NewRequest(c).status = "pending"
<1>1. c \in Call /\ c.target \in Releases /\ c.mark \in Checksum /\ c.found # None
  BY DEF CallOK, Passes, ByRequest
<1>2. c.found \in Release /\ c.at \in Nat /\ c.at + Lifetime \in Nat /\ c.admin \in Admins
  BY <1>1, ConstantsOK DEF Call
<1>3. NewRequest(c) \in Request /\ NewRequest(c).status = "pending"
  BY <1>1, <1>2 DEF NewRequest, Request, Release, RequestStatuses
<1>. QED  BY <1>3, ConstantsOK

LEMMA RaiseRequestType ==
    ASSUME Typed, NEW w \in Calls, RaiseRequest(w)
    PROVE  Typed'
<1>1. CallOK(call[w], "raise") /\ call[w].admin \in Admins
  BY DEF Typed, CallsOK, RaiseRequest, CallOK, Call
<1>2. PICK q \in Requests :
         /\ requests[q] = None
         /\ requests' = [requests EXCEPT ![q] = NewRequest(call[w])]
         /\ Log("requested", q, call[w].admin)
  BY DEF RaiseRequest
<1>3. NewRequest(call[w]) \in Request /\ NewRequest(call[w]) # None
  BY <1>1, NewRequestType
<1>4. StoreOK' /\ RowsStay
  BY <1>1, <1>2, <1>3 DEF RaiseRequest, Typed, StoreOK, RowsStay, Log, AuditEntry
<1>. QED  BY <1>4, EndCall DEF RaiseRequest, Typed

(***************************************************************************)
(* Decisions.                                                              *)
(***************************************************************************)
LEMMA ChooseType ==
    ASSUME Typed, NEW w \in Calls, Choose(w)
    PROVE  Typed'
<1>. DEFINE c      == call[w]
            status == IF c.op = "approve" THEN "pending" ELSE "approved"
            p      == IF c.op = "approve" THEN "decide" ELSE "publish"
<1>1. CallOK(c, "choose") /\ c.op \in {"approve", "publish"}
  BY DEF Typed, CallsOK, Choose, CallOK, Passes, ByRequest
<1>2. CASE Finish(w)
  BY <1>2, TypeEnd DEF Choose, Typed
<1>3. CASE \E q \in Newest(c.target, status) : Goto(w, p, [c EXCEPT !.request = q])
  <2>1. PICK q \in Newest(c.target, status) : Goto(w, p, [c EXCEPT !.request = q])
    BY <1>3
  <2>2. q \in Requests /\ requests[q] # None /\ q # None
    BY <2>1, ConstantsOK DEF Newest, Waiting
  <2>3. CallOK([c EXCEPT !.request = q], p)
    BY <1>1, <2>2 DEF CallOK, Passes, Call
  <2>. QED  BY <2>1, <2>3, TypeMove DEF Choose, Typed, Points
<1>. QED  BY <1>2, <1>3 DEF Choose

LEMMA LoadRequestType ==
    ASSUME Typed, NEW w \in Calls, LoadRequest(w)
    PROVE  Typed'
<1>. DEFINE c == [call[w] EXCEPT !.request = call[w].target,
                                 !.was = requests[call[w].target].status]
<1>1. CallOK(call[w], "load") /\ call[w].op \in ByRequest
  BY DEF Typed, CallsOK, LoadRequest, CallOK, Passes, ByRequest
<1>2. CASE Finish(w)
  BY <1>2, TypeEnd DEF LoadRequest, Typed
<1>3. CASE Goto(w, "decide", c)
  <2>1. /\ call[w].target \in Requests /\ requests[call[w].target] \in Request
        /\ requests[call[w].target] # None /\ call[w].target # None
    BY <1>1, ConstantsOK DEF CallOK, Typed, StoreOK
  <2>2. requests[call[w].target].status \in RequestStatuses
    BY <2>1 DEF Request
  <2>3. CallOK(c, "decide")
    BY <1>1, <2>1, <2>2 DEF CallOK, Passes, Call
  <2>. QED  BY <1>3, <2>3, TypeMove DEF LoadRequest, Typed, Points
<1>. QED  BY <1>2, <1>3 DEF LoadRequest

(* A call that decides or publishes has chosen a request.                  *)
LEMMA Chosen ==
    ASSUME Typed, NEW w \in Calls, pc[w] \in {"decide", "publish"}
    PROVE  /\ call[w] \in Call /\ call[w].admin \in Admins /\ call[w].at \in Nat
           /\ call[w].request \in Requests /\ requests[call[w].request] \in Request
<1>1. CallOK(call[w], pc[w])
  BY DEF Typed, CallsOK
<1>2. call[w] \in Call /\ call[w].request # None /\ requests[call[w].request] # None
  BY <1>1 DEF CallOK
<1>3. call[w].request \in Requests
  BY <1>2 DEF Call
<1>. QED  BY <1>2, <1>3 DEF Call, Typed, StoreOK

(* What resolving a request does to it and to the others.                  *)
LEMMA ResolveFields ==
    ASSUME StoreOK, NEW c \in Call, c.request \in Requests,
           requests[c.request] \in Request,
           NEW status \in RequestStatuses, Resolve(c, status)
    PROVE  /\ requests' \in [Requests -> Request \cup {None}]
           /\ \A q \in Requests : requests[q] # None => requests'[q] # None
           /\ \A q \in Requests \ {c.request} : requests'[q] = requests[q]
           /\ requests'[c.request] \in Request
           /\ requests'[c.request].status = status
           /\ requests'[c.request].release = requests[c.request].release
           /\ requests'[c.request].by = requests[c.request].by
           /\ requests'[c.request].checksum = requests[c.request].checksum
<1>. DEFINE old == requests[c.request]
            new == [old EXCEPT !.status = status, !.updated = c.at]
<1>1. c.at \in Nat
  BY DEF Call
<1>2. /\ new \in Request /\ new.status = status /\ new.release = old.release
      /\ new.by = old.by /\ new.checksum = old.checksum
  BY <1>1 DEF Request
<1>3. new # None
  BY <1>2, ConstantsOK
<1>4. requests' = [requests EXCEPT ![c.request] = new]
  BY DEF Resolve, StoreOK
<1>. HIDE DEF new
<1>. QED  BY <1>2, <1>3, <1>4 DEF StoreOK

LEMMA DecideType ==
    ASSUME Typed, NEW w \in Calls, NEW verdict \in {"approved", "rejected"},
           pc[w] = "decide", Decide(w, verdict)
    PROVE  Typed'
<1>. DEFINE c == call[w]
<1>1. c \in Call /\ c.admin \in Admins /\ c.request \in Requests /\ requests[c.request] \in Request
  BY Chosen
<1>2. CASE UNCHANGED <<decisions, requests, audit>>
  BY <1>2, TypeEnd DEF Decide, Typed, dbVars
<1>3. CASE /\ decisions' = decisions \cup
                 {[request |-> c.request, admin |-> c.admin, verdict |-> verdict]}
           /\ Resolve(c, verdict)
           /\ Log(verdict, c.request, c.admin)
  <2>1. verdict \in RequestStatuses
    BY DEF RequestStatuses
  <2>2. /\ requests' \in [Requests -> Request \cup {None}]
        /\ \A q \in Requests : requests[q] # None => requests'[q] # None
    BY <1>1, <1>3, <2>1, ResolveFields DEF Typed
  <2>3. decisions' \subseteq Decision /\ audit' \subseteq AuditEntry
    BY <1>1, <1>3 DEF Typed, StoreOK, Decision, Log, AuditEntry
  <2>4. StoreOK' /\ RowsStay
    BY <2>2, <2>3 DEF Decide, Typed, StoreOK, RowsStay
  <2>. QED  BY <2>4, EndCall DEF Decide, Typed
<1>. QED  BY <1>2, <1>3 DEF Decide

LEMMA ExpireType ==
    ASSUME Typed, NEW w \in Calls, Expire(w)
    PROVE  Typed'
<1>. DEFINE c == call[w]
<1>1. c \in Call /\ c.admin \in Admins /\ c.request \in Requests /\ requests[c.request] \in Request
  BY Chosen DEF Expire
<1>2. CASE UNCHANGED <<requests, audit>>
  BY <1>2, TypeEnd DEF Expire, Typed, dbVars
<1>3. CASE Resolve(c, "expired") /\ Log("expired", c.request, c.admin)
  <2>1. /\ requests' \in [Requests -> Request \cup {None}]
        /\ \A q \in Requests : requests[q] # None => requests'[q] # None
    BY <1>1, <1>3, ResolveFields DEF Typed, RequestStatuses
  <2>2. audit' \subseteq AuditEntry
    BY <1>1, <1>3 DEF Typed, StoreOK, Log, AuditEntry
  <2>3. StoreOK' /\ RowsStay
    BY <2>1, <2>2 DEF Expire, Typed, StoreOK, RowsStay
  <2>. QED  BY <2>3, EndCall DEF Expire, Typed
<1>. QED  BY <1>2, <1>3 DEF Expire

(***************************************************************************)
(* Publication and withdrawal.                                             *)
(***************************************************************************)
(* What becomes of the other releases.                                     *)
LEMMA SupersededType ==
    ASSUME NEW row \in Release \cup {None}, NEW at \in Nat
    PROVE  /\ Superseded(row, at) \in Release \cup {None}
           /\ row # None => Superseded(row, at) \in Release
           /\ row = None => Superseded(row, at) = None
           /\ row # None =>
                /\ Superseded(row, at).published = row.published
                /\ Superseded(row, at).checksum = row.checksum
                /\ Superseded(row, at).status =
                      IF row.status = "published" THEN "superseded" ELSE row.status
  BY DEF Superseded, Release, ReleaseStatuses

(* What becomes of the release itself.                                     *)
LEMMA PublishedType ==
    ASSUME NEW row \in Release, NEW at \in Nat
    PROVE  /\ Published(row, at) \in Release
           /\ Published(row, at).status = "published"
           /\ Published(row, at).published = at
           /\ Published(row, at).checksum = row.checksum
  BY DEF Published, Release, ReleaseStatuses

(* A step that publishes, by its effects on releases and requests.         *)
Publishes(w) ==
    LET c == call[w]
        q == requests[c.request]
    IN  /\ q.status = "approved" /\ Unchanged(q)
        /\ releases' = [r \in Releases |->
              IF r = q.release THEN Published(releases[r], c.at)
                               ELSE Superseded(releases[r], c.at)]
        /\ Resolve(c, "applied")
        /\ Log("published", q.release, c.admin)

LEMMA PublishCases ==
    ASSUME NEW w \in Calls, Publish(w)
    PROVE  Publishes(w) \/ UNCHANGED <<releases, requests, audit>>
  BY DEF Publish, Publishes

(* The release of a request that is published exists.                      *)
LEMMA PublishTarget ==
    ASSUME Typed, NEW w \in Calls, pc[w] = "publish"
    PROVE  /\ call[w] \in Call /\ call[w].request \in Requests
           /\ requests[call[w].request] \in Request
           /\ requests[call[w].request].release \in Releases
           /\ call[w].at \in Nat /\ call[w].admin \in Admins
<1>1. call[w].request \in Requests /\ requests[call[w].request] \in Request
  BY Chosen
<1>. QED  BY <1>1, Chosen DEF Request

LEMMA PublishType ==
    ASSUME TypeOK, NEW w \in Calls, Publish(w)
    PROVE  Typed'
<1>. DEFINE c == call[w]
            q == requests[c.request]
<1>. Typed
  BY DEF TypeOK
<1>1. /\ c \in Call /\ c.request \in Requests /\ q \in Request /\ q.release \in Releases
      /\ c.at \in Nat /\ c.admin \in Admins
  BY PublishTarget DEF Publish
<1>2. CASE UNCHANGED <<releases, requests, audit>>
  BY <1>2, TypeEnd DEF Publish, Typed, dbVars
<1>3. CASE Publishes(w)
  <2>1. q # None
    BY <1>1, ConstantsOK
  <2>2. releases[q.release] \in Release
    BY <1>1, <2>1 DEF TypeOK, ReferencesOK, Typed, StoreOK
  <2>3. ASSUME NEW r \in Releases
        PROVE  /\ releases'[r] \in Release \cup {None}
               /\ releases[r] # None => releases'[r] # None
    <3>1. CASE r = q.release
      <4>1. releases'[r] \in Release
        BY <1>1, <1>3, <2>2, <3>1, PublishedType DEF Publishes
      <4>. QED  BY <4>1, ConstantsOK
    <3>2. CASE r # q.release
      <4>1. releases'[r] = Superseded(releases[r], c.at)
        BY <1>3, <3>2 DEF Publishes
      <4>2. releases'[r] \in Release \cup {None}
        BY <1>1, <4>1, SupersededType DEF Typed, StoreOK
      <4>3. releases[r] # None => releases'[r] \in Release
        BY <1>1, <4>1, SupersededType DEF Typed, StoreOK
      <4>. QED  BY <4>2, <4>3, ConstantsOK
    <3>. QED  BY <3>1, <3>2
  <2>4. releases' \in [Releases -> Release \cup {None}]
    BY <1>3, <2>3 DEF Publishes
  <2>5. /\ requests' \in [Requests -> Request \cup {None}]
        /\ \A p \in Requests : requests[p] # None => requests'[p] # None
    BY <1>1, <1>3, ResolveFields DEF Typed, Publishes, RequestStatuses
  <2>6. audit' \subseteq AuditEntry
    BY <1>1, <1>3 DEF Typed, StoreOK, Publishes, Log, AuditEntry
  <2>7. StoreOK' /\ RowsStay
    BY <2>3, <2>4, <2>5, <2>6 DEF Publish, Typed, StoreOK, RowsStay
  <2>. QED  BY <2>7, EndCall DEF Publish, Typed
<1>. QED  BY <1>2, <1>3, PublishCases

LEMMA WithdrawType ==
    ASSUME Typed, NEW w \in Calls, Withdraw(w)
    PROVE  Typed'
<1>. DEFINE c   == call[w]
            row == [releases[c.target] EXCEPT !.status = "withdrawn", !.updated = clock]
<1>1. CallOK(c, "withdraw") /\ c.op = "withdraw" /\ c.target \in Releases
  BY DEF Typed, CallsOK, Withdraw, CallOK, Passes, ByRequest
<1>2. releases[c.target] \in Release
  BY <1>1 DEF CallOK, ByRequest, Typed, StoreOK
<1>3. CASE Finish(w) /\ UNCHANGED releases
  BY <1>3, TypeEnd DEF Withdraw, Typed, dbVars
<1>4. CASE /\ releases' = [releases EXCEPT ![c.target].status = "withdrawn",
                                           ![c.target].updated = clock]
           /\ Goto(w, "audit", c)
  <2>1. releases' = [releases EXCEPT ![c.target] = row]
    BY <1>1, <1>4 DEF Typed, StoreOK
  <2>2. row \in Release
    BY <1>2 DEF Release, ReleaseStatuses, Typed
  <2>3. row # None
    BY <2>2, ConstantsOK
  <2>. HIDE DEF row
  <2>4. StoreOK' /\ RowsStay
    BY <1>1, <2>1, <2>2, <2>3 DEF Withdraw, Typed, StoreOK, RowsStay
  <2>5. CallOK(c, "audit")
    BY <1>1 DEF CallOK, Passes, ByRequest
  <2>. QED  BY <1>4, <2>4, <2>5, MoveCall DEF Withdraw, Typed, Points
<1>. QED  BY <1>3, <1>4 DEF Withdraw

LEMMA AppendAuditType ==
    ASSUME Typed, NEW w \in Calls, AppendAudit(w)
    PROVE  Typed'
<1>1. CallOK(call[w], "audit") /\ call[w].op \in {"create", "withdraw"}
  BY DEF Typed, CallsOK, AppendAudit, CallOK, Passes, ByRequest
<1>2. call[w].target \in Releases /\ call[w].admin \in Admins
  BY <1>1 DEF CallOK, Call, ByRequest
<1>3. StoreOK' /\ RowsStay
  BY <1>2 DEF AppendAudit, Typed, StoreOK, RowsStay, Log, AuditEntry
<1>. QED  BY <1>3, EndCall DEF AppendAudit, Typed

(* Every step keeps the types.                                             *)
LEMMA TypedNext == TypeOK /\ [Next]_vars => Typed'
<1>. SUFFICES ASSUME TypeOK, [Next]_vars PROVE Typed'
  OBVIOUS
<1>. Typed
  BY DEF TypeOK
<1>1. CASE UNCHANGED vars
  BY <1>1 DEF vars, dbVars, Typed, StoreOK, CallsOK, CallOK
<1>2. CASE Tick
  BY <1>2 DEF Tick, dbVars, Typed, StoreOK, CallsOK, CallOK
<1>3. CASE EditRegistry
  BY <1>3 DEF EditRegistry, Typed, StoreOK, CallsOK, CallOK, Checksum
<1>4. ASSUME NEW w \in Calls, Fail(w) PROVE Typed'
  BY <1>4, TypeEnd DEF Fail, Typed
<1>5. ASSUME NEW w \in Calls, Draft(w) PROVE Typed'
  BY <1>5, CreateDraftType, CheckDraftType, ReadStateType, FindExistingType,
     SaveSnapshotType DEF Draft
<1>6. ASSUME NEW w \in Calls, Approve(w) \/ Reject(w) PROVE Typed'
  BY <1>6, DecideType DEF Approve, Reject
<1>. QED  BY <1>1, <1>2, <1>3, <1>4, <1>5, <1>6, ArriveReleaseType, ArriveDecisionType,
             ReadReleaseType, ReadSnapshotType, RaiseRequestType, ChooseType,
             LoadRequestType, ExpireType, PublishType, WithdrawType, AppendAuditType
          DEF Next

(***************************************************************************)
(* What a step can do to one release and to one request.                   *)
(***************************************************************************)
(* Call w publishes release r by request q.                                *)
PublishedBy(w, r, q) ==
    /\ pc[w] = "publish" /\ Publishes(w)
    /\ q = call[w].request /\ r = requests[q].release

(* Only a draft gets another checksum, and nothing becomes a draft again.  *)
Kept(r) ==
    releases'[r] # releases[r] =>
        /\ releases[r] # None /\ releases'[r] # None
        /\ releases'[r].published = releases[r].published
        /\ releases'[r].status = "draft" => releases[r].status = "draft"
        /\ releases[r].status # "draft" => releases'[r].checksum = releases[r].checksum

(* A call creates release r.                                               *)
Created(r) ==
    /\ releases[r] = None /\ releases'[r] # None /\ releases'[r].published = None
    /\ \E w \in Calls : pc[w] = "insert" /\ pc'[w] = "audit" /\ call[w].target = r

LEMMA PublishKeeps ==
    ASSUME Typed, NEW w \in Calls, pc[w] = "publish", Publishes(w), NEW r \in Releases,
           r # requests[call[w].request].release
    PROVE  Kept(r)
<1>1. releases'[r] = Superseded(releases[r], call[w].at)
  BY DEF Publishes
<1>2. call[w].at \in Nat /\ releases[r] \in Release \cup {None}
  BY PublishTarget DEF Typed, StoreOK
<1>3. CASE releases[r] = None
  BY <1>1, <1>2, <1>3, SupersededType DEF Kept
<1>4. CASE releases[r] # None
  <2>1. releases'[r] \in Release
    BY <1>1, <1>2, <1>4, SupersededType
  <2>2. releases'[r] # None
    BY <2>1, ConstantsOK
  <2>. QED  BY <1>1, <1>2, <1>4, <2>2, SupersededType DEF Kept
<1>. QED  BY <1>3, <1>4

LEMMA ReleaseSteps ==
    ASSUME TypeOK, [Next]_vars, NEW r \in Releases
    PROVE  Kept(r) \/ Created(r) \/ \E w \in Calls, q \in Requests : PublishedBy(w, r, q)
<1>. Typed
  BY DEF TypeOK
<1>1. CASE UNCHANGED releases
  BY <1>1 DEF Kept
<1>2. ASSUME NEW w \in Calls, CreateDraft(w) PROVE Kept(r) \/ Created(r)
  <2>. DEFINE row == [status |-> "draft", checksum |-> None, updated |-> clock,
                      published |-> None]
  <2>1. row \in Release /\ row.published = None
    BY DEF Typed, Release, ReleaseStatuses
  <2>2. row # None
    BY <2>1, ConstantsOK
  <2>3. releases' = [releases EXCEPT ![call[w].target] = row]
    BY <1>2 DEF CreateDraft
  <2>4. CASE r = call[w].target
    <3>1. releases'[r] = row
      BY <2>3, <2>4 DEF Typed, StoreOK
    <3>2. pc[w] = "insert" /\ pc'[w] = "audit" /\ releases[r] = None
      BY <1>2, <2>4 DEF CreateDraft, Goto, Typed, TypeOK, ReferencesOK
    <3>. QED  BY <2>1, <2>2, <2>4, <3>1, <3>2 DEF Created
  <2>5. CASE r # call[w].target
    BY <2>3, <2>5 DEF Kept, Typed, StoreOK
  <2>. QED  BY <2>4, <2>5
<1>3. ASSUME NEW w \in Calls, SaveSnapshot(w) PROVE Kept(r)
  <2>. DEFINE t == call[w].target
              row == Stamped(releases[t], call[w])
  <2>1. t \in Releases /\ releases[t] \in Release /\ releases' = [releases EXCEPT ![t] = row]
    BY <1>3, AtSave
  <2>2. /\ row \in Release /\ row.status = releases[t].status
        /\ row.published = releases[t].published
        /\ releases[t].status # "draft" => row = releases[t]
    BY <1>3, AtSave, StampedType
  <2>3. row # None /\ releases[t] # None
    BY <2>1, <2>2, ConstantsOK
  <2>. HIDE DEF row
  <2>. QED  BY <2>1, <2>2, <2>3 DEF Kept, Typed, StoreOK
<1>4. ASSUME NEW w \in Calls, Withdraw(w) PROVE Kept(r)
  <2>. DEFINE t   == call[w].target
              row == [releases[t] EXCEPT !.status = "withdrawn", !.updated = clock]
  <2>1. t \in Releases /\ releases[t] \in Release /\ releases[t] # None
    <3>1. CallOK(call[w], "withdraw")
      BY <1>4 DEF Withdraw, Typed, CallsOK
    <3>. QED  BY <3>1 DEF CallOK, Passes, ByRequest, Typed, StoreOK
  <2>2. UNCHANGED releases \/ releases' = [releases EXCEPT ![t] = row]
    BY <1>4, <2>1 DEF Withdraw, Typed, StoreOK
  <2>3. /\ row \in Release /\ row.status = "withdrawn" /\ row.published = releases[t].published
        /\ row.checksum = releases[t].checksum
    BY <2>1 DEF Release, ReleaseStatuses, Typed
  <2>4. row # None
    BY <2>3, ConstantsOK
  <2>. HIDE DEF row
  <2>. QED  BY <2>1, <2>2, <2>3, <2>4 DEF Kept, Typed, StoreOK
<1>5. ASSUME NEW w \in Calls, Publish(w)
      PROVE  Kept(r) \/ \E q \in Requests : PublishedBy(w, r, q)
  <2>1. CASE Publishes(w)
    BY <1>5, <2>1, PublishKeeps, PublishTarget DEF Publish, PublishedBy
  <2>2. CASE UNCHANGED releases
    BY <2>2 DEF Kept
  <2>. QED  BY <1>5, <2>1, <2>2, PublishCases
<1>. QED
  BY <1>1, <1>2, <1>3, <1>4, <1>5
  DEF Next, vars, dbVars, Tick, EditRegistry, ArriveRelease, ArriveDecision, Draft,
      CheckDraft, ReadState, FindExisting, ReadRelease, ReadSnapshot, RaiseRequest,
      Choose, LoadRequest, Approve, Reject, Decide, Expire, AppendAudit, Fail

(* Request q changes its status to s, and nothing but its stamp besides.   *)
Becomes(q, s) ==
    /\ requests[q] # None /\ requests'[q] # None
    /\ requests'[q].status = s
    /\ requests'[q].release = requests[q].release
    /\ requests'[q].by = requests[q].by
    /\ requests'[q].checksum = requests[q].checksum

Raised(q) ==
    /\ requests[q] = None /\ requests'[q] # None
    /\ requests'[q].status = "pending"
    /\ requests'[q].release \in Releases /\ releases[requests'[q].release] # None

ApprovedNow(q) ==
    /\ Becomes(q, "approved") /\ requests[q].status = "pending"
    /\ \E d \in decisions' : /\ d.request = q /\ d.verdict = "approved"
                             /\ d.admin # requests[q].by

Closed(q) ==
    /\ Becomes(q, "rejected") \/ Becomes(q, "expired")
    /\ requests[q].status \in {"pending", "approved"}

RequestChange(q) ==
    \/ requests'[q] = requests[q]
    \/ Raised(q) \/ ApprovedNow(q) \/ Closed(q)
    \/ /\ Becomes(q, "applied") /\ requests[q].status = "approved"
       /\ \E w \in Calls : PublishedBy(w, requests[q].release, q)

(* Resolving one request.                                                  *)
LEMMA ResolveBecomes ==
    ASSUME Typed, NEW w \in Calls, pc[w] \in {"decide", "publish"},
           NEW s \in RequestStatuses, Resolve(call[w], s), NEW q \in Requests
    PROVE  IF q = call[w].request THEN Becomes(q, s) ELSE requests'[q] = requests[q]
<1>. DEFINE c == call[w]
<1>1. c \in Call /\ c.request \in Requests /\ requests[c.request] \in Request
  BY Chosen
<1>2. /\ \A p \in Requests \ {c.request} : requests'[p] = requests[p]
      /\ requests'[c.request] \in Request
      /\ requests'[c.request].status = s
      /\ requests'[c.request].release = requests[c.request].release
      /\ requests'[c.request].by = requests[c.request].by
      /\ requests'[c.request].checksum = requests[c.request].checksum
  BY <1>1, ResolveFields DEF Typed
<1>3. requests[c.request] # None /\ requests'[c.request] # None
  BY <1>1, <1>2, ConstantsOK
<1>. QED  BY <1>2, <1>3 DEF Becomes

LEMMA DecideChange ==
    ASSUME Typed, NEW w \in Calls, pc[w] = "decide",
           NEW verdict \in {"approved", "rejected"}, Decide(w, verdict), NEW q \in Requests
    PROVE  RequestChange(q)
<1>. DEFINE c == call[w]
            d == [request |-> c.request, admin |-> c.admin, verdict |-> verdict]
<1>1. CASE UNCHANGED requests
  BY <1>1 DEF RequestChange
<1>2. CASE MayDecide(c) /\ Resolve(c, verdict) /\ decisions' = decisions \cup {d}
  <2>1. IF q = c.request THEN Becomes(q, verdict) ELSE requests'[q] = requests[q]
    BY <1>2, ResolveBecomes DEF RequestStatuses
  <2>2. requests[c.request].status = "pending" /\ requests[c.request].by # c.admin
    BY <1>2 DEF MayDecide, Open
  <2>3. d \in decisions'
    BY <1>2
  <2>. QED  BY <2>1, <2>2, <2>3 DEF RequestChange, ApprovedNow, Closed
<1>. QED  BY <1>1, <1>2 DEF Decide

LEMMA RequestSteps ==
    ASSUME TypeOK, [Next]_vars, NEW q \in Requests
    PROVE  RequestChange(q)
<1>. Typed
  BY DEF TypeOK
<1>1. CASE UNCHANGED requests
  BY <1>1 DEF RequestChange
<1>2. ASSUME NEW w \in Calls, RaiseRequest(w) PROVE RequestChange(q)
  <2>1. CallOK(call[w], "raise")
    BY <1>2 DEF RaiseRequest, Typed, CallsOK
  <2>2. PICK p \in Requests :
           requests[p] = None /\ requests' = [requests EXCEPT ![p] = NewRequest(call[w])]
    BY <1>2 DEF RaiseRequest
  <2>3. NewRequest(call[w]) # None /\ NewRequest(call[w]).status = "pending"
    BY <2>1, NewRequestType
  <2>4. /\ NewRequest(call[w]).release \in Releases
        /\ releases[NewRequest(call[w]).release] # None
    BY <2>1 DEF NewRequest, CallOK, Passes, ByRequest
  <2>. QED  BY <2>2, <2>3, <2>4 DEF RequestChange, Raised, Typed, StoreOK
<1>3. ASSUME NEW w \in Calls, Approve(w) \/ Reject(w) PROVE RequestChange(q)
  BY <1>3, DecideChange DEF Approve, Reject
<1>4. ASSUME NEW w \in Calls, Expire(w) PROVE RequestChange(q)
  <2>1. CASE UNCHANGED requests
    BY <2>1 DEF RequestChange
  <2>2. CASE Decidable(call[w], call[w].request) /\ Resolve(call[w], "expired")
    <3>1. IF q = call[w].request THEN Becomes(q, "expired") ELSE requests'[q] = requests[q]
      BY <1>4, <2>2, ResolveBecomes DEF Expire, RequestStatuses
    <3>2. requests[call[w].request].status \in {"pending", "approved"}
      BY <1>4, <2>2 DEF Expire, Decidable, PastDue
    <3>. QED  BY <3>1, <3>2 DEF RequestChange, Closed
  <2>. QED  BY <1>4, <2>1, <2>2 DEF Expire
<1>5. ASSUME NEW w \in Calls, Publish(w) PROVE RequestChange(q)
  <2>1. CASE UNCHANGED requests
    BY <2>1 DEF RequestChange
  <2>2. CASE Publishes(w)
    <3>1. pc[w] = "publish" /\ Resolve(call[w], "applied")
      BY <1>5, <2>2 DEF Publish, Publishes
    <3>2. IF q = call[w].request THEN Becomes(q, "applied") ELSE requests'[q] = requests[q]
      BY <3>1, ResolveBecomes DEF RequestStatuses
    <3>3. requests[call[w].request].status = "approved"
      BY <2>2 DEF Publishes
    <3>. QED  BY <2>2, <3>1, <3>2, <3>3 DEF RequestChange, PublishedBy
  <2>. QED  BY <1>5, <2>1, <2>2, PublishCases
<1>. QED
  BY <1>1, <1>2, <1>3, <1>4, <1>5
  DEF Next, vars, dbVars, Tick, EditRegistry, ArriveRelease, ArriveDecision, Draft,
      CreateDraft, CheckDraft, ReadState, FindExisting, SaveSnapshot, ReadRelease,
      ReadSnapshot, Choose, LoadRequest, Withdraw, AppendAudit, Fail

(***************************************************************************)
(* References stay intact.                                                 *)
(***************************************************************************)
(* A call comes to "insert" with an identifier that nobody has.            *)
LEMMA InsertSteps ==
    ASSUME Typed, [Next]_vars, NEW w \in Calls, pc'[w] = "insert"
    PROVE  \/ pc[w] = "insert" /\ call'[w] = call[w]
           \/ /\ UNCHANGED releases /\ releases[call'[w].target] = None
              /\ \A v \in Calls \ {w} :
                    /\ pc'[v] = pc[v] /\ call'[v] = call[v]
                    /\ pc[v] # "idle" => call[v].target # call'[w].target
<1>1. ASSUME NEW v \in Calls, NEW p, NEW c, Goto(v, p, c), p # "insert"
      PROVE  pc[w] = "insert" /\ call'[w] = call[w]
  BY <1>1 DEF Goto, Typed
<1>2. CASE UNCHANGED <<pc, call>>
  BY <1>2
<1>3. ASSUME NEW v \in Calls, ArriveRelease(v), v = w
      PROVE  /\ UNCHANGED releases /\ releases[call'[w].target] = None
             /\ \A u \in Calls \ {w} :
                    /\ pc'[u] = pc[u] /\ call'[u] = call[u]
                    /\ pc[u] # "idle" => call[u].target # call'[w].target
  <2>1. PICK op \in Operations \ ByRequest, a \in Admins, r \in Releases :
           /\ IF op = "create" THEN Unused(r) ELSE releases[r] # None
           /\ Goto(w, FirstPoint(op), NewCall(op, a, r, 0))
    BY <1>3 DEF ArriveRelease
  <2>2. op = "create"
    BY <2>1, ConstantsOK DEF Goto, Typed, FirstPoint, Routes, ByRequest
  <2>3. call'[w].target = r
    BY <2>1 DEF Goto, Typed, NewCall
  <2>4. Unused(r) /\ \A u \in Calls \ {w} : pc'[u] = pc[u] /\ call'[u] = call[u]
    BY <2>1, <2>2 DEF Goto, Typed
  <2>. QED  BY <1>3, <2>3, <2>4 DEF Unused, ArriveRelease, dbVars
<1>4. ASSUME NEW v \in Calls, ArriveRelease(v), v # w
      PROVE  pc[w] = "insert" /\ call'[w] = call[w]
  <2>1. PICK p, c : Goto(v, p, c)
    BY <1>4 DEF ArriveRelease
  <2>. QED  BY <1>4, <2>1 DEF Goto, Typed
<1>5. ASSUME NEW v \in Calls, Finish(v)
      PROVE  pc[w] = "insert" /\ call'[w] = call[w]
  BY <1>1, <1>5 DEF Finish
<1>6. ASSUME NEW v \in Calls, Draft(v)
      PROVE  pc[w] = "insert" /\ call'[w] = call[w]
  <2>1. CASE CreateDraft(v)
    BY <1>1, <2>1 DEF CreateDraft
  <2>2. CASE CheckDraft(v)
    <3>1. PICK c : Goto(v, "state", c) \/ Finish(v)
      BY <2>2 DEF CheckDraft
    <3>. QED  BY <1>1, <1>5, <3>1
  <2>3. CASE ReadState(v)
    <3>1. PICK part \in {"creators", "handles"} :
             LET c == [call[v] EXCEPT !.mark[part] = registry[part]]
             IN  Goto(v, IF c.mark \in Checksum THEN "existing" ELSE "state", c)
      BY <2>3 DEF ReadState
    <3>. DEFINE c == [call[v] EXCEPT !.mark[part] = registry[part]]
                p == IF c.mark \in Checksum THEN "existing" ELSE "state"
    <3>2. Goto(v, p, c) /\ p # "insert"
      BY <3>1
    <3>. HIDE DEF c, p
    <3>. QED  BY <1>1, <3>2
  <2>4. CASE FindExisting(v)
    BY <1>1, <2>4 DEF FindExisting
  <2>5. CASE SaveSnapshot(v)
    BY <1>5, <2>5 DEF SaveSnapshot
  <2>. QED  BY <1>6, <2>1, <2>2, <2>3, <2>4, <2>5 DEF Draft
<1>7. ASSUME NEW v \in Calls, ReadRelease(v) \/ ReadSnapshot(v) \/ RaiseRequest(v)
      PROVE  pc[w] = "insert" /\ call'[w] = call[w]
  <2>1. CASE ReadRelease(v)
    BY <1>1, <2>1 DEF ReadRelease
  <2>2. CASE ReadSnapshot(v)
    <3>1. PICK c : Goto(v, "raise", c) \/ Finish(v)
      BY <2>2 DEF ReadSnapshot
    <3>. QED  BY <1>1, <1>5, <3>1
  <2>3. CASE RaiseRequest(v)
    BY <1>5, <2>3 DEF RaiseRequest
  <2>. QED  BY <1>7, <2>1, <2>2, <2>3
<1>8. ASSUME NEW v \in Calls, ArriveDecision(v) \/ Choose(v) \/ LoadRequest(v)
      PROVE  pc[w] = "insert" /\ call'[w] = call[w]
  <2>1. CASE ArriveDecision(v)
    <3>1. PICK c : Goto(v, "load", c)
      BY <2>1 DEF ArriveDecision
    <3>. QED  BY <1>1, <3>1
  <2>2. CASE Choose(v)
    <3>1. PICK c : Goto(v, "decide", c) \/ Goto(v, "publish", c) \/ Finish(v)
      BY <2>2 DEF Choose
    <3>. QED  BY <1>1, <1>5, <3>1
  <2>3. CASE LoadRequest(v)
    <3>1. PICK c : Goto(v, "decide", c) \/ Finish(v)
      BY <2>3 DEF LoadRequest
    <3>. QED  BY <1>1, <1>5, <3>1
  <2>. QED  BY <1>8, <2>1, <2>2, <2>3
<1>9. ASSUME NEW v \in Calls,
             \/ Approve(v) \/ Reject(v) \/ Expire(v)
             \/ Publish(v) \/ AppendAudit(v) \/ Fail(v)
      PROVE  pc[w] = "insert" /\ call'[w] = call[w]
  BY <1>5, <1>9 DEF Approve, Reject, Decide, Expire, Publish, AppendAudit, Fail
<1>10. ASSUME NEW v \in Calls, Withdraw(v)
       PROVE  pc[w] = "insert" /\ call'[w] = call[w]
  BY <1>1, <1>5, <1>10 DEF Withdraw
<1>. QED  BY <1>2, <1>3, <1>4, <1>6, <1>7, <1>8, <1>9, <1>10
          DEF Next, vars, Tick, EditRegistry

LEMMA ReferencesNext == TypeOK /\ [Next]_vars => ReferencesOK'
<1>. SUFFICES ASSUME TypeOK, [Next]_vars PROVE ReferencesOK'
  OBVIOUS
<1>. Typed /\ ReferencesOK
  BY DEF TypeOK
<1>1. ASSUME NEW r \in Releases, NEW w \in Calls, NEW q \in Requests, PublishedBy(w, r, q)
      PROVE  /\ requests[q] # None /\ releases[r] \in Release
             /\ releases'[r] = Published(releases[r], call[w].at) /\ call[w].at \in Nat
             /\ releases'[r].status = "published" /\ releases'[r] # None
  <2>1. requests[q] \in Request /\ requests[q] # None /\ call[w].at \in Nat
    BY <1>1, PublishTarget, ConstantsOK DEF PublishedBy
  <2>2. releases[r] \in Release
    BY <1>1, <2>1 DEF ReferencesOK, PublishedBy, Typed, StoreOK
  <2>3. releases'[r] = Published(releases[r], call[w].at)
    BY <1>1 DEF PublishedBy, Publishes
  <2>4. releases'[r] \in Release /\ releases'[r].status = "published"
    BY <2>1, <2>2, <2>3, PublishedType
  <2>. QED  BY <2>1, <2>2, <2>3, <2>4, ConstantsOK
<1>2. ASSUME NEW r \in Releases, releases[r] # None PROVE releases'[r] # None
  BY <1>1, <1>2, ReleaseSteps DEF Kept, Created
<1>3. ASSUME NEW q \in Requests, requests'[q] # None
      PROVE  releases'[requests'[q].release] # None
  <2>1. CASE requests[q] = None
    BY <1>2, <1>3, <2>1, RequestSteps DEF RequestChange, Raised, ApprovedNow, Closed, Becomes
  <2>2. CASE requests[q] # None
    <3>1. requests[q].release \in Releases /\ releases[requests[q].release] # None
      BY <2>2 DEF ReferencesOK, Typed, StoreOK, Request
    <3>2. requests'[q].release = requests[q].release
      BY <2>2, RequestSteps DEF RequestChange, Raised, ApprovedNow, Closed, Becomes
    <3>. QED  BY <1>2, <3>1, <3>2
  <2>. QED  BY <2>1, <2>2
<1>4. ASSUME NEW r \in Releases, releases'[r] # None, releases'[r].status = "draft"
      PROVE  releases'[r].published = None
  <2>1. CASE Kept(r)
    BY <1>4, <2>1 DEF Kept, ReferencesOK
  <2>2. CASE Created(r)
    BY <2>2 DEF Created
  <2>3. CASE \E w \in Calls, q \in Requests : PublishedBy(w, r, q)
    BY <1>1, <1>4, <2>3
  <2>. QED  BY <2>1, <2>2, <2>3, ReleaseSteps
<1>5. ASSUME NEW w \in Calls, pc[w] = "insert", pc'[w] = "insert", call'[w] = call[w]
      PROVE  releases'[call[w].target] = None
  <2>1. call[w].target \in Releases /\ releases[call[w].target] = None
    BY <1>5 DEF Typed, CallsOK, CallOK, Passes, ByRequest, ReferencesOK
  <2>2. CASE Kept(call[w].target)
    BY <2>1, <2>2 DEF Kept
  <2>3. CASE Created(call[w].target)
    BY <1>5, <2>3 DEF Created, ReferencesOK
  <2>4. CASE \E v \in Calls, q \in Requests : PublishedBy(v, call[w].target, q)
    BY <1>1, <2>1, <2>4, ConstantsOK
  <2>. QED  BY <2>1, <2>2, <2>3, <2>4, ReleaseSteps
<1>6. ASSUME NEW w \in Calls, pc'[w] = "insert"
      PROVE  /\ releases'[call'[w].target] = None
             /\ \A v \in Calls \ {w} :
                   pc'[v] = "insert" => call'[v].target # call'[w].target
  <2>1. CASE ~(pc[w] = "insert" /\ call'[w] = call[w])
    BY <1>6, <2>1, InsertSteps
  <2>2. CASE pc[w] = "insert" /\ call'[w] = call[w]
    <3>1. ASSUME NEW v \in Calls \ {w}, pc'[v] = "insert"
          PROVE  call'[v].target # call'[w].target
      <4>1. CASE pc[v] = "insert" /\ call'[v] = call[v]
        BY <2>2, <4>1 DEF ReferencesOK
      <4>2. CASE ~(pc[v] = "insert" /\ call'[v] = call[v])
        BY <2>2, <3>1, <4>2, InsertSteps
      <4>. QED  BY <4>1, <4>2
    <3>. QED  BY <1>5, <1>6, <2>2, <3>1
  <2>. QED  BY <2>1, <2>2
<1>. QED  BY <1>3, <1>4, <1>6 DEF ReferencesOK

(***************************************************************************)
(* Every variable keeps its type, and a call, a request and a release have *)
(* what the next step on them relies on.                                   *)
(***************************************************************************)
THEOREM TypeCorrect == Spec => []TypeOK
<1>1. TypeOK /\ [Next]_vars => TypeOK'
  BY TypedNext, ReferencesNext DEF TypeOK
<1>. QED  BY TypeInit, <1>1, PTL DEF Spec

(***************************************************************************)
(* What is published was approved.                                         *)
(***************************************************************************)
(* A request that was ever approved carries the decision of another admin. *)
ApprovedBacked ==
    \A q \in Requests :
        requests[q] # None /\ requests[q].status \in {"approved", "applied"}
            => ApprovedByAnother(q)

PublicationInv == TypeOK /\ ApprovedBacked /\ PublishedAsApproved

LEMMA DecisionsGrow ==
    ASSUME [Next]_vars
    PROVE  decisions \subseteq decisions'
BY DEF Next, vars, dbVars, Tick, EditRegistry, ArriveRelease, ArriveDecision, Draft,
       CreateDraft, CheckDraft, ReadState, FindExisting, SaveSnapshot, ReadRelease,
       ReadSnapshot, RaiseRequest, Choose, LoadRequest, Approve, Reject, Decide, Expire,
       Publish, Withdraw, AppendAudit, Fail

(* A decision that backs a request goes on backing it.                     *)
LEMMA BackingStays ==
    ASSUME [Next]_vars, NEW q \in Requests, ApprovedByAnother(q),
           requests'[q].by = requests[q].by
    PROVE  ApprovedByAnother(q)'
BY DecisionsGrow DEF ApprovedByAnother

LEMMA BackedNext ==
    ASSUME TypeOK, ApprovedBacked, [Next]_vars
    PROVE  ApprovedBacked'
<1>1. ASSUME NEW q \in Requests, requests'[q] # None,
             requests'[q].status \in {"approved", "applied"}
      PROVE  ApprovedByAnother(q)'
  <2>1. RequestChange(q)
    BY RequestSteps
  <2>2. CASE requests'[q] = requests[q]
    BY <1>1, <2>2, BackingStays DEF ApprovedBacked
  <2>3. CASE ApprovedNow(q)
    BY <2>3 DEF ApprovedNow, Becomes, ApprovedByAnother
  <2>4. CASE Becomes(q, "applied") /\ requests[q].status = "approved"
    BY <2>4, BackingStays DEF ApprovedBacked, Becomes
  <2>. QED  BY <1>1, <2>1, <2>2, <2>3, <2>4 DEF RequestChange, Raised, Closed, Becomes
<1>. QED  BY <1>1 DEF ApprovedBacked

(* A publication uses up its request and no other.                         *)
LEMMA PublishedNow ==
    ASSUME PublicationInv, [Next]_vars, NEW r \in Releases,
           NEW w \in Calls, NEW q \in Requests, PublishedBy(w, r, q)
    PROVE  /\ releases'[r] # None /\ releases'[r].published # None
           /\ AppliedTo(r)' = {q} /\ ApprovedByAnother(q)'
           /\ requests'[q].checksum = releases'[r].checksum
<1>. TypeOK /\ Typed /\ ReferencesOK
  BY DEF PublicationInv, TypeOK
<1>1. /\ pc[w] = "publish" /\ q = call[w].request /\ r = requests[q].release
      /\ requests[q].status = "approved" /\ Unchanged(requests[q])
      /\ Resolve(call[w], "applied")
      /\ releases'[r] = Published(releases[r], call[w].at)
  BY DEF PublishedBy, Publishes
<1>2. requests[q] \in Request /\ requests[q] # None /\ call[w].at \in Nat
  BY <1>1, PublishTarget, ConstantsOK
<1>3. releases[r] \in Release /\ releases[r] # None /\ releases[r].status = "draft"
  BY <1>1, <1>2 DEF ReferencesOK, Typed, StoreOK, Unchanged
<1>4. /\ releases'[r] \in Release /\ releases'[r].published \in Nat
      /\ releases'[r].checksum = releases[r].checksum
  BY <1>1, <1>2, <1>3, PublishedType
<1>5. releases'[r] # None /\ releases'[r].published # None
  BY <1>4, ConstantsOK
<1>6. AppliedTo(r) = {}
  <2>1. releases[r].published = None
    BY <1>3 DEF ReferencesOK
  <2>. QED  BY <2>1 DEF PublicationInv, PublishedAsApproved
<1>7. Becomes(q, "applied") /\ \A p \in Requests \ {q} : requests'[p] = requests[p]
  BY <1>1, ResolveBecomes DEF RequestStatuses
<1>8. AppliedTo(r)' = {q}
  BY <1>1, <1>6, <1>7 DEF AppliedTo, Becomes
<1>9. ApprovedByAnother(q)'
  BY <1>1, <1>2, <1>7, BackingStays DEF PublicationInv, ApprovedBacked, Becomes
<1>10. requests'[q].checksum = releases'[r].checksum
  BY <1>1, <1>4, <1>7 DEF Becomes, Unchanged
<1>. QED  BY <1>5, <1>8, <1>9, <1>10

(* Without one, the requests that were applied to a release stay the same. *)
LEMMA AppliedStays ==
    ASSUME TypeOK, [Next]_vars, NEW r \in Releases,
           ~ \E w \in Calls, q \in Requests : PublishedBy(w, r, q)
    PROVE  /\ AppliedTo(r)' = AppliedTo(r)
           /\ \A q \in AppliedTo(r) : requests'[q] = requests[q]
<1>1. ASSUME NEW q \in Requests
      PROVE  /\ q \in AppliedTo(r)' <=> q \in AppliedTo(r)
             /\ q \in AppliedTo(r) => requests'[q] = requests[q]
  <2>1. RequestChange(q)
    BY RequestSteps
  <2>2. CASE requests'[q] = requests[q]
    BY <2>2 DEF AppliedTo
  <2>3. CASE Raised(q) \/ ApprovedNow(q) \/ Closed(q)
    BY <2>3 DEF AppliedTo, Raised, ApprovedNow, Closed, Becomes
  <2>4. CASE /\ Becomes(q, "applied") /\ requests[q].status = "approved"
             /\ \E w \in Calls : PublishedBy(w, requests[q].release, q)
    BY <2>4 DEF AppliedTo, Becomes
  <2>. QED  BY <2>1, <2>2, <2>3, <2>4 DEF RequestChange
<1>. QED  BY <1>1 DEF AppliedTo

LEMMA PublicationNext == PublicationInv /\ [Next]_vars => PublicationInv'
<1>. SUFFICES ASSUME PublicationInv, [Next]_vars PROVE PublicationInv'
  OBVIOUS
<1>. TypeOK /\ ReferencesOK /\ ApprovedBacked /\ PublishedAsApproved
  BY DEF PublicationInv, TypeOK
<1>1. TypeOK'
  BY TypedNext, ReferencesNext DEF TypeOK
<1>2. ASSUME NEW r \in Releases
      PROVE  IF releases'[r] # None /\ releases'[r].published # None
             THEN \E q \in Requests : /\ AppliedTo(r)' = {q} /\ ApprovedByAnother(q)'
                                      /\ requests'[q].checksum = releases'[r].checksum
             ELSE AppliedTo(r)' = {}
  <2>1. CASE \E w \in Calls, q \in Requests : PublishedBy(w, r, q)
    BY <2>1, PublishedNow
  <2>2. CASE ~ \E w \in Calls, q \in Requests : PublishedBy(w, r, q)
    <3>1. /\ AppliedTo(r)' = AppliedTo(r)
          /\ \A q \in AppliedTo(r) : requests'[q] = requests[q]
      BY <2>2, AppliedStays
    <3>2. Kept(r) \/ Created(r)
      BY <2>2, ReleaseSteps
    <3>3. CASE releases'[r] # None /\ releases'[r].published # None
      <4>1. /\ releases[r] # None /\ releases[r].published # None
            /\ releases'[r].checksum = releases[r].checksum
        BY <3>2, <3>3 DEF Kept, Created, ReferencesOK
      <4>2. PICK q \in Requests : /\ AppliedTo(r) = {q} /\ ApprovedByAnother(q)
                                 /\ requests[q].checksum = releases[r].checksum
        BY <4>1 DEF PublishedAsApproved
      <4>3. requests'[q] = requests[q]
        BY <3>1, <4>2
      <4>4. ApprovedByAnother(q)'
        BY <4>2, <4>3, BackingStays
      <4>. QED  BY <3>1, <3>3, <4>1, <4>2, <4>3, <4>4
    <3>4. CASE ~(releases'[r] # None /\ releases'[r].published # None)
      <4>1. ~(releases[r] # None /\ releases[r].published # None)
        BY <3>2, <3>4 DEF Kept, Created
      <4>2. AppliedTo(r) = {}
        BY <4>1 DEF PublishedAsApproved
      <4>. QED  BY <3>1, <3>4, <4>2
    <3>. QED  BY <3>3, <3>4
  <2>. QED  BY <2>1, <2>2
<1>3. PublishedAsApproved'
  BY <1>2 DEF PublishedAsApproved
<1>. QED  BY <1>1, <1>3, BackedNext DEF PublicationInv

(***************************************************************************)
(* A release that was ever published carries the checksum that exactly one *)
(* request asked for and another administrator approved, however           *)
(* recalculations, decisions and publications interleave.                  *)
(***************************************************************************)
THEOREM PublishedSafe == Spec => []PublishedAsApproved
<1>1. Init => PublicationInv
  <2>. SUFFICES ASSUME Init PROVE PublicationInv
    OBVIOUS
  <2>1. TypeOK /\ ApprovedBacked
    BY TypeInit DEF Init, ApprovedBacked
  <2>2. ASSUME NEW r \in Releases
        PROVE  AppliedTo(r) = {} /\ (releases[r] # None => releases[r].published = None)
    BY ConstantsOK DEF Init, AppliedTo
  <2>. QED  BY <2>1, <2>2 DEF PublicationInv, PublishedAsApproved
<1>2. PublicationInv => PublishedAsApproved
  BY DEF PublicationInv
<1>. QED  BY <1>1, <1>2, PublicationNext, PTL DEF Spec

(***************************************************************************)
(* The history of the releases.  Each lemma maps an action to one of       *)
(* ReleaseHistory, by what it does to the status of every release.         *)
(***************************************************************************)
(* Release r stays, or stays absent, in the status it has.                 *)
SameStatus(r) ==
    /\ releases'[r] = None <=> releases[r] = None
    /\ releases[r] # None => releases'[r].status = releases[r].status

LEMMA HistoryQuiet ==
    ASSUME \A r \in Releases : SameStatus(r)
    PROVE  UNCHANGED History!rhVars
BY DEF History!rhVars, InStatus, SameStatus

LEMMA HistoryCreate ==
    ASSUME TypeOK, NEW w \in Calls, CreateDraft(w)
    PROVE  History!RHNext
<1>. DEFINE t   == call[w].target
            row == [status |-> "draft", checksum |-> None, updated |-> clock,
                    published |-> None]
<1>1. t \in Releases /\ releases[t] = None
  BY DEF TypeOK, ReferencesOK, Typed, CallsOK, CallOK, CreateDraft, Passes, ByRequest
<1>2. row \in Release /\ row.status = "draft"
  BY DEF TypeOK, Typed, Release, ReleaseStatuses
<1>3. row # None
  BY <1>2, ConstantsOK
<1>4. releases' = [releases EXCEPT ![t] = row]
  BY DEF CreateDraft
<1>. HIDE DEF row
<1>5. releases'[t] = row /\ \A r \in Releases \ {t} : releases'[r] = releases[r]
  BY <1>1, <1>4 DEF TypeOK, Typed, StoreOK
<1>. HIDE DEF t
<1>6. History!Draft(t)
  BY <1>1, <1>2, <1>3, <1>5 DEF History!Draft, InStatus
<1>. QED  BY <1>1, <1>6 DEF History!RHNext

LEMMA HistoryCalculate ==
    ASSUME Typed, NEW w \in Calls, SaveSnapshot(w)
    PROVE  UNCHANGED History!rhVars
<1>. DEFINE t   == call[w].target
            row == Stamped(releases[t], call[w])
<1>1. t \in Releases /\ releases[t] \in Release /\ releases' = [releases EXCEPT ![t] = row]
  BY AtSave
<1>2. row \in Release /\ row.status = releases[t].status
  BY AtSave, StampedType
<1>3. row # None /\ releases[t] # None
  BY <1>1, <1>2, ConstantsOK
<1>. HIDE DEF row
<1>4. ASSUME NEW r \in Releases PROVE SameStatus(r)
  BY <1>1, <1>2, <1>3 DEF SameStatus, Typed, StoreOK
<1>. QED  BY <1>4, HistoryQuiet

LEMMA HistoryWithdraw ==
    ASSUME Typed, NEW w \in Calls, Withdraw(w)
    PROVE  History!RHNext \/ UNCHANGED History!rhVars
<1>. DEFINE t   == call[w].target
            row == [releases[t] EXCEPT !.status = "withdrawn", !.updated = clock]
<1>1. t \in Releases /\ releases[t] \in Release /\ releases[t] # None
  <2>1. CallOK(call[w], "withdraw")
    BY DEF Withdraw, Typed, CallsOK
  <2>. QED  BY <2>1 DEF CallOK, Passes, ByRequest, Typed, StoreOK
<1>2. row \in Release /\ row.status = "withdrawn"
  BY <1>1 DEF Release, ReleaseStatuses, Typed
<1>3. row # None
  BY <1>2, ConstantsOK
<1>4. CASE UNCHANGED releases
  BY <1>4, HistoryQuiet DEF SameStatus
<1>5. CASE releases[t].status \in {"draft", "published"} /\ releases' = [releases EXCEPT ![t] = row]
  <2>. HIDE DEF row
  <2>1. releases'[t] = row /\ \A r \in Releases \ {t} : releases'[r] = releases[r]
    BY <1>1, <1>5 DEF Typed, StoreOK
  <2>2. releases[t].status \in {"draft", "published"}
    BY <1>5
  <2>. HIDE DEF t
  <2>3. History!TakeBack(t)
    BY <1>1, <1>2, <1>3, <2>1, <2>2 DEF History!TakeBack, InStatus
  <2>. QED  BY <1>1, <2>3 DEF History!RHNext
<1>. QED  BY <1>1, <1>4, <1>5 DEF Withdraw, Typed, StoreOK

LEMMA HistoryPublish ==
    ASSUME TypeOK, NEW w \in Calls, Publish(w)
    PROVE  History!RHNext \/ UNCHANGED History!rhVars
<1>. DEFINE c == call[w]
            t == requests[c.request].release
<1>. Typed
  BY DEF TypeOK
<1>1. CASE UNCHANGED releases
  BY <1>1, HistoryQuiet DEF SameStatus
<1>2. CASE Publishes(w)
  <2>1. /\ requests[c.request] \in Request /\ t \in Releases /\ c.at \in Nat
        /\ c.request \in Requests
    BY PublishTarget DEF Publish
  <2>2. requests[c.request] # None
    BY <2>1, ConstantsOK
  <2>3. releases[t] \in Release /\ releases[t] # None /\ releases[t].status = "draft"
    BY <1>2, <2>1, <2>2 DEF TypeOK, ReferencesOK, Typed, StoreOK, Publishes, Unchanged
  <2>4. releases'[t] # None /\ releases'[t].status = "published"
    <3>1. releases'[t] \in Release /\ releases'[t].status = "published"
      BY <1>2, <2>1, <2>3, PublishedType DEF Publishes
    <3>. QED  BY <3>1, ConstantsOK
  <2>5. ASSUME NEW r \in Releases \ {t}
        PROVE  /\ releases'[r] = None <=> releases[r] = None
               /\ releases[r] # None => releases'[r].status =
                     IF releases[r].status = "published" THEN "superseded"
                                                         ELSE releases[r].status
    <3>1. releases'[r] = Superseded(releases[r], c.at) /\ releases[r] \in Release \cup {None}
      BY <1>2 DEF Publishes, Typed, StoreOK
    <3>2. releases[r] # None => releases'[r] \in Release
      BY <2>1, <3>1, SupersededType
    <3>. QED  BY <2>1, <3>1, <3>2, SupersededType, ConstantsOK
  <2>. HIDE DEF t
  <2>6. InStatus("draft")' = InStatus("draft") \ {t}
    BY <2>3, <2>4, <2>5 DEF InStatus
  <2>7. InStatus("published")' = {t}
    BY <2>1, <2>4, <2>5 DEF InStatus
  <2>8. InStatus("superseded")' = InStatus("superseded") \cup InStatus("published")
    BY <2>3, <2>4, <2>5 DEF InStatus
  <2>9. InStatus("withdrawn")' = InStatus("withdrawn")
    BY <2>3, <2>4, <2>5 DEF InStatus
  <2>10. t \in InStatus("draft")
    BY <2>1, <2>3 DEF InStatus
  <2>11. History!PutInForce(t)
    BY <2>6, <2>7, <2>8, <2>9, <2>10 DEF History!PutInForce
  <2>. QED  BY <2>1, <2>11 DEF History!RHNext
<1>. QED  BY <1>1, <1>2, PublishCases

(***************************************************************************)
(* The releases implement the history that the registry promises: one      *)
(* release at most is in force, and a publication puts it there and its    *)
(* predecessor on record in one step.                                      *)
(***************************************************************************)
THEOREM ImplementsHistory == Spec => HistoryContract
<1>1. Init => History!RHInit
  <2>. SUFFICES ASSUME Init PROVE History!RHInit
    OBVIOUS
  <2>1. ASSUME NEW r \in Releases, releases[r] # None PROVE releases[r].status = "draft"
    BY <2>1, ConstantsOK DEF Init
  <2>. QED  BY <2>1 DEF History!RHInit, InStatus
<1>2. TypeOK /\ [Next]_vars => [History!RHNext]_(History!rhVars)
  <2>. SUFFICES ASSUME TypeOK, [Next]_vars
                PROVE  History!RHNext \/ UNCHANGED History!rhVars
    OBVIOUS
  <2>. Typed
    BY DEF TypeOK
  <2>1. CASE UNCHANGED releases
    BY <2>1, HistoryQuiet DEF SameStatus
  <2>. QED
    BY <2>1, HistoryCreate, HistoryCalculate, HistoryWithdraw, HistoryPublish
    DEF Next, vars, dbVars, Tick, EditRegistry, ArriveRelease, ArriveDecision, Draft,
        CheckDraft, ReadState, FindExisting, ReadRelease, ReadSnapshot, RaiseRequest,
        Choose, LoadRequest, Approve, Reject, Decide, Expire, AppendAudit, Fail
<1>. QED
  BY <1>1, <1>2, TypeCorrect, PTL DEF Spec, HistoryContract, History!RHSpec

(***************************************************************************)
(* The four-eyes contract.  StateOf, RaisedBy and DecidedBy are the        *)
(* refinement mapping of Contract; a request that was not decided carries  *)
(* no decision.                                                            *)
(***************************************************************************)
StateOf   == [q \in Requests |-> IF requests[q] = None THEN "absent" ELSE requests[q].status]
RaisedBy  == [q \in Requests |-> IF requests[q] = None THEN {} ELSE {requests[q].by}]
DecidedBy == [q \in Requests |-> {d.admin : d \in {e \in decisions : e.request = q}}]

Undecided ==
    \A q \in Requests : requests[q] = None \/ requests[q].status = "pending"
        => \A d \in decisions : d.request # q

LEMMA DecisionSteps ==
    ASSUME TypeOK, [Next]_vars, NEW d \in decisions', d \notin decisions
    PROVE  d.request \in Requests =>
              requests'[d.request] # None /\ requests'[d.request].status # "pending"
<1>. Typed
  BY DEF TypeOK
<1>1. PICK w \in Calls, verdict \in {"approved", "rejected"} :
         pc[w] = "decide" /\ Decide(w, verdict)
  BY DEF Next, vars, dbVars, Tick, EditRegistry, ArriveRelease, ArriveDecision, Draft,
         CreateDraft, CheckDraft, ReadState, FindExisting, SaveSnapshot, ReadRelease,
         ReadSnapshot, RaiseRequest, Choose, LoadRequest, Approve, Reject, Expire,
         Publish, Withdraw, AppendAudit, Fail
<1>2. d.request = call[w].request /\ Resolve(call[w], verdict)
  BY <1>1 DEF Decide
<1>3. call[w].request \in Requests
  BY <1>1, Chosen
<1>. QED  BY <1>1, <1>2, <1>3, ResolveBecomes DEF Becomes, RequestStatuses

LEMMA UndecidedNext == TypeOK /\ Undecided /\ [Next]_vars => Undecided'
<1>. SUFFICES ASSUME TypeOK, Undecided, [Next]_vars,
                     NEW q \in Requests,
                     requests'[q] = None \/ requests'[q].status = "pending",
                     NEW d \in decisions', d.request = q
              PROVE  FALSE
  BY DEF Undecided
<1>1. d \in decisions
  BY DecisionSteps
<1>2. requests[q] = None \/ requests[q].status = "pending"
  BY RequestSteps DEF RequestChange, Raised, ApprovedNow, Closed, Becomes
<1>. QED  BY <1>1, <1>2 DEF Undecided

(* What the mapping makes of one request that changes its status.          *)
LEMMA StatusMapped ==
    ASSUME NEW q \in Requests, NEW s, Becomes(q, s),
           \A p \in Requests \ {q} : requests'[p] = requests[p]
    PROVE  StateOf' = [StateOf EXCEPT ![q] = s] /\ UNCHANGED RaisedBy
BY DEF Becomes, StateOf, RaisedBy

LEMMA ContractQuiet ==
    ASSUME UNCHANGED <<requests, decisions>>
    PROVE  UNCHANGED Contract!feVars
BY DEF Contract!feVars

LEMMA ContractRaise ==
    ASSUME Typed, NEW w \in Calls, RaiseRequest(w)
    PROVE  Contract!FENext
<1>1. CallOK(call[w], "raise") /\ call[w].admin \in Admins
  BY DEF Typed, CallsOK, RaiseRequest, CallOK, Call
<1>. PICK a \in Admins : a = call[w].admin
  BY <1>1
<1>2. PICK q \in Requests :
         requests[q] = None /\ requests' = [requests EXCEPT ![q] = NewRequest(call[w])]
  BY DEF RaiseRequest
<1>3. /\ NewRequest(call[w]) # None /\ NewRequest(call[w]).status = "pending"
      /\ NewRequest(call[w]).by = a
  BY <1>1, NewRequestType DEF NewRequest
<1>4. /\ requests'[q] # None /\ requests'[q].status = "pending" /\ requests'[q].by = a
      /\ \A p \in Requests \ {q} : requests'[p] = requests[p]
  BY <1>2, <1>3 DEF Typed, StoreOK
<1>5. /\ StateOf[q] = "absent" /\ StateOf' = [StateOf EXCEPT ![q] = "pending"]
      /\ RaisedBy' = [RaisedBy EXCEPT ![q] = {a}]
  <2>1. StateOf[q] = "absent"
    BY <1>2 DEF StateOf
  <2>2. StateOf' = [StateOf EXCEPT ![q] = "pending"]
    BY <1>4 DEF StateOf
  <2>3. RaisedBy' = [RaisedBy EXCEPT ![q] = {a}]
    BY <1>4 DEF RaisedBy
  <2>. QED  BY <2>1, <2>2, <2>3
<1>6. UNCHANGED DecidedBy
  BY DEF RaiseRequest, DecidedBy
<1>7. Contract!Raise(q, a)
  BY <1>5, <1>6 DEF Contract!Raise, StateOf, RaisedBy, DecidedBy
<1>. QED  BY <1>1, <1>7 DEF Contract!FENext

LEMMA ContractDecide ==
    ASSUME Typed, Undecided, NEW w \in Calls, NEW verdict \in {"approved", "rejected"},
           pc[w] = "decide", Decide(w, verdict)
    PROVE  Contract!FENext \/ UNCHANGED Contract!feVars
<1>. DEFINE c == call[w]
<1>1. CASE UNCHANGED <<decisions, requests>>
  BY <1>1, ContractQuiet
<1>. PICK q \in Requests, a \in Admins : q = c.request /\ a = c.admin
  BY Chosen
<1>. DEFINE d == [request |-> q, admin |-> a, verdict |-> verdict]
<1>2. CASE MayDecide(c) /\ Resolve(c, verdict) /\ decisions' = decisions \cup {d}
  <2>1. requests[q] \in Request
    BY Chosen
  <2>2. requests[q] # None
    BY <2>1, ConstantsOK
  <2>3. Becomes(q, verdict) /\ \A p \in Requests \ {q} : requests'[p] = requests[p]
    BY <1>2, <2>1, ResolveBecomes DEF RequestStatuses
  <2>4. requests[q].status = "pending" /\ requests[q].by # a
    BY <1>2 DEF MayDecide, Open
  <2>5. d.request = q /\ d.admin = a /\ \A e \in decisions : e.request # q
    BY <2>1, <2>4 DEF Undecided
  <2>6. decisions' = decisions \cup {d}
    BY <1>2
  <2>. HIDE DEF d, c
  <2>7. DecidedBy' = [DecidedBy EXCEPT ![q] = {a}]
    <3>1. ASSUME NEW p \in Requests
          PROVE  {e.admin : e \in {f \in decisions' : f.request = p}} =
                    IF p = q THEN {a}
                    ELSE {e.admin : e \in {f \in decisions : f.request = p}}
      BY <2>5, <2>6
    <3>. QED  BY <2>1, <3>1 DEF DecidedBy
  <2>8. /\ StateOf[q] = "pending" /\ StateOf' = [StateOf EXCEPT ![q] = verdict]
        /\ RaisedBy[q] = {requests[q].by} /\ UNCHANGED RaisedBy
    BY <2>1, <2>2, <2>3, <2>4, StatusMapped DEF StateOf, RaisedBy
  <2>9. Contract!Decide(q, a, verdict)
    BY <2>4, <2>7, <2>8 DEF Contract!Decide, StateOf, RaisedBy, DecidedBy
  <2>. QED  BY <2>1, <2>9 DEF Contract!FENext
<1>. QED  BY <1>1, <1>2 DEF Decide

(* A request is closed, or put into effect, without another decision.      *)
LEMMA ContractClose ==
    ASSUME Typed, NEW w \in Calls, Expire(w) \/ (Publish(w) /\ Publishes(w)),
           ~UNCHANGED requests
    PROVE  Contract!FENext
<1>1. pc[w] \in {"decide", "publish"}
  BY DEF Expire, Publish
<1>. PICK q \in Requests : q = call[w].request
  BY <1>1, Chosen
<1>2. requests[q] \in Request
  BY <1>1, Chosen
<1>3. requests[q] # None
  BY <1>2, ConstantsOK
<1>4. UNCHANGED DecidedBy
  BY DEF Expire, Publish, DecidedBy
<1>5. CASE Expire(w)
  <2>1. Resolve(call[w], "expired") /\ requests[q].status \in {"pending", "approved"}
    BY <1>5 DEF Expire, Decidable, PastDue
  <2>2. Becomes(q, "expired") /\ \A p \in Requests \ {q} : requests'[p] = requests[p]
    BY <1>1, <1>2, <2>1, ResolveBecomes DEF RequestStatuses
  <2>3. /\ StateOf[q] \in {"pending", "approved"} /\ UNCHANGED RaisedBy
        /\ StateOf' = [StateOf EXCEPT ![q] = "expired"]
    BY <1>2, <1>3, <2>1, <2>2, StatusMapped DEF StateOf
  <2>4. Contract!Lapse(q)
    BY <1>4, <2>3 DEF Contract!Lapse, Contract!Live, StateOf, RaisedBy, DecidedBy
  <2>. QED  BY <1>2, <2>4 DEF Contract!FENext
<1>6. CASE Publishes(w)
  <2>1. Resolve(call[w], "applied") /\ requests[q].status = "approved"
    BY <1>6 DEF Publishes
  <2>2. Becomes(q, "applied") /\ \A p \in Requests \ {q} : requests'[p] = requests[p]
    BY <1>1, <1>2, <2>1, ResolveBecomes DEF RequestStatuses
  <2>3. /\ StateOf[q] = "approved" /\ UNCHANGED RaisedBy
        /\ StateOf' = [StateOf EXCEPT ![q] = "applied"]
    BY <1>2, <1>3, <2>1, <2>2, StatusMapped DEF StateOf
  <2>4. Contract!PutIntoEffect(q)
    BY <1>4, <2>3 DEF Contract!PutIntoEffect, StateOf, RaisedBy, DecidedBy
  <2>. QED  BY <1>2, <2>4 DEF Contract!FENext
<1>. QED  BY <1>5, <1>6

LEMMA ContractNext ==
    TypeOK /\ Undecided /\ [Next]_vars => [Contract!FENext]_(Contract!feVars)
<1>. SUFFICES ASSUME TypeOK, Undecided, [Next]_vars
              PROVE  Contract!FENext \/ UNCHANGED Contract!feVars
  OBVIOUS
<1>. Typed
  BY DEF TypeOK
<1>1. CASE UNCHANGED <<requests, decisions>>
  BY <1>1, ContractQuiet
<1>2. ASSUME NEW w \in Calls, Approve(w) \/ Reject(w)
      PROVE  Contract!FENext \/ UNCHANGED Contract!feVars
  BY <1>2, ContractDecide DEF Approve, Reject
<1>3. ASSUME NEW w \in Calls, Expire(w) \/ Publish(w)
      PROVE  Contract!FENext \/ UNCHANGED Contract!feVars
  <2>1. UNCHANGED decisions
    BY <1>3 DEF Expire, Publish
  <2>. QED  BY <1>1, <1>3, <2>1, ContractClose, PublishCases
<1>. QED
  BY <1>1, <1>2, <1>3, ContractRaise
  DEF Next, vars, dbVars, Tick, EditRegistry, ArriveRelease, ArriveDecision, Draft,
      CreateDraft, CheckDraft, ReadState, FindExisting, SaveSnapshot, ReadRelease,
      ReadSnapshot, Choose, LoadRequest, Withdraw, AppendAudit, Fail

(***************************************************************************)
(* Requests to publish and their decisions implement the abstract contract *)
(* of an approval: one decision by another administrator, which at most    *)
(* one publication or expiry follows, and no way back from an outcome.     *)
(***************************************************************************)
THEOREM ImplementsFourEyes == Spec => FourEyesContract
<1>1. Init => Contract!FEInit /\ Undecided
  BY DEF Init, Contract!FEInit, Undecided
<1>. QED
  BY <1>1, UndecidedNext, ContractNext, TypeCorrect, PTL
  DEF Spec, FourEyesContract, Contract!FESpec

(***************************************************************************)
(* What the two contracts come to.                                         *)
(***************************************************************************)
LEMMA StatusStays ==
    ASSUME [History!RHNext]_(History!rhVars)
    PROVE  \A r \in Releases :
              releases[r] # None /\ releases[r].status \in {"superseded", "withdrawn"} =>
                 releases'[r] # None /\ releases'[r].status = releases[r].status
<1>1. InStatus("superseded") \subseteq InStatus("superseded")' /\ InStatus("withdrawn") \subseteq InStatus("withdrawn")'
  BY DEF History!RHNext, History!Draft, History!PutInForce, History!TakeBack, History!rhVars
<1>. QED
  BY <1>1 DEF InStatus

LEMMA InForceStep ==
    ASSUME \A r, s \in InStatus("published") : r = s, [History!RHNext]_(History!rhVars)
    PROVE  (\A r, s \in InStatus("published") : r = s)'
BY DEF History!RHNext, History!Draft, History!PutInForce, History!TakeBack, History!rhVars

(* One release is published at most, whatever publications and withdrawals *)
(* race, and one that was replaced or withdrawn never comes back.          *)
THEOREM OneInForce ==
    Spec => /\ [](\A r, s \in InStatus("published") : r = s)
            /\ [][\A r \in Releases :
                     releases[r] # None /\ releases[r].status \in {"superseded", "withdrawn"} =>
                        releases'[r] # None /\ releases'[r].status = releases[r].status]_vars
<1>. DEFINE Single == \A r, s \in InStatus("published") : r = s
<1>. DEFINE StaysClosed ==
        \A r \in Releases :
            releases[r] # None /\ releases[r].status \in {"superseded", "withdrawn"} =>
               releases'[r] # None /\ releases'[r].status = releases[r].status
<1>1. History!RHInit => Single
  BY DEF History!RHInit
<1>2. Single /\ [History!RHNext]_(History!rhVars) => Single'
  BY InForceStep
<1>3. [History!RHNext]_(History!rhVars) => StaysClosed
  BY StatusStays
<1>. HIDE DEF Single, StaysClosed
<1>4. Spec => []Single /\ [][StaysClosed]_vars
  BY <1>1, <1>2, <1>3, ImplementsHistory, PTL DEF HistoryContract, History!RHSpec
<1>. QED
  BY <1>4 DEF Single, StaysClosed

(* Those who raised a request and those who decided it: one at most each,  *)
(* and never the same.                                                     *)
Apart ==
    \A q \in Requests :
        /\ RaisedBy[q] \cap DecidedBy[q] = {}
        /\ \A a, b \in DecidedBy[q] : a = b
        /\ StateOf[q] \in {"absent", "pending"} => DecidedBy[q] = {}

LEMMA Mapped ==
    /\ DOMAIN StateOf = Requests /\ DOMAIN RaisedBy = Requests /\ DOMAIN DecidedBy = Requests
    /\ DOMAIN StateOf' = Requests /\ DOMAIN RaisedBy' = Requests /\ DOMAIN DecidedBy' = Requests
BY DEF StateOf, RaisedBy, DecidedBy

LEMMA ApartStep ==
    ASSUME Apart, [Contract!FENext]_(Contract!feVars)
    PROVE  Apart' /\ \A q \in Requests : StateOf[q] \in Contract!Resolved => StateOf'[q] = StateOf[q]
<1>. DEFINE StaysDecided == \A q \in Requests : StateOf[q] \in Contract!Resolved => StateOf'[q] = StateOf[q]
<1>1. ASSUME NEW q \in Requests, NEW a \in Admins, Contract!Raise(q, a) PROVE Apart' /\ StaysDecided
  <2>1. /\ StateOf[q] = "absent" /\ StateOf' = [StateOf EXCEPT ![q] = "pending"]
        /\ RaisedBy' = [RaisedBy EXCEPT ![q] = {a}] /\ DecidedBy' = DecidedBy
    BY <1>1 DEF Contract!Raise, StateOf, RaisedBy, DecidedBy
  <2>. QED
    BY <2>1, Mapped DEF Apart, Contract!Resolved
<1>2. ASSUME NEW q \in Requests, NEW a \in Admins, NEW outcome \in {"approved", "applied", "rejected"},
             Contract!Decide(q, a, outcome)
      PROVE  Apart' /\ StaysDecided
  <2>1. /\ StateOf[q] = "pending" /\ a \notin RaisedBy[q] /\ StateOf' = [StateOf EXCEPT ![q] = outcome]
        /\ DecidedBy' = [DecidedBy EXCEPT ![q] = {a}] /\ RaisedBy' = RaisedBy
    BY <1>2 DEF Contract!Decide, StateOf, RaisedBy, DecidedBy
  <2>. QED
    BY <2>1, Mapped DEF Apart, Contract!Resolved
<1>3. ASSUME NEW q \in Requests, Contract!PutIntoEffect(q) \/ Contract!Lapse(q) PROVE Apart' /\ StaysDecided
  <2>1. PICK outcome \in {"applied", "expired"} :
           /\ StateOf[q] \in {"pending", "approved"} /\ StateOf' = [StateOf EXCEPT ![q] = outcome]
           /\ DecidedBy' = DecidedBy /\ RaisedBy' = RaisedBy
    BY <1>3 DEF Contract!PutIntoEffect, Contract!Lapse, Contract!Live, StateOf, RaisedBy, DecidedBy
  <2>. QED
    BY <2>1, Mapped DEF Apart, Contract!Resolved
<1>4. CASE UNCHANGED Contract!feVars
  <2>1. StateOf' = StateOf /\ RaisedBy' = RaisedBy /\ DecidedBy' = DecidedBy
    BY <1>4 DEF Contract!feVars, StateOf, RaisedBy, DecidedBy
  <2>. QED
    BY <2>1 DEF Apart
<1>. QED
  BY <1>1, <1>2, <1>3, <1>4 DEF Contract!FENext

(* Nobody decides their own request to publish, one administrator at most  *)
(* decides about a request, and an outcome once reached is never left.     *)
THEOREM DecidedByAnother ==
    Spec => /\ [](\A d, e \in decisions : d.request = e.request /\ d.request \in Requests =>
                     requests[d.request] # None /\ d.admin # requests[d.request].by /\ d.admin = e.admin)
            /\ [][\A q \in Requests :
                     requests[q] # None /\ requests[q].status \in {"applied", "rejected", "expired"} =>
                        requests'[q] # None /\ requests'[q].status = requests[q].status]_vars
<1>. DEFINE Proper ==
        \A d, e \in decisions : d.request = e.request /\ d.request \in Requests =>
            requests[d.request] # None /\ d.admin # requests[d.request].by /\ d.admin = e.admin
<1>. DEFINE Final ==
        \A q \in Requests :
            requests[q] # None /\ requests[q].status \in {"applied", "rejected", "expired"} =>
               requests'[q] # None /\ requests'[q].status = requests[q].status
<1>1. Contract!FEInit => Apart
  BY DEF Contract!FEInit, Apart, StateOf, RaisedBy, DecidedBy
<1>2. Apart /\ [Contract!FENext]_(Contract!feVars) => Apart' /\ Final
  <2>. SUFFICES ASSUME Apart, [Contract!FENext]_(Contract!feVars) PROVE Apart' /\ Final
    OBVIOUS
  <2>1. Apart' /\ \A q \in Requests : StateOf[q] \in Contract!Resolved => StateOf'[q] = StateOf[q]
    BY ApartStep
  <2>2. \A q \in Requests : StateOf[q] \in Contract!Resolved => StateOf'[q] \in Contract!Resolved
    BY <2>1
  <2>. QED
    BY <2>1, <2>2 DEF StateOf, Contract!Resolved
<1>3. Apart => Proper
  <2>. SUFFICES ASSUME Apart, NEW d \in decisions, NEW e \in decisions,
                       d.request = e.request, d.request \in Requests
                PROVE  requests[d.request] # None /\ d.admin # requests[d.request].by /\ d.admin = e.admin
    OBVIOUS
  <2>1. PICK q \in Requests : q = d.request
    OBVIOUS
  <2>2. d.admin \in DecidedBy[q] /\ e.admin \in DecidedBy[q]
    BY <2>1 DEF DecidedBy
  <2>3. StateOf[q] # "absent" /\ d.admin \notin RaisedBy[q] /\ d.admin = e.admin
    BY <2>2 DEF Apart
  <2>. QED
    BY <2>1, <2>3 DEF StateOf, RaisedBy
<1>. HIDE DEF Proper, Final
<1>4. Spec => []Proper /\ [][Final]_vars
  BY <1>1, <1>2, <1>3, ImplementsFourEyes, PTL DEF FourEyesContract, Contract!FESpec
<1>. QED
  BY <1>4 DEF Proper, Final
=============================================================================

---------------------------- MODULE Clients_proofs ----------------------------
(***************************************************************************)
(* What holds of the pages of both applications and of the check of a      *)
(* handle, for any constants, however many requests are under way, and in  *)
(* whatever order their answers arrive.                                    *)
(***************************************************************************)
EXTENDS Clients, FiniteSetTheorems, SequenceTheorems, TLAPS

(***************************************************************************)
(* The console: a page, its resource hook and its writes.                  *)
(***************************************************************************)
Visited == [page : Pages, uses : SUBSET Actions, moves : Nat, sends : Nat, writes : Nat]

Requests == [key : Keys, live : BOOLEAN, read : Snapshots \cup {None}]

Writes == [action : Actions, rec : Records, ours : BOOLEAN, state : {"sent", "applied", "over"},
           expects : Nat \cup {None}, version : Nat]

Rows == [status : Statuses, version : Nat]

PageTyped ==
    /\ visit \in Visited
    /\ place \in Records \cup {None}
    /\ attempt \in Nat
    /\ settled \in Answers \cup {None}
    /\ loads \subseteq Requests
    /\ dialog \in Actions \cup {None}
    /\ dialog # None => visit.page # "list"
    /\ editor \in BOOLEAN /\ busy \in BOOLEAN

ServerTyped ==
    /\ sent \in Seq(Writes)
    /\ rows \in [Records -> Rows]
    /\ told \in [Records -> Nat]

Typed == PageTyped /\ ServerTyped

(* Only the request for the record of the address is listened to.          *)
Heeding == \A l \in loads : l.live => l.key = Key

(* A write that is still ours was sent from the page as it is mounted.     *)
Present == \A i \in DOMAIN sent : sent[i].ours => place # None

(* Nothing is told of a version that the database has not reached.         *)
Told ==
    /\ \A r \in Records : told[r] =< rows[r].version
    /\ \A i \in DOMAIN sent : sent[i].version =< rows[sent[i].rec].version

FreshFor(data, key) == data.rec = key[1] /\ data.version >= told[key[1]]

(* What was read for a request that is listened to is not older than what  *)
(* the page was told: an acknowledgement aborts every request before it.   *)
Reading == \A l \in loads : l.live /\ l.read # None => FreshFor(l.read, l.key)

(* Nor is the answer that is kept, unless it belongs to an attempt before. *)
Keeping ==
    settled # None =>
        /\ settled.key[2] =< attempt
        /\ settled.data # None =>
              /\ settled.data.rec = settled.key[1]
              /\ settled.key[2] = attempt => FreshFor(settled.data, settled.key)

UnderWay == {i \in DOMAIN sent : sent[i].ours /\ sent[i].state # "over" /\ Guarded(sent[i].action)}

HasReset == \E k \in DOMAIN sent : sent[k].action = "reset"

(* A guarded write is under way only behind the busy flag, until a reset   *)
(* of a checkpoint lowers the flag for a run.                              *)
Flagged == HasReset \/ UnderWay = {} \/ busy

Inv ==
    /\ Typed /\ Heeding /\ Present /\ Told /\ Reading /\ Keeping
    /\ LoadingEnds /\ Flagged /\ OneAtATime

(***************************************************************************)
(* What is offered and sent has a name.                                    *)
(***************************************************************************)
LEMMA OffersNamed ==
    ASSUME NEW status
    PROVE  Offers(status) \subseteq Actions /\ (visit.page = "list" => Offers(status) = {})
  BY DEF Offers, EvidenceOffers, HandleOffers, CandidateOffers, SubmissionOffers, ImportOffers,
         ReleaseOffers, ApprovalOffers, Actions

LEMMA DirectNamed == Direct \subseteq Actions /\ (visit.page # "approval" => "expire" \notin Direct)
  BY DEF Direct, EvidenceForms, DecisionForm, CreatorForm, SourceButtons, ListForms, Actions

LEMMA AfterNamed ==
    ASSUME NEW action \in Actions, NEW status \in Statuses
    PROVE  After(action, status) \in Statuses
  BY DEF After, Statuses

LEMMA KeyTyped ==
    ASSUME Typed, place # None
    PROVE  Key \in Keys /\ Asked(place, attempt) \in Requests /\ Asked(place, attempt + 1) \in Requests
  BY DEF Typed, PageTyped, Key, Keys, Asked, Requests

LEMMA AbortedTyped ==
    ASSUME Typed
    PROVE  Aborted(loads) \subseteq Requests /\ \A l \in Aborted(loads) : ~l.live
  BY DEF Typed, PageTyped, Aborted, Requests

(***************************************************************************)
(* Types.                                                                  *)
(***************************************************************************)
LEMMA TypedInit == ConstantsOK /\ Init => Typed
<1>1. ASSUME ConstantsOK, Init PROVE PageTyped
  BY <1>1 DEF ConstantsOK, Init, PageTyped, Visited
<1>2. ASSUME ConstantsOK, Init PROVE ServerTyped
  <2>1. \A s \in Fresh(visit.page) : [status |-> s, version |-> 0] \in Rows
    BY DEF Fresh, Rows, Statuses
  <2>2. rows \in [Records -> Rows]
    BY <1>2, <2>1 DEF Init
  <2>3. sent \in Seq(Writes)
    BY <1>2 DEF Init
  <2>. QED
    BY <1>2, <2>2, <2>3 DEF Init, ServerTyped
<1>. QED
  BY <1>1, <1>2 DEF Typed

(* The page of a visit stays, and what is left to do stays a number.       *)
LEMMA SpendTyped ==
    ASSUME Typed, NEW what \in {"moves", "sends", "writes"}, Spend(what)
    PROVE  visit' \in Visited /\ visit'.page = visit.page
  BY DEF Typed, PageTyped, Visited, Spend

LEMMA ShownTyped ==
    ASSUME Typed, Shown # None
    PROVE  Shown \in Snapshots /\ Current /\ settled \in Answers /\ Shown = settled.data
  BY DEF Typed, PageTyped, Shown, Current, Answers

LEMMA WriteTyped ==
    ASSUME Typed, NEW i \in DOMAIN sent
    PROVE  sent[i] \in Writes /\ sent[i].rec \in Records /\ i \in Nat /\ DOMAIN sent = 1 .. Len(sent)
<1>1. sent \in Seq(Writes)
  BY DEF Typed, ServerTyped
<1>2. sent[i] \in Writes
  BY <1>1
<1>3. sent[i].rec \in Records
  BY <1>2 DEF Writes
<1>. QED
  BY <1>1, <1>2, <1>3

LEMMA StrangersTyped ==
    ASSUME Typed
    PROVE  /\ Strangers \in Seq(Writes) /\ DOMAIN Strangers = DOMAIN sent
           /\ \A i \in DOMAIN sent : Strangers[i] = [sent[i] EXCEPT !.ours = FALSE]
           /\ \A i \in DOMAIN sent : ~Strangers[i].ours
<1>1. DOMAIN sent = 1 .. Len(sent) /\ Len(sent) \in Nat
  BY DEF Typed, ServerTyped
<1>2. \A w \in Writes : [w EXCEPT !.ours = FALSE] \in Writes /\ ~[w EXCEPT !.ours = FALSE].ours
  BY DEF Writes
<1>3. \A i \in DOMAIN sent : Strangers[i] = [sent[i] EXCEPT !.ours = FALSE]
  BY DEF Strangers
<1>4. \A i \in 1 .. Len(sent) : Strangers[i] \in Writes /\ ~Strangers[i].ours
  <2>1. TAKE i \in 1 .. Len(sent)
  <2>2. PICK w \in Writes : w = sent[i]
    BY <1>1, WriteTyped
  <2>3. Strangers[i] = [w EXCEPT !.ours = FALSE]
    BY <1>1, <1>3, <2>2
  <2>. QED
    BY <1>2, <2>3
<1>5. DOMAIN Strangers = 1 .. Len(sent) /\ Strangers = [i \in 1 .. Len(sent) |-> Strangers[i]]
  BY <1>1 DEF Strangers
<1>6. Strangers \in Seq(Writes)
  BY <1>1, <1>4, <1>5
<1>. QED
  BY <1>1, <1>3, <1>4, <1>5, <1>6

LEMMA SnapshotTyped ==
    ASSUME Typed, NEW r \in Records
    PROVE  Snapshot(r) \in Snapshots /\ Snapshot(r).rec = r /\ Snapshot(r).version = rows[r].version
  BY DEF Typed, ServerTyped, Snapshot, Snapshots, Rows

(* Mounting, going and loading again ask for the record of the address.    *)
LEMMA ReloadTyped ==
    ASSUME Typed, NEW r \in Records, NEW a \in Nat, Reload(r, a)
    PROVE  /\ loads' \subseteq Requests
           /\ \A l \in loads' : l.live => l = Asked(r, a)
           /\ Asked(r, a) \in loads' /\ Asked(r, a).live
           /\ Asked(r, a).key = <<r, a>> /\ Asked(r, a).read = None
<1>1. /\ Asked(r, a) \in Requests /\ Asked(r, a).live
      /\ Asked(r, a).key = <<r, a>> /\ Asked(r, a).read = None
  BY DEF Asked, Requests, Keys
<1>. QED
  BY <1>1, AbortedTyped DEF Reload

LEMMA EntryTyped ==
    ASSUME Typed, NEW i \in DOMAIN sent,
           NEW w \in Writes, sent' = [sent EXCEPT ![i] = w]
    PROVE  sent' \in Seq(Writes)
  BY WriteTyped DEF Typed, ServerTyped

LEMMA OverTyped ==
    ASSUME Typed, NEW i \in DOMAIN sent, Over(i)
    PROVE  sent' \in Seq(Writes)
<1>1. PICK w \in Writes : w = sent[i]
  BY WriteTyped
<1>2. [w EXCEPT !.state = "over"] \in Writes
  BY DEF Writes
<1>3. sent' = [sent EXCEPT ![i] = [w EXCEPT !.state = "over"]]
  BY <1>1 DEF Over
<1>. QED
  BY <1>2, <1>3, EntryTyped

LEMMA VisitTyped ==
    ASSUME Typed, Present, [Next]_consoleVars
    PROVE  visit' \in Visited /\ visit'.page = visit.page
<1>. visit \in Visited
  BY DEF Typed, PageTyped
<1>1. CASE Leave
  BY <1>1, SpendTyped DEF Leave
<1>2. CASE TryAgain
  BY <1>2, SpendTyped DEF TryAgain
<1>3. CASE Open \/ Cancel \/ Edit
  BY <1>3 DEF Open, Cancel, Edit, Touch
<1>4. CASE Confirm \/ Submit
  <2>1. PICK action : Send(action)
    BY <1>4 DEF Confirm, Submit
  <2>. QED
    BY <2>1, SpendTyped DEF Send
<1>5. ASSUME NEW r \in Records, Mount(r) \/ Go(r) \/ OtherWrite(r) PROVE visit' \in Visited /\ visit'.page = visit.page
  BY <1>5, SpendTyped DEF Mount, Go, OtherWrite
<1>6. ASSUME NEW l \in loads, Read(l) \/ Answer(l) \/ Unanswered(l) PROVE visit' = visit
  BY <1>6 DEF Read, Answer, Unanswered, Keep
<1>7. ASSUME NEW i \in DOMAIN sent, Apply(i) \/ Acknowledge(i) \/ Saved(i) \/ Reject(i) PROVE visit' = visit
  BY <1>7 DEF Apply, Acknowledge, Saved, Reject
<1>8. CASE UNCHANGED consoleVars
  BY <1>8 DEF consoleVars
<1>. QED
  BY <1>1, <1>2, <1>3, <1>4, <1>5, <1>6, <1>7, <1>8 DEF Next

LEMMA LoadsTyped ==
    ASSUME Typed, Present, [Next]_consoleVars
    PROVE  loads' \subseteq Requests
<1>. loads \subseteq Requests /\ attempt \in Nat /\ attempt + 1 \in Nat
  BY DEF Typed, PageTyped
<1>. place # None => place \in Records
  BY DEF Typed, PageTyped
<1>1. CASE Leave
  BY <1>1, AbortedTyped DEF Leave
<1>2. CASE TryAgain
  <2>1. Reload(place, attempt + 1)
    BY <1>2 DEF TryAgain, Reload
  <2>. QED
    BY <1>2, <2>1, ReloadTyped DEF TryAgain
<1>3. CASE Open \/ Cancel \/ Edit
  BY <1>3 DEF Open, Cancel, Edit, Touch
<1>4. CASE Confirm \/ Submit
  <2>1. PICK action : Send(action)
    BY <1>4 DEF Confirm, Submit
  <2>. QED
    BY <2>1 DEF Send
<1>5. ASSUME NEW r \in Records, Mount(r) \/ Go(r) \/ OtherWrite(r) PROVE loads' \subseteq Requests
  BY <1>5, ReloadTyped DEF Mount, Go, OtherWrite
<1>6. ASSUME NEW l \in loads, Read(l) PROVE loads' \subseteq Requests
  <2>1. l \in Requests /\ l.key[1] \in Records
    BY <1>6 DEF Requests, Keys
  <2>2. [l EXCEPT !.read = Snapshot(l.key[1])] \in Requests
    BY <2>1, SnapshotTyped DEF Requests
  <2>. QED
    BY <1>6, <2>2 DEF Read
<1>7. ASSUME NEW l \in loads, Answer(l) \/ Unanswered(l) PROVE loads' \subseteq Requests
  BY <1>7 DEF Answer, Unanswered, Keep
<1>8. ASSUME NEW i \in DOMAIN sent, Apply(i) \/ Saved(i) \/ Reject(i) PROVE loads' \subseteq Requests
  BY <1>8, AbortedTyped DEF Apply, Saved, Reject
<1>9. ASSUME NEW i \in DOMAIN sent, Acknowledge(i) PROVE loads' \subseteq Requests
  <2>1. place # None /\ Reload(place, attempt + 1)
    BY <1>9 DEF Acknowledge, Present, Reload
  <2>. QED
    BY <2>1, ReloadTyped
<1>10. CASE UNCHANGED consoleVars
  BY <1>10 DEF consoleVars
<1>. QED
  BY <1>1, <1>2, <1>3, <1>4, <1>5, <1>6, <1>7, <1>8, <1>9, <1>10 DEF Next

LEMMA SettledTyped ==
    ASSUME Typed, [Next]_consoleVars
    PROVE  settled' \in Answers \cup {None}
<1>. settled \in Answers \cup {None}
  BY DEF Typed, PageTyped
<1>1. CASE Leave \/ TryAgain \/ Open \/ Cancel \/ Edit
  BY <1>1 DEF Leave, TryAgain, Open, Cancel, Edit, Touch
<1>2. CASE Confirm \/ Submit
  <2>1. PICK action : Send(action)
    BY <1>2 DEF Confirm, Submit
  <2>. QED
    BY <2>1 DEF Send
<1>3. ASSUME NEW r \in Records, Mount(r) \/ Go(r) \/ OtherWrite(r) PROVE settled' \in Answers \cup {None}
  BY <1>3 DEF Mount, Go, OtherWrite
<1>4. ASSUME NEW l \in loads, Read(l) \/ Answer(l) \/ Unanswered(l) PROVE settled' \in Answers \cup {None}
  <2>1. l.key \in Keys /\ l.read \in Snapshots \cup {None}
    BY <1>4 DEF Typed, PageTyped, Requests
  <2>. QED
    BY <1>4, <2>1 DEF Read, Answer, Unanswered, Keep, Answers
<1>5. ASSUME NEW i \in DOMAIN sent, Apply(i) \/ Acknowledge(i) \/ Saved(i) \/ Reject(i) PROVE settled' = settled
  BY <1>5 DEF Apply, Acknowledge, Saved, Reject
<1>6. CASE UNCHANGED consoleVars
  BY <1>6 DEF consoleVars
<1>. QED
  BY <1>1, <1>2, <1>3, <1>4, <1>5, <1>6 DEF Next

(* What is sent has a name, and only an expiry names a version.            *)
LEMMA SentTyped ==
    ASSUME Typed, NEW action, Send(action),
           \/ action = dialog /\ dialog # None
           \/ action \in Direct
    PROVE  /\ action \in Actions /\ place \in Records
           /\ sent' \in Seq(Writes) /\ Len(sent') = Len(sent) + 1
           /\ DOMAIN sent' = DOMAIN sent \cup {Len(sent) + 1}
           /\ \A i \in DOMAIN sent : sent'[i] = sent[i]
           /\ sent'[Len(sent) + 1].action = action /\ sent'[Len(sent) + 1].rec = place
           /\ sent'[Len(sent) + 1].version = 0
<1>1. action \in Actions
  BY DirectNamed DEF Typed, PageTyped
<1>2. place # None /\ place \in Records
  BY DEF Send, Usable, Typed, PageTyped
<1>3. action = "expire" => visit.page # "list"
  BY DirectNamed DEF Typed, PageTyped
<1>4. PICK e \in Nat \cup {None} : e = IF action = "expire" THEN Shown.version ELSE None
  <2>1. CASE action # "expire"
    BY <2>1
  <2>2. CASE action = "expire"
    <3>1. Shown # None
      BY <1>3, <2>2 DEF Send, Usable
    <3>2. Shown.version \in Nat
      BY <3>1, ShownTyped DEF Snapshots
    <3>. QED
      BY <2>2, <3>2
  <2>. QED
    BY <2>1, <2>2
<1>5. PICK w : w = [action |-> action, rec |-> place, ours |-> TRUE, state |-> "sent", expects |-> e, version |-> 0]
  OBVIOUS
<1>6. w \in Writes /\ w.action = action /\ w.rec = place /\ w.version = 0
  BY <1>1, <1>2, <1>5 DEF Writes
<1>7. sent' = Append(sent, w)
  BY <1>4, <1>5 DEF Send
<1>8. sent \in Seq(Writes)
  BY DEF Typed, ServerTyped
<1>. QED
  BY <1>1, <1>2, <1>6, <1>7, <1>8

LEMMA PageStep ==
    ASSUME Typed, [Next]_consoleVars
    PROVE  /\ place' \in Records \cup {None} /\ attempt' \in Nat
           /\ dialog' \in Actions \cup {None} /\ (dialog' # None => visit.page # "list")
           /\ editor' \in BOOLEAN /\ busy' \in BOOLEAN
<1>. /\ place \in Records \cup {None} /\ attempt \in Nat
     /\ dialog \in Actions \cup {None} /\ (dialog # None => visit.page # "list")
     /\ editor \in BOOLEAN /\ busy \in BOOLEAN
  BY DEF Typed, PageTyped
<1>1. CASE Leave \/ TryAgain
  BY <1>1 DEF Leave, TryAgain, pageVars
<1>2. CASE Open
  BY <1>2, OffersNamed DEF Open, Touch
<1>3. CASE Cancel \/ Edit
  BY <1>3 DEF Cancel, Edit, Touch
<1>4. CASE Confirm \/ Submit
  <2>1. PICK action : Send(action)
    BY <1>4 DEF Confirm, Submit
  <2>2. (busy \/ SetsBusy(action)) \in BOOLEAN
    OBVIOUS
  <2>. QED
    BY <2>1, <2>2 DEF Send
<1>5. ASSUME NEW r \in Records, Mount(r) \/ Go(r) \/ OtherWrite(r)
      PROVE  /\ place' \in Records \cup {None} /\ attempt' \in Nat
             /\ dialog' \in Actions \cup {None} /\ (dialog' # None => visit.page # "list")
             /\ editor' \in BOOLEAN /\ busy' \in BOOLEAN
  <2>1. CASE Mount(r)
    BY <2>1 DEF Mount
  <2>2. CASE Go(r)
    BY <2>2 DEF Go, pageVars
  <2>3. CASE OtherWrite(r)
    BY <2>3 DEF OtherWrite, pageVars
  <2>. QED
    BY <1>5, <2>1, <2>2, <2>3
<1>6. ASSUME NEW l \in loads, Read(l) \/ Answer(l) \/ Unanswered(l) PROVE UNCHANGED <<place, attempt, pageVars>>
  BY <1>6 DEF Read, Answer, Unanswered, Keep
<1>7. ASSUME NEW i \in DOMAIN sent, Apply(i) \/ Acknowledge(i) \/ Saved(i) \/ Reject(i)
      PROVE  /\ place' \in Records \cup {None} /\ attempt' \in Nat
             /\ dialog' \in Actions \cup {None} /\ (dialog' # None => visit.page # "list")
             /\ editor' \in BOOLEAN /\ busy' \in BOOLEAN
  <2>1. CASE Apply(i)
    BY <2>1 DEF Apply, pageVars
  <2>2. CASE Acknowledge(i)
    BY <2>2 DEF Acknowledge
  <2>3. CASE Saved(i)
    BY <2>3 DEF Saved
  <2>4. CASE Reject(i)
    BY <2>4 DEF Reject
  <2>. QED
    BY <1>7, <2>1, <2>2, <2>3, <2>4
<1>8. CASE UNCHANGED consoleVars
  BY <1>8 DEF consoleVars, pageVars
<1>. QED
  BY <1>1, <1>2, <1>3, <1>4, <1>5, <1>6, <1>7, <1>8 DEF Next, pageVars

LEMMA AdvancedTyped ==
    ASSUME Typed, NEW r \in Records, NEW status \in Statuses,
           rows' = [rows EXCEPT ![r] = Advanced(rows[r], status)]
    PROVE  /\ rows' \in [Records -> Rows]
           /\ rows'[r].version = rows[r].version + 1
           /\ \A q \in Records : rows'[q].version >= rows[q].version
<1>1. PICK v \in Nat : v = rows[r].version
  BY DEF Typed, ServerTyped, Rows
<1>2. PICK a \in Rows : a = Advanced(rows[r], status) /\ a.version = v + 1
  <2>1. [status |-> status, version |-> v + 1] \in Rows
    BY DEF Rows
  <2>. QED
    BY <1>1, <2>1 DEF Advanced
<1>3. rows \in [Records -> Rows] /\ \A q \in Records : rows[q].version \in Nat
  BY DEF Typed, ServerTyped, Rows
<1>. QED
  BY <1>1, <1>2, <1>3

(* The server's part of a write: the row has another version, the write    *)
(* knows which.                                                            *)
LEMMA ApplyTyped ==
    ASSUME Typed, NEW i \in DOMAIN sent, Apply(i)
    PROVE  /\ rows' \in [Records -> Rows] /\ sent' \in Seq(Writes)
           /\ \A q \in Records : rows'[q].version >= rows[q].version
           /\ DOMAIN sent' = DOMAIN sent
           /\ \A j \in DOMAIN sent \ {i} : sent'[j] = sent[j]
           /\ sent'[i].version = rows'[sent[i].rec].version /\ sent'[i].rec = sent[i].rec
           /\ sent'[i].ours = sent[i].ours /\ sent'[i].action = sent[i].action
           /\ sent[i].state = "sent" /\ sent'[i].state = "applied"
<1>1. PICK w \in Writes : w = sent[i]
  BY WriteTyped
<1>2. w.rec \in Records /\ w.action \in Actions
  BY <1>1 DEF Writes
<1>3. PICK status \in Statuses : status = After(w.action, rows[w.rec].status)
  <2>1. rows[w.rec].status \in Statuses
    BY <1>2 DEF Typed, ServerTyped, Rows
  <2>. QED
    BY <1>2, <2>1, AfterNamed
<1>4. rows' = [rows EXCEPT ![w.rec] = Advanced(rows[w.rec], status)]
  BY <1>1, <1>3 DEF Apply
<1>5. PICK v \in Nat : v = rows[w.rec].version + 1
  BY <1>2 DEF Typed, ServerTyped, Rows
<1>6. PICK n \in Writes : n = [w EXCEPT !.state = "applied", !.version = v]
  BY DEF Writes
<1>7. sent' = [sent EXCEPT ![i] = n]
  BY <1>1, <1>5, <1>6 DEF Apply
<1>8. n.version = v /\ n.state = "applied" /\ n.rec = w.rec /\ n.ours = w.ours /\ n.action = w.action
  BY <1>6 DEF Writes
<1>9. sent' \in Seq(Writes)
  BY <1>7, EntryTyped
<1>10. DOMAIN sent' = DOMAIN sent /\ sent'[i] = n /\ \A j \in DOMAIN sent \ {i} : sent'[j] = sent[j]
  BY <1>7
<1>11. sent[i].state = "sent"
  BY DEF Apply
<1>. QED
  BY <1>1, <1>2, <1>4, <1>5, <1>8, <1>9, <1>10, <1>11, AdvancedTyped

(***************************************************************************)
(* The rows, the writes, and what the page was told of.                    *)
(***************************************************************************)
(* What every action keeps of a write under way.                           *)
SentKept ==
    /\ sent' \in Seq(Writes) /\ DOMAIN sent \subseteq DOMAIN sent'
    /\ \A i \in DOMAIN sent : sent'[i].rec = sent[i].rec /\ sent'[i].action = sent[i].action
    /\ \A i \in DOMAIN sent : sent'[i].ours => sent[i].ours

LEMMA SameSent == ASSUME Typed, sent' = sent PROVE SentKept
  BY DEF Typed, ServerTyped, SentKept

LEMMA OverKept ==
    ASSUME Typed, NEW i \in DOMAIN sent, Over(i)
    PROVE  /\ SentKept /\ DOMAIN sent' = DOMAIN sent
           /\ \A j \in DOMAIN sent : sent'[j].version = sent[j].version /\ sent'[j].ours = sent[j].ours
           /\ sent'[i].state = "over"
           /\ \A j \in DOMAIN sent \ {i} : sent'[j] = sent[j]
<1>1. PICK w \in Writes : w = sent[i]
  BY WriteTyped
<1>2. PICK n \in Writes : n = [w EXCEPT !.state = "over"]
  BY DEF Writes
<1>3. n.rec = w.rec /\ n.action = w.action /\ n.ours = w.ours /\ n.version = w.version /\ n.state = "over"
  BY <1>2 DEF Writes
<1>4. sent' = [sent EXCEPT ![i] = n]
  BY <1>1, <1>2 DEF Over
<1>5. DOMAIN sent' = DOMAIN sent /\ sent'[i] = n /\ \A j \in DOMAIN sent \ {i} : sent'[j] = sent[j]
  BY <1>4
<1>. QED
  BY <1>1, <1>3, <1>5, OverTyped DEF SentKept

LEMMA StrangersKept ==
    ASSUME Typed, sent' = Strangers
    PROVE  /\ SentKept /\ DOMAIN sent' = DOMAIN sent
           /\ \A j \in DOMAIN sent : sent'[j].version = sent[j].version /\ ~sent'[j].ours
<1>1. ASSUME NEW j \in DOMAIN sent
      PROVE  /\ sent'[j].rec = sent[j].rec /\ sent'[j].action = sent[j].action
             /\ sent'[j].version = sent[j].version /\ ~sent'[j].ours
  <2>1. PICK w \in Writes : w = sent[j]
    BY WriteTyped
  <2>2. sent'[j] = [w EXCEPT !.ours = FALSE]
    BY <2>1, StrangersTyped
  <2>3. PICK n \in Writes : n = [w EXCEPT !.ours = FALSE]
    BY DEF Writes
  <2>4. n.rec = w.rec /\ n.action = w.action /\ n.version = w.version /\ ~n.ours
    BY <2>3 DEF Writes
  <2>. QED
    BY <2>1, <2>2, <2>3, <2>4
<1>. QED
  BY <1>1, StrangersTyped DEF SentKept

LEMMA SavedKept ==
    ASSUME Typed, NEW i \in DOMAIN sent, Saved(i)
    PROVE  /\ SentKept /\ DOMAIN sent' = DOMAIN sent
           /\ \A j \in DOMAIN sent : sent'[j].version = sent[j].version /\ ~sent'[j].ours
<1>1. PICK s : s = Strangers
  OBVIOUS
<1>2. /\ s \in Seq(Writes) /\ DOMAIN s = DOMAIN sent
      /\ \A j \in DOMAIN sent : s[j] = [sent[j] EXCEPT !.ours = FALSE]
  BY <1>1, StrangersTyped
<1>3. ASSUME NEW j \in DOMAIN sent
      PROVE  /\ s[j] \in Writes /\ s[j].rec = sent[j].rec /\ s[j].action = sent[j].action
             /\ s[j].version = sent[j].version /\ ~s[j].ours
  <2>1. PICK w \in Writes : w = sent[j]
    BY WriteTyped
  <2>2. PICK n \in Writes : n = [w EXCEPT !.ours = FALSE]
    BY DEF Writes
  <2>3. n.rec = w.rec /\ n.action = w.action /\ n.version = w.version /\ ~n.ours
    BY <2>2 DEF Writes
  <2>. QED
    BY <1>2, <2>1, <2>2, <2>3
<1>4. PICK w \in Writes : w = s[i]
  BY <1>3
<1>5. PICK n \in Writes : n = [w EXCEPT !.state = "over"]
  BY DEF Writes
<1>6. n.rec = w.rec /\ n.action = w.action /\ n.version = w.version /\ n.ours = w.ours
  BY <1>5 DEF Writes
<1>7. sent' = [s EXCEPT ![i] = n]
  BY <1>1, <1>4, <1>5 DEF Saved
<1>8. sent' \in Seq(Writes) /\ DOMAIN sent' = DOMAIN sent
  BY <1>2, <1>7
<1>9. sent'[i] = n /\ \A j \in DOMAIN sent \ {i} : sent'[j] = s[j]
  BY <1>2, <1>7
<1>. QED
  BY <1>3, <1>4, <1>6, <1>8, <1>9 DEF SentKept

LEMMA AcknowledgeTold ==
    ASSUME Typed, Told, NEW i \in DOMAIN sent, Acknowledge(i)
    PROVE  told' \in [Records -> Nat] /\ rows' = rows /\ \A r \in Records : told'[r] =< rows[r].version
<1>1. PICK w \in Writes : w = sent[i]
  BY WriteTyped
<1>2. w.rec \in Records /\ w.version \in Nat /\ w.version =< rows[w.rec].version
  BY <1>1 DEF Writes, Told
<1>3. told' = [told EXCEPT ![w.rec] = IF w.version > told[w.rec] THEN w.version ELSE told[w.rec]]
  BY <1>1 DEF Acknowledge
<1>4. told \in [Records -> Nat] /\ \A r \in Records : told[r] =< rows[r].version
  BY DEF Typed, ServerTyped, Told
<1>5. rows' = rows
  BY DEF Acknowledge
<1>. QED
  BY <1>2, <1>3, <1>4, <1>5

(* A row that advances leaves every write where it was: not ahead of it.   *)
LEMMA StillReached ==
    ASSUME Typed, Told, rows' \in [Records -> Rows],
           \A q \in Records : rows'[q].version >= rows[q].version,
           NEW j \in DOMAIN sent
    PROVE  sent[j].version =< rows'[sent[j].rec].version
<1>1. PICK w \in Writes : w = sent[j]
  BY WriteTyped
<1>2. PICK r \in Records : r = w.rec
  BY DEF Writes
<1>3. PICK v \in Nat : v = w.version
  BY DEF Writes
<1>4. PICK b \in Nat : b = rows[r].version
  BY DEF Typed, ServerTyped, Rows
<1>5. PICK c \in Nat : c = rows'[r].version
  BY DEF Rows
<1>6. v =< b
  BY <1>1, <1>2, <1>3, <1>4 DEF Told
<1>7. c >= b
  BY <1>4, <1>5
<1>. QED
  BY <1>1, <1>2, <1>3, <1>5, <1>6, <1>7

(* The rows only advance, a write is never changed into another one, and   *)
(* a write that is answered is at a version the row has reached.           *)
LEMMA ServerStep ==
    ASSUME Typed, Told, [Next]_consoleVars
    PROVE  /\ SentKept /\ ServerTyped' /\ Told'
           /\ \A r \in Records : rows'[r].version >= rows[r].version
<1>0. /\ sent \in Seq(Writes) /\ rows \in [Records -> Rows] /\ told \in [Records -> Nat]
      /\ \A r \in Records : rows[r].version \in Nat
  BY DEF Typed, ServerTyped, Rows
<1>1. ASSUME rows' = rows, told' = told, SentKept, DOMAIN sent' = DOMAIN sent,
             \A j \in DOMAIN sent : sent'[j].version = sent[j].version
      PROVE  /\ ServerTyped' /\ Told'
             /\ \A r \in Records : rows'[r].version >= rows[r].version
  BY <1>0, <1>1 DEF ServerTyped, Told, SentKept
<1>2. CASE UNCHANGED <<sent, rows, told>>
  BY <1>1, <1>2, SameSent
<1>3. CASE Leave
  BY <1>1, <1>3, StrangersKept DEF Leave
<1>4. CASE Confirm \/ Submit
  <2>1. PICK action : Send(action) /\ ((action = dialog /\ dialog # None) \/ action \in Direct)
    BY <1>4 DEF Confirm, Submit
  <2>2. rows' = rows /\ told' = told
    BY <2>1 DEF Send
  <2>3. SentKept
    BY <2>1, SentTyped DEF SentKept
  <2>4. ServerTyped'
    BY <1>0, <2>2, <2>3 DEF ServerTyped, SentKept
  <2>5. ASSUME NEW j \in DOMAIN sent' PROVE sent'[j].version =< rows[sent'[j].rec].version
    <3>1. CASE j \in DOMAIN sent
      BY <2>1, <3>1, SentTyped DEF Told
    <3>2. CASE j = Len(sent) + 1
      BY <1>0, <2>1, <3>2, SentTyped
    <3>. QED
      BY <2>1, <2>5, <3>1, <3>2, SentTyped
  <2>. QED
    BY <1>0, <2>2, <2>3, <2>4, <2>5 DEF Told
<1>5. ASSUME NEW r \in Records, OtherWrite(r)
      PROVE  SentKept /\ ServerTyped' /\ Told' /\ \A q \in Records : rows'[q].version >= rows[q].version
  <2>1. PICK status \in Statuses : status = rows[r].status
    BY <1>0 DEF Rows
  <2>2. rows' = [rows EXCEPT ![r] = Advanced(rows[r], status)] /\ sent' = sent /\ told' = told
    BY <1>5, <2>1 DEF OtherWrite
  <2>3. rows' \in [Records -> Rows] /\ \A q \in Records : rows'[q].version >= rows[q].version
    BY <2>2, AdvancedTyped
  <2>4. \A q \in Records : rows'[q].version \in Nat
    BY <2>3 DEF Rows
  <2>6. \A j \in DOMAIN sent : sent[j].version =< rows'[sent[j].rec].version
    BY <2>3, StillReached
  <2>7. \A q \in Records : told[q] =< rows'[q].version
    BY <1>0, <2>3, <2>4 DEF Told
  <2>. QED
    BY <1>0, <2>2, <2>3, <2>6, <2>7, SameSent DEF ServerTyped, Told
<1>6. ASSUME NEW i \in DOMAIN sent, Apply(i)
      PROVE  SentKept /\ ServerTyped' /\ Told' /\ \A q \in Records : rows'[q].version >= rows[q].version
  <2>1. /\ rows' \in [Records -> Rows] /\ sent' \in Seq(Writes) /\ told' = told
        /\ DOMAIN sent' = DOMAIN sent
        /\ \A q \in Records : rows'[q].version >= rows[q].version
    BY <1>6, ApplyTyped DEF Apply
  <2>2. SentKept
    BY <1>6, <2>1, ApplyTyped DEF SentKept
  <2>3. \A q \in Records : rows'[q].version \in Nat
    BY <2>1 DEF Rows
  <2>4. \A j \in DOMAIN sent : sent[j].rec \in Records /\ sent[j].version \in Nat
    BY WriteTyped DEF Writes
  <2>5. \A j \in DOMAIN sent \ {i} : sent'[j].version =< rows'[sent'[j].rec].version
    <3>1. \A j \in DOMAIN sent : sent[j].version =< rows'[sent[j].rec].version
      BY <2>1, StillReached
    <3>. QED
      BY <1>6, <3>1, ApplyTyped
  <2>6. sent'[i].version =< rows'[sent'[i].rec].version
    BY <1>6, <2>3, <2>4, ApplyTyped
  <2>7. \A q \in Records : told[q] =< rows'[q].version
    BY <1>0, <2>1, <2>3 DEF Told
  <2>. QED
    BY <1>0, <2>1, <2>2, <2>5, <2>6, <2>7 DEF ServerTyped, Told
<1>7. ASSUME NEW i \in DOMAIN sent, Acknowledge(i)
      PROVE  SentKept /\ ServerTyped' /\ Told' /\ \A q \in Records : rows'[q].version >= rows[q].version
  <2>1. Over(i)
    BY <1>7 DEF Acknowledge
  <2>. QED
    <3>1. told' \in [Records -> Nat] /\ rows' = rows /\ \A r \in Records : told'[r] =< rows[r].version
      BY <1>7, AcknowledgeTold
    <3>2. SentKept /\ DOMAIN sent' = DOMAIN sent /\ \A j \in DOMAIN sent : sent'[j].version = sent[j].version
      BY <2>1, OverKept
    <3>3. ServerTyped'
      BY <1>0, <3>1, <3>2 DEF ServerTyped, SentKept
    <3>4. \A j \in DOMAIN sent' : sent'[j].version =< rows[sent'[j].rec].version
      BY <3>2 DEF SentKept, Told
    <3>. QED
      BY <1>0, <3>1, <3>2, <3>3, <3>4 DEF Told
<1>8. ASSUME NEW i \in DOMAIN sent, Saved(i) \/ Reject(i)
      PROVE  SentKept /\ ServerTyped' /\ Told' /\ \A q \in Records : rows'[q].version >= rows[q].version
  <2>1. CASE Saved(i)
    BY <1>1, <2>1, SavedKept DEF Saved
  <2>2. CASE Reject(i)
    BY <1>1, <2>2, OverKept DEF Reject
  <2>. QED
    BY <1>8, <2>1, <2>2
<1>9. CASE TryAgain \/ Open \/ Cancel \/ Edit
  BY <1>2, <1>9 DEF TryAgain, Open, Cancel, Edit, Touch
<1>10. ASSUME NEW r \in Records, Mount(r) \/ Go(r) PROVE UNCHANGED <<sent, rows, told>>
  BY <1>10 DEF Mount, Go
<1>11. ASSUME NEW l \in loads, Read(l) \/ Answer(l) \/ Unanswered(l) PROVE UNCHANGED <<sent, rows, told>>
  BY <1>11 DEF Read, Answer, Unanswered, Keep
<1>12. CASE UNCHANGED consoleVars
  BY <1>2, <1>12 DEF consoleVars
<1>. QED
  BY <1>2, <1>3, <1>4, <1>5, <1>6, <1>7, <1>8, <1>9, <1>10, <1>11, <1>12 DEF Next

LEMMA TypedStep ==
    ASSUME Typed, Told, Present, [Next]_consoleVars
    PROVE  Typed'
  BY VisitTyped, LoadsTyped, SettledTyped, PageStep, ServerStep DEF Typed, PageTyped

(***************************************************************************)
(* Requests and answers.                                                   *)
(***************************************************************************)
(* Everything a step can do to the requests and to the answer kept: ask    *)
(* for the record of the address, abort, read, end one, or nothing.        *)
AsksAgain ==
    /\ place' \in Records /\ attempt' \in Nat /\ Reload(place', attempt')
    /\ \/ settled' = None /\ told' = told
       \/ settled' = settled /\ told' = told /\ attempt' \in {attempt, attempt + 1}
       \/ settled' = settled /\ attempt' = attempt + 1

StopsAsking == place' = None /\ loads' = Aborted(loads) /\ UNCHANGED <<attempt, settled, told>>

Waits == UNCHANGED <<place, attempt, settled, loads, told>>

Reads(l) == Read(l) /\ UNCHANGED <<place, attempt, settled, told, rows>>

LEMMA Requesting ==
    ASSUME Typed, Present, [Next]_consoleVars
    PROVE  \/ AsksAgain \/ StopsAsking \/ Waits
           \/ \E l \in loads : Reads(l) \/ Answer(l) \/ Unanswered(l)
<1>. attempt \in Nat /\ place \in Records \cup {None}
  BY DEF Typed, PageTyped
<1>1. CASE Leave
  BY <1>1 DEF Leave, StopsAsking
<1>2. CASE TryAgain
  BY <1>2 DEF TryAgain, AsksAgain, Reload
<1>3. CASE Open \/ Cancel \/ Edit
  BY <1>3 DEF Open, Cancel, Edit, Touch, Waits
<1>4. CASE Confirm \/ Submit
  <2>1. PICK action : Send(action)
    BY <1>4 DEF Confirm, Submit
  <2>. QED
    BY <2>1 DEF Send, Waits
<1>5. ASSUME NEW r \in Records, Mount(r) PROVE AsksAgain
  BY <1>5 DEF Mount, AsksAgain, Reload
<1>6. ASSUME NEW r \in Records, Go(r) PROVE AsksAgain
  BY <1>6 DEF Go, AsksAgain, Reload
<1>7. ASSUME NEW r \in Records, OtherWrite(r) PROVE Waits
  BY <1>7 DEF OtherWrite, Waits
<1>8. ASSUME NEW l \in loads, Read(l) PROVE Reads(l)
  BY <1>8 DEF Read, Reads
<1>9. ASSUME NEW i \in DOMAIN sent, Apply(i) PROVE Waits
  BY <1>9 DEF Apply, Waits
<1>10. ASSUME NEW i \in DOMAIN sent, Acknowledge(i) PROVE AsksAgain
  <2>1. place \in Records
    BY <1>10 DEF Acknowledge, Present
  <2>. QED
    BY <1>10, <2>1 DEF Acknowledge, AsksAgain, Reload
<1>11. ASSUME NEW i \in DOMAIN sent, Saved(i) PROVE StopsAsking
  BY <1>11 DEF Saved, StopsAsking
<1>12. ASSUME NEW i \in DOMAIN sent, Reject(i) PROVE Waits
  BY <1>12 DEF Reject, Waits
<1>13. CASE UNCHANGED consoleVars
  BY <1>13 DEF consoleVars, Waits
<1>. QED
  BY <1>1, <1>2, <1>3, <1>4, <1>5, <1>6, <1>7, <1>8, <1>9, <1>10, <1>11, <1>12, <1>13 DEF Next

LEMMA ReadsOf ==
    ASSUME Typed, Told, NEW l \in loads, Reads(l)
    PROVE  \E m \in Requests :
              /\ loads' = (loads \ {l}) \cup {m}
              /\ m.key = l.key /\ m.live = l.live
              /\ FreshFor(m.read, m.key)
<1>1. l \in Requests /\ l.key[1] \in Records
  BY DEF Typed, PageTyped, Requests, Keys
<1>2. PICK s \in Snapshots : s = Snapshot(l.key[1]) /\ s.rec = l.key[1] /\ s.version = rows[l.key[1]].version
  BY <1>1, SnapshotTyped
<1>3. PICK m \in Requests : m = [l EXCEPT !.read = s]
  BY <1>1 DEF Requests
<1>4. m.key = l.key /\ m.live = l.live /\ m.read = s
  BY <1>1, <1>3 DEF Requests
<1>5. loads' = (loads \ {l}) \cup {m}
  BY <1>2, <1>3 DEF Reads, Read
<1>6. FreshFor(s, l.key)
  BY <1>1, <1>2 DEF FreshFor, Told, Typed, ServerTyped, Rows
<1>. QED
  BY <1>4, <1>5, <1>6

LEMMA HeedingStep ==
    ASSUME Typed, Present, Told, Heeding, [Next]_consoleVars
    PROVE  Heeding'
<1>1. CASE AsksAgain
  BY <1>1, ReloadTyped DEF AsksAgain, Heeding, Key
<1>2. CASE StopsAsking
  BY <1>2, AbortedTyped DEF StopsAsking, Heeding
<1>3. CASE Waits
  BY <1>3 DEF Waits, Heeding, Key
<1>4. ASSUME NEW l \in loads, Reads(l) PROVE Heeding'
  <2>1. PICK m \in Requests : loads' = (loads \ {l}) \cup {m} /\ m.key = l.key /\ m.live = l.live
    BY <1>4, ReadsOf
  <2>. QED
    BY <1>4, <2>1 DEF Reads, Heeding, Key
<1>5. ASSUME NEW l \in loads, Answer(l) \/ Unanswered(l) PROVE Heeding'
  BY <1>5 DEF Answer, Unanswered, Keep, Heeding, Key
<1>. QED
  BY <1>1, <1>2, <1>3, <1>4, <1>5, Requesting

LEMMA WaitingStep ==
    ASSUME ConstantsOK, Typed, Present, Told, Heeding, LoadingEnds, [Next]_consoleVars
    PROVE  LoadingEnds'
<1>1. CASE AsksAgain
  BY <1>1, ReloadTyped DEF AsksAgain, LoadingEnds, Key
<1>2. CASE StopsAsking
  BY <1>2 DEF StopsAsking, LoadingEnds, Loading
<1>3. CASE Waits
  BY <1>3 DEF Waits, LoadingEnds, Loading, Current, Key
<1>4. ASSUME NEW l \in loads, Reads(l) PROVE LoadingEnds'
  <2>1. PICK m \in Requests : loads' = (loads \ {l}) \cup {m} /\ m.key = l.key /\ m.live = l.live
    BY <1>4, ReadsOf
  <2>2. Loading' = Loading /\ Key' = Key
    BY <1>4 DEF Reads, Loading, Current, Key
  <2>. QED
    BY <2>1, <2>2 DEF LoadingEnds
<1>5. ASSUME NEW l \in loads, NEW data \in Snapshots \cup {None}, Keep(l, data) PROVE LoadingEnds'
  <2>1. Key' = Key /\ place' = place /\ loads' = loads \ {l}
    BY <1>5 DEF Keep, Key
  <2>2. CASE l.live
    <3>1. l.key = Key /\ l.key \in Keys
      BY <2>2 DEF Heeding, Typed, PageTyped, Requests
    <3>2. settled' = [key |-> l.key, data |-> data]
      BY <1>5, <2>2 DEF Keep, Heeded
    <3>3. settled' # None /\ settled'.key = Key
      BY <3>1, <3>2 DEF ConstantsOK, Answers
    <3>. QED
      BY <2>1, <3>3 DEF LoadingEnds, Loading, Current
  <2>3. CASE ~l.live
    <3>1. settled' = settled
      BY <1>5, <2>3 DEF Keep, Heeded
    <3>. QED
      BY <2>1, <2>3, <3>1 DEF LoadingEnds, Loading, Current
  <2>. QED
    BY <2>2, <2>3
<1>6. ASSUME NEW l \in loads, Answer(l) \/ Unanswered(l) PROVE LoadingEnds'
  <2>1. l.read \in Snapshots \cup {None}
    BY DEF Typed, PageTyped, Requests
  <2>. QED
    BY <1>5, <1>6, <2>1 DEF Answer, Unanswered
<1>. QED
  BY <1>1, <1>2, <1>3, <1>4, <1>6, Requesting

LEMMA ReadingStep ==
    ASSUME Typed, Present, Told, Heeding, Reading, [Next]_consoleVars
    PROVE  Reading'
<1>1. CASE AsksAgain
  BY <1>1, ReloadTyped DEF AsksAgain, Reading
<1>2. CASE StopsAsking
  BY <1>2, AbortedTyped DEF StopsAsking, Reading
<1>3. CASE Waits
  BY <1>3 DEF Waits, Reading, FreshFor
<1>4. ASSUME NEW l \in loads, Reads(l) PROVE Reading'
  <2>1. PICK m \in Requests : loads' = (loads \ {l}) \cup {m} /\ FreshFor(m.read, m.key)
    BY <1>4, ReadsOf
  <2>. QED
    BY <1>4, <2>1 DEF Reads, Reading, FreshFor
<1>5. ASSUME NEW l \in loads, Answer(l) \/ Unanswered(l) PROVE Reading'
  BY <1>5 DEF Answer, Unanswered, Keep, Reading, FreshFor
<1>. QED
  BY <1>1, <1>2, <1>3, <1>4, <1>5, Requesting

LEMMA KeepingStep ==
    ASSUME Typed, Present, Told, Heeding, Reading, Keeping, [Next]_consoleVars
    PROVE  Keeping'
<1>0. /\ attempt \in Nat
      /\ settled # None => settled.key[1] \in Records /\ settled.key[2] \in Nat
  BY DEF Typed, PageTyped, Answers, Keys
<1>1. CASE AsksAgain
  BY <1>0, <1>1 DEF AsksAgain, Keeping, FreshFor
<1>2. CASE StopsAsking \/ Waits
  BY <1>2 DEF StopsAsking, Waits, Keeping, FreshFor
<1>3. ASSUME NEW l \in loads, Reads(l) PROVE Keeping'
  BY <1>3 DEF Reads, Keeping, FreshFor
<1>4. ASSUME NEW l \in loads, NEW data, Keep(l, data), data = None \/ data = l.read PROVE Keeping'
  <2>1. attempt' = attempt /\ told' = told
    BY <1>4 DEF Keep
  <2>2. CASE l.live
    <3>1. l.key = <<place, attempt>>
      BY <2>2 DEF Heeding, Key
    <3>2. settled' = [key |-> l.key, data |-> data]
      BY <1>4, <2>2 DEF Keep, Heeded
    <3>3. data # None => FreshFor(data, l.key)
      BY <1>4, <2>2 DEF Reading
    <3>. QED
      BY <1>0, <2>1, <3>1, <3>2, <3>3 DEF Keeping, FreshFor
  <2>3. CASE ~l.live
    <3>1. settled' = settled
      BY <1>4, <2>3 DEF Keep, Heeded
    <3>. QED
      BY <2>1, <3>1 DEF Keeping, FreshFor
  <2>. QED
    BY <2>2, <2>3
<1>5. ASSUME NEW l \in loads, Answer(l) \/ Unanswered(l) PROVE Keeping'
  BY <1>4, <1>5 DEF Answer, Unanswered
<1>. QED
  BY <1>1, <1>2, <1>3, <1>5, Requesting

(***************************************************************************)
(* Writes and the busy flag.                                               *)
(***************************************************************************)
LEMMA PresentStep ==
    ASSUME ConstantsOK, Typed, Present, [Next]_consoleVars
    PROVE  Present'
<1>1. CASE Leave
  BY <1>1, StrangersKept DEF Leave, Present
<1>2. CASE UNCHANGED <<place, sent>>
  BY <1>2 DEF Present
<1>3. CASE TryAgain \/ Open \/ Cancel \/ Edit
  BY <1>2, <1>3 DEF TryAgain, Open, Cancel, Edit, Touch
<1>4. CASE Confirm \/ Submit
  <2>1. PICK action : Send(action)
    BY <1>4 DEF Confirm, Submit
  <2>. QED
    BY <2>1 DEF Send, Usable, Present
<1>5. ASSUME NEW r \in Records, Mount(r) PROVE Present'
  BY <1>5 DEF Mount, Present
<1>6. ASSUME NEW r \in Records, Go(r) \/ OtherWrite(r) PROVE Present'
  BY <1>6 DEF Go, OtherWrite, Present, ConstantsOK
<1>7. ASSUME NEW l \in loads, Read(l) \/ Answer(l) \/ Unanswered(l) PROVE Present'
  BY <1>7 DEF Read, Answer, Unanswered, Keep, Present
<1>8. ASSUME NEW i \in DOMAIN sent, Apply(i) PROVE Present'
  BY <1>8, ApplyTyped DEF Apply, Present
<1>9. ASSUME NEW i \in DOMAIN sent, Acknowledge(i) \/ Reject(i) PROVE Present'
  BY <1>9, OverKept DEF Acknowledge, Reject, Present
<1>10. ASSUME NEW i \in DOMAIN sent, Saved(i) PROVE Present'
  BY <1>10, SavedKept DEF Present
<1>11. CASE UNCHANGED consoleVars
  BY <1>2, <1>11 DEF consoleVars
<1>. QED
  BY <1>1, <1>3, <1>4, <1>5, <1>6, <1>7, <1>8, <1>9, <1>10, <1>11 DEF Next

(* No guarded write gets under way that was not: one at a time remains.    *)
LEMMA FewerUnderWay ==
    ASSUME Typed, OneAtATime, visit'.page = visit.page, SentKept, DOMAIN sent' = DOMAIN sent,
           \A i \in DOMAIN sent : sent'[i].state # "over" => sent[i].state # "over"
    PROVE  /\ UnderWay' \subseteq UnderWay /\ OneAtATime'
           /\ HasReset' <=> HasReset
<1>1. \A i \in DOMAIN sent : Guarded(sent[i].action)' <=> Guarded(sent[i].action)
  BY DEF SentKept, Guarded
<1>2. UnderWay' \subseteq UnderWay
  BY <1>1 DEF UnderWay, SentKept
<1>3. HasReset' <=> HasReset
  BY DEF HasReset, SentKept
<1>4. OneAtATime'
  BY <1>2 DEF OneAtATime, UnderWay, SentKept
<1>. QED
  BY <1>2, <1>3, <1>4

LEMMA NoneUnderWay ==
    ASSUME \A i \in DOMAIN sent' : ~sent'[i].ours
    PROVE  Flagged' /\ OneAtATime'
  BY DEF Flagged, UnderWay, OneAtATime

(* A guarded write that ends was the only one, so it may lower the flag.   *)
LEMMA EndOfWrite ==
    ASSUME Typed, Flagged, OneAtATime, visit'.page = visit.page, NEW i \in DOMAIN sent,
           Over(i), sent[i].ours, sent[i].state # "over", busy' = (busy /\ ~SetsBusy(sent[i].action))
    PROVE  Flagged' /\ OneAtATime'
<1>1. /\ SentKept /\ DOMAIN sent' = DOMAIN sent
      /\ \A j \in DOMAIN sent : sent'[j].state # "over" => sent[j].state # "over"
      /\ sent'[i].state = "over"
  BY OverKept
<1>2. UnderWay' \subseteq UnderWay /\ OneAtATime' /\ (HasReset' <=> HasReset)
  BY <1>1, FewerUnderWay
<1>3. CASE ~SetsBusy(sent[i].action)
  BY <1>2, <1>3 DEF Flagged
<1>4. CASE sent[i].action = "reset"
  BY <1>2, <1>4 DEF Flagged, HasReset
<1>5. CASE Guarded(sent[i].action) /\ ~HasReset
  <2>1. i \in UnderWay
    BY <1>5 DEF UnderWay
  <2>2. ASSUME NEW j \in UnderWay PROVE j = i
    <3>1. j \in Nat /\ i \in Nat /\ j \in DOMAIN sent /\ DOMAIN sent = 1 .. Len(sent)
      BY WriteTyped DEF UnderWay
    <3>2. \A k \in 1 .. i : sent[k].action # "reset"
      BY <1>5, <3>1 DEF HasReset
    <3>3. \A k \in 1 .. j : sent[k].action # "reset"
      BY <1>5, <3>1 DEF HasReset
    <3>4. ~(i < j) /\ ~(j < i)
      BY <2>1, <3>2, <3>3 DEF OneAtATime, UnderWay
    <3>. QED
      BY <3>1, <3>4
  <2>3. i \notin UnderWay'
    BY <1>1 DEF UnderWay
  <2>4. UnderWay' = {}
    BY <1>2, <2>2, <2>3
  <2>. QED
    BY <1>2, <2>4 DEF Flagged
<1>6. CASE HasReset
  BY <1>2, <1>6 DEF Flagged
<1>. QED
  BY <1>2, <1>3, <1>4, <1>5, <1>6 DEF SetsBusy

LEMMA BeginOfWrite ==
    ASSUME Typed, Flagged, OneAtATime, visit'.page = visit.page, NEW action, Send(action),
           \/ action = dialog /\ dialog # None
           \/ action \in Direct
    PROVE  Flagged' /\ OneAtATime'
<1>0. sent \in Seq(Writes) /\ Len(sent) \in Nat /\ DOMAIN sent = 1 .. Len(sent) /\ busy \in BOOLEAN
  BY DEF Typed, ServerTyped, PageTyped
<1>1. /\ DOMAIN sent' = DOMAIN sent \cup {Len(sent) + 1}
      /\ \A i \in DOMAIN sent : sent'[i] = sent[i]
      /\ sent'[Len(sent) + 1].action = action
  BY SentTyped
<1>2. \A a : Guarded(a)' <=> Guarded(a)
  BY DEF Guarded
<1>3. \A i \in UnderWay' : i \in UnderWay \/ (i = Len(sent) + 1 /\ Guarded(action))
  BY <1>1, <1>2 DEF UnderWay
<1>4. HasReset => HasReset'
  BY <1>1 DEF HasReset
<1>5. busy' = (busy \/ SetsBusy(action)) /\ (Guarded(action) => ~busy)
  BY DEF Send, Blocked
<1>6. Flagged'
  <2>1. CASE Guarded(action)
    BY <1>5, <2>1 DEF SetsBusy, Flagged
  <2>2. CASE ~Guarded(action)
    BY <1>3, <1>4, <1>5, <2>2 DEF Flagged
  <2>. QED
    BY <2>1, <2>2
<1>7. ASSUME NEW i \in UnderWay', NEW j \in UnderWay', i < j
      PROVE  \E k \in 1 .. j : sent'[k].action = "reset"
  <2>1. i \in DOMAIN sent' /\ j \in DOMAIN sent'
    BY DEF UnderWay
  <2>2. i \in UnderWay /\ i \in 1 .. Len(sent)
    BY <1>0, <1>1, <1>3, <1>7, <2>1 DEF UnderWay
  <2>3. CASE j \in UnderWay
    <3>1. j \in 1 .. Len(sent)
      BY <1>0, <2>3 DEF UnderWay
    <3>2. PICK k \in 1 .. j : sent[k].action = "reset"
      BY <1>7, <2>2, <2>3 DEF OneAtATime, UnderWay
    <3>3. k \in DOMAIN sent
      BY <1>0, <3>1, <3>2
    <3>. QED
      BY <1>1, <3>2, <3>3
  <2>4. CASE j = Len(sent) + 1 /\ Guarded(action)
    <3>1. ~busy
      BY <1>5, <2>4
    <3>2. PICK k \in DOMAIN sent : sent[k].action = "reset"
      BY <2>2, <3>1 DEF Flagged, HasReset
    <3>. QED
      BY <1>0, <1>1, <2>4, <3>2
  <2>. QED
    BY <1>3, <1>7, <2>3, <2>4
<1>8. OneAtATime'
  BY <1>7 DEF OneAtATime, UnderWay
<1>. QED
  BY <1>6, <1>8

LEMMA FlagStep ==
    ASSUME Typed, Present, Flagged, OneAtATime, [Next]_consoleVars
    PROVE  Flagged' /\ OneAtATime'
<1>0. visit'.page = visit.page
  BY VisitTyped
<1>1. ASSUME sent' = sent, busy' = busy PROVE Flagged' /\ OneAtATime'
  <2>1. UnderWay' \subseteq UnderWay /\ OneAtATime' /\ (HasReset' <=> HasReset)
    BY <1>0, <1>1, SameSent, FewerUnderWay
  <2>. QED
    BY <1>1, <2>1 DEF Flagged
<1>2. CASE Leave
  BY <1>2, StrangersKept, NoneUnderWay DEF Leave
<1>3. CASE TryAgain \/ Open \/ Cancel \/ Edit
  BY <1>1, <1>3 DEF TryAgain, Open, Cancel, Edit, Touch, pageVars
<1>4. CASE Confirm \/ Submit
  <2>1. PICK action : Send(action) /\ ((action = dialog /\ dialog # None) \/ action \in Direct)
    BY <1>4 DEF Confirm, Submit
  <2>. QED
    BY <1>0, <2>1, BeginOfWrite
<1>5. ASSUME NEW r \in Records, Mount(r) PROVE Flagged' /\ OneAtATime'
  <2>1. \A i \in DOMAIN sent' : ~sent'[i].ours
    BY <1>5 DEF Mount, Present
  <2>. QED
    BY <2>1, NoneUnderWay
<1>6. ASSUME NEW r \in Records, Go(r) \/ OtherWrite(r) PROVE Flagged' /\ OneAtATime'
  BY <1>1, <1>6 DEF Go, OtherWrite, pageVars
<1>7. ASSUME NEW l \in loads, Read(l) \/ Answer(l) \/ Unanswered(l) PROVE Flagged' /\ OneAtATime'
  BY <1>1, <1>7 DEF Read, Answer, Unanswered, Keep, pageVars
<1>8. ASSUME NEW i \in DOMAIN sent, Apply(i) PROVE Flagged' /\ OneAtATime'
  <2>1. /\ SentKept /\ DOMAIN sent' = DOMAIN sent
        /\ \A j \in DOMAIN sent : sent'[j].state # "over" => sent[j].state # "over"
    BY <1>8, ApplyTyped DEF SentKept
  <2>2. UnderWay' \subseteq UnderWay /\ OneAtATime' /\ (HasReset' <=> HasReset)
    BY <1>0, <2>1, FewerUnderWay
  <2>. QED
    BY <1>8, <2>2 DEF Flagged, Apply, pageVars
<1>9. ASSUME NEW i \in DOMAIN sent, Acknowledge(i) PROVE Flagged' /\ OneAtATime'
  BY <1>0, <1>9, EndOfWrite DEF Acknowledge
<1>10. ASSUME NEW i \in DOMAIN sent, Reject(i) PROVE Flagged' /\ OneAtATime'
  BY <1>0, <1>10, EndOfWrite DEF Reject
<1>11. ASSUME NEW i \in DOMAIN sent, Saved(i) PROVE Flagged' /\ OneAtATime'
  BY <1>11, SavedKept, NoneUnderWay
<1>12. CASE UNCHANGED consoleVars
  BY <1>1, <1>12 DEF consoleVars, pageVars
<1>. QED
  BY <1>2, <1>3, <1>4, <1>5, <1>6, <1>7, <1>8, <1>9, <1>10, <1>11, <1>12 DEF Next

(***************************************************************************)
(* Everything together.                                                    *)
(***************************************************************************)
LEMMA InitInv == ConstantsOK /\ Init => Inv
<1>. SUFFICES ASSUME ConstantsOK, Init PROVE Inv
  OBVIOUS
<1>1. Typed
  BY TypedInit
<1>2. Heeding /\ Present /\ Reading /\ Keeping
  BY DEF Init, Heeding, Present, Reading, Keeping
<1>3. Told
  <2>1. \A r \in Records : told[r] = 0 /\ rows[r].version \in Nat
    BY <1>1 DEF Init, Typed, ServerTyped, Rows
  <2>. QED
    BY <2>1 DEF Init, Told
<1>4. LoadingEnds /\ Flagged /\ OneAtATime
  BY DEF Init, LoadingEnds, Loading, Flagged, UnderWay, OneAtATime
<1>. QED
  BY <1>1, <1>2, <1>3, <1>4 DEF Inv

LEMMA StepInv == ConstantsOK /\ Inv /\ [Next]_consoleVars => Inv'
<1>. SUFFICES ASSUME ConstantsOK, Inv, [Next]_consoleVars PROVE Inv'
  OBVIOUS
<1>0. Typed /\ Heeding /\ Present /\ Told /\ Reading /\ Keeping /\ LoadingEnds /\ Flagged /\ OneAtATime
  BY DEF Inv
<1>1. Typed'
  BY <1>0, TypedStep
<1>2. Told'
  BY <1>0, ServerStep
<1>3. Heeding' /\ Reading' /\ Keeping'
  BY <1>0, HeedingStep, ReadingStep, KeepingStep
<1>4. LoadingEnds'
  BY <1>0, WaitingStep
<1>5. Present' /\ Flagged' /\ OneAtATime'
  BY <1>0, PresentStep, FlagStep
<1>. QED
  BY <1>1, <1>2, <1>3, <1>4, <1>5 DEF Inv

LEMMA Invariant == ASSUME ConstantsOK PROVE Spec => []Inv
<1>1. Init => Inv
  BY InitInv
<1>2. Inv /\ [Next]_consoleVars => Inv'
  BY StepInv
<1>. QED
  BY <1>1, <1>2, PTL DEF Spec

(* Every variable keeps its type, and no request is listened to but the    *)
(* one for the record of the address.                                      *)
THEOREM TypeCorrect == ASSUME ConstantsOK PROVE Spec => []TypeOK
<1>1. Inv => TypeOK
  <2>. SUFFICES ASSUME Inv PROVE TypeOK
    OBVIOUS
  <2>1. \A i \in DOMAIN sent : sent[i].state \in {"sent", "applied", "over"}
    BY WriteTyped DEF Inv, Writes
  <2>. QED
    BY <2>1 DEF Inv, Typed, PageTyped, Visited, Heeding, TypeOK
<1>. QED
  BY <1>1, Invariant, PTL

(* What a page shows is the record of its address, at least at the version *)
(* of every write the page was told of, in whatever order answers arrive.  *)
THEOREM PagesAreCurrent == ASSUME ConstantsOK PROVE Spec => []ShownIsCurrent
<1>1. Inv => ShownIsCurrent
  BY DEF Inv, ShownIsCurrent, Shown, Current, Key, Keeping, FreshFor
<1>. QED
  BY <1>1, Invariant, PTL

(* A page that says it is loading has a request under way that it listens  *)
(* to: no order of answers leaves it loading for nothing.                  *)
THEOREM NobodyWaitsForNothing == ASSUME ConstantsOK PROVE Spec => []LoadingEnds
<1>1. Inv => LoadingEnds
  BY DEF Inv
<1>. QED
  BY <1>1, Invariant, PTL

(* The pages with a busy flag have one write under way at a time, until a  *)
(* reset of a checkpoint lowers the flag.                                  *)
THEOREM OneWriteAtATime == ASSUME ConstantsOK PROVE Spec => []OneAtATime
<1>1. Inv => OneAtATime
  BY DEF Inv
<1>. QED
  BY <1>1, Invariant, PTL

(***************************************************************************)
(* The page that checks a handle.                                          *)
(***************************************************************************)
ChecksSent == [about : Handles \ Invalid, nth : 1 .. MaxChecks, live : BOOLEAN]

CheckTyped ==
    /\ handle \in Handles \cup {None} /\ initial \in Handles \cup {None}
    /\ answer \in Handles \cup {None} /\ latest \in Handles \cup {None}
    /\ failed \in 0 .. MaxChecks /\ refusal \in BOOLEAN /\ loading \in BOOLEAN /\ mounted \in BOOLEAN
    /\ requests \subseteq ChecksSent
    /\ checks \in 0 .. MaxChecks

(* The page listens to the last check it sent, and is loading as long as   *)
(* it does.  Whatever failed until then was a check before that one.       *)
Listening ==
    /\ \A r \in requests : r.nth =< checks
    /\ \A r \in requests : r.live =>
          /\ r.about = latest /\ r.nth = checks /\ mounted /\ loading /\ failed # checks
          /\ \A q \in requests : ~q.live => q.nth # checks
    /\ mounted /\ loading => \E r \in requests : r.live

CheckInv == CheckTyped /\ Listening /\ Check!AnswerIsLatest

LEMMA OneIsHeard ==
    ASSUME CheckTyped, Listening,
           NEW r \in requests, NEW q \in requests, r.live, q.live
    PROVE  r = q
<1>1. r \in ChecksSent /\ q \in ChecksSent
  BY DEF CheckTyped
<1>2. r.about = q.about /\ r.nth = q.nth /\ r.live = q.live
  BY <1>1 DEF Listening, ChecksSent
<1>. QED
  BY <1>1, <1>2 DEF ChecksSent

LEMMA SupersededTyped ==
    ASSUME CheckTyped
    PROVE  /\ Check!Superseded(requests) \subseteq ChecksSent
           /\ \A r \in Check!Superseded(requests) : ~r.live /\ \E q \in requests : r.nth = q.nth
  BY DEF CheckTyped, Check!Superseded, ChecksSent

LEMMA AskStep ==
    ASSUME Check!ConstantsOK, CheckInv, NEW h \in Handles \ Invalid, Check!Ask(h), mounted,
           handle' \in Handles \cup {None}, initial' \in Handles \cup {None}
    PROVE  CheckInv'
<1>0. checks \in Nat /\ checks + 1 \in 1 .. MaxChecks /\ checks + 1 \in 0 .. MaxChecks /\ 0 \in 0 .. MaxChecks
  BY DEF Check!Ask, CheckInv, CheckTyped, Check!ConstantsOK
<1>1. PICK q \in ChecksSent : q = [about |-> h, nth |-> checks + 1, live |-> TRUE]
  BY <1>0 DEF ChecksSent
<1>2. q.about = h /\ q.nth = checks + 1 /\ q.live
  BY <1>1
<1>3. requests' = Check!Superseded(requests) \cup {q}
  BY <1>1 DEF Check!Ask
<1>4. CheckTyped'
  BY <1>0, <1>1, <1>3, SupersededTyped DEF CheckInv, CheckTyped, Check!Ask
<1>5. Listening'
  <2>1. ASSUME NEW r \in Check!Superseded(requests) PROVE ~r.live /\ r.nth =< checks /\ r.nth \in Nat
    BY <2>1, SupersededTyped DEF CheckInv, CheckTyped, Listening, ChecksSent
  <2>2. /\ checks' = checks + 1 /\ latest' = h /\ loading' = TRUE /\ mounted' = mounted /\ failed' = 0
    BY DEF Check!Ask
  <2>3. \A r \in requests' : r.nth =< checks' /\ (r.live => r = q) /\ (~r.live => r.nth # checks')
    BY <1>0, <1>2, <1>3, <2>1, <2>2
  <2>4. failed' # checks'
    BY <1>0, <2>2
  <2>. QED
    BY <1>2, <1>3, <2>2, <2>3, <2>4 DEF Listening
<1>6. Check!AnswerIsLatest'
  BY DEF Check!AnswerIsLatest, Check!Ask
<1>. QED
  BY <1>4, <1>5, <1>6 DEF CheckInv

LEMMA RefuseStep ==
    ASSUME Check!ConstantsOK, CheckInv, Check!RefuseHere,
           handle' \in Handles \cup {None}, initial' \in Handles \cup {None}
    PROVE  CheckInv'
<1>0. 0 \in 0 .. MaxChecks /\ \A r \in requests : r.nth # 0
  BY DEF Check!ConstantsOK, CheckInv, CheckTyped, ChecksSent
<1>1. CheckTyped'
  BY <1>0 DEF CheckInv, CheckTyped, Check!RefuseHere
<1>2. Listening'
  BY <1>0 DEF CheckInv, Listening, Check!RefuseHere
<1>3. Check!AnswerIsLatest'
  BY DEF Check!AnswerIsLatest, Check!RefuseHere
<1>. QED
  BY <1>1, <1>2, <1>3 DEF CheckInv

LEMMA EndStep ==
    ASSUME CheckInv, NEW r \in requests, Check!Answered(r) \/ Check!Unanswered(r)
    PROVE  CheckInv'
<1>0. /\ r \in ChecksSent /\ r.about \in Handles /\ r.live \in BOOLEAN /\ r.nth \in 0 .. MaxChecks
      /\ requests' = requests \ {r} /\ loading' = (loading /\ ~r.live)
      /\ UNCHANGED <<handle, initial, refusal, latest, checks, mounted>>
  BY DEF CheckInv, CheckTyped, ChecksSent, Check!Answered, Check!Unanswered, Check!Ends
<1>1. \/ r.live /\ answer' = r.about /\ failed' = failed
      \/ answer' = None /\ failed' = r.nth
      \/ ~r.live /\ answer' = answer /\ failed' = failed
  BY DEF Check!Answered, Check!Unanswered
<1>2. CheckTyped'
  BY <1>0, <1>1 DEF CheckInv, CheckTyped
<1>3. CASE r.live
  <2>1. (\A q \in requests' : ~q.live) /\ ~loading'
    BY <1>0, <1>3, OneIsHeard DEF CheckInv
  <2>2. Listening'
    BY <1>0, <2>1 DEF CheckInv, Listening
  <2>3. r.about = latest /\ failed # checks
    BY <1>3 DEF CheckInv, Listening
  <2>4. Check!AnswerIsLatest'
    BY <1>0, <1>1, <1>3, <2>3 DEF Check!AnswerIsLatest
  <2>. QED
    BY <1>2, <2>2, <2>4 DEF CheckInv
<1>4. CASE ~r.live
  <2>1. loading' = loading
    BY <1>0, <1>4 DEF CheckInv, CheckTyped
  <2>2. ASSUME NEW q \in requests', q.live PROVE failed' # checks
    BY <1>0, <1>1, <1>4, <2>2 DEF CheckInv, Listening
  <2>3. Listening'
    BY <1>0, <1>4, <2>1, <2>2 DEF CheckInv, Listening
  <2>4. Check!AnswerIsLatest'
    BY <1>0, <1>1, <1>4, <2>1 DEF CheckInv, Check!AnswerIsLatest
  <2>. QED
    BY <1>2, <2>3, <2>4 DEF CheckInv
<1>. QED
  BY <1>0, <1>3, <1>4

LEMMA CheckStep ==
    ASSUME Check!ConstantsOK, CheckInv, [Check!Next]_(Check!checkVars)
    PROVE  CheckInv'
<1>. /\ handle \in Handles \cup {None} /\ initial \in Handles \cup {None}
     /\ requests \subseteq ChecksSent /\ Examples \subseteq Handles
  BY DEF CheckInv, CheckTyped, Check!ConstantsOK
<1>0. ASSUME NEW h, Check!Check(h), mounted,
             handle' \in Handles \cup {None}, initial' \in Handles \cup {None}
      PROVE  CheckInv'
  BY <1>0, AskStep, RefuseStep DEF Check!Check
<1>1. ASSUME NEW h \in Handles, Check!Type(h) PROVE CheckInv'
  BY <1>1 DEF Check!Type, CheckInv, CheckTyped, Listening, Check!AnswerIsLatest
<1>2. CASE Check!Submit
  BY <1>0, <1>2 DEF Check!Submit
<1>3. ASSUME NEW h \in Examples, Check!TryExample(h) PROVE CheckInv'
  BY <1>0, <1>3 DEF Check!TryExample
<1>4. CASE Check!CheckInitial
  BY <1>0, <1>4 DEF Check!CheckInitial
<1>5. CASE Check!Clear
  <2>1. CheckTyped'
    <3>1. 0 \in 0 .. MaxChecks
      BY DEF Check!ConstantsOK
    <3>. QED
      BY <1>5, <3>1, SupersededTyped DEF Check!Clear, CheckInv, CheckTyped
  <2>2. Listening' /\ Check!AnswerIsLatest'
    BY <1>5, SupersededTyped DEF Check!Clear, CheckInv, Listening, Check!AnswerIsLatest
  <2>. QED
    BY <2>1, <2>2 DEF CheckInv
<1>6. CASE Check!Unmount
  <2>1. CheckTyped'
    BY <1>6, SupersededTyped DEF Check!Unmount, CheckInv, CheckTyped
  <2>2. Listening' /\ Check!AnswerIsLatest'
    BY <1>6, SupersededTyped DEF Check!Unmount, CheckInv, Listening, Check!AnswerIsLatest
  <2>. QED
    BY <2>1, <2>2 DEF CheckInv
<1>7. ASSUME NEW r \in requests, Check!Answered(r) \/ Check!Unanswered(r) PROVE CheckInv'
  BY <1>7, EndStep
<1>8. CASE UNCHANGED Check!checkVars
  BY <1>8 DEF Check!checkVars, CheckInv, CheckTyped, Listening, Check!AnswerIsLatest
<1>. QED
  BY <1>1, <1>2, <1>3, <1>4, <1>5, <1>6, <1>7, <1>8 DEF Check!Next

LEMMA CheckInvariant == ASSUME Check!ConstantsOK PROVE Check!Spec => []CheckInv
<1>1. Check!Init => CheckInv
  <2>. SUFFICES ASSUME Check!Init PROVE CheckInv
    OBVIOUS
  <2>1. checks \in 0 .. MaxChecks
    BY DEF Check!Init, Check!ConstantsOK
  <2>2. CheckTyped
    BY <2>1 DEF Check!Init, CheckTyped
  <2>3. Listening /\ Check!AnswerIsLatest
    BY DEF Check!Init, Listening, Check!AnswerIsLatest
  <2>. QED
    BY <2>2, <2>3 DEF CheckInv
<1>2. CheckInv /\ [Check!Next]_(Check!checkVars) => CheckInv'
  BY CheckStep
<1>. QED
  BY <1>1, <1>2, PTL DEF Check!Spec

(* Of the answers on their way the page heeds that of the last check only, *)
(* and what failed beside that answer is a check before it.                *)
THEOREM LastCheckCounts == ASSUME Check!ConstantsOK PROVE Check!Spec => []AnswerIsLatest
<1>1. CheckInv => AnswerIsLatest
  BY DEF CheckInv, AnswerIsLatest
<1>. QED
  BY <1>1, CheckInvariant, PTL

(* A page that says it is checking waits for a check that it will heed.    *)
THEOREM CheckingIsHeard == ASSUME Check!ConstantsOK PROVE Check!Spec => []Check!CheckingEnds
<1>1. CheckInv => Check!CheckingEnds
  BY DEF CheckInv, Listening, Check!CheckingEnds
<1>. QED
  BY <1>1, CheckInvariant, PTL

LEMMA CheckTypes == ASSUME Check!ConstantsOK PROVE Check!Spec => []Check!TypeOK
<1>1. CheckInv => Check!TypeOK
  BY DEF CheckInv, CheckTyped, ChecksSent, Check!TypeOK
<1>. QED
  BY <1>1, CheckInvariant, PTL

(* Whatever says that it waits, a page of the console or the page that     *)
(* checks a handle, has a request under way that it will heed.             *)
THEOREM WaitsAreAnswered ==
    ASSUME ConstantsOK, Check!ConstantsOK
    PROVE  Spec /\ Check!Spec => []WaitingEnds
<1>1. LoadingEnds /\ Check!CheckingEnds => WaitingEnds
  BY DEF WaitingEnds
<1>. QED
  BY <1>1, NobodyWaitsForNothing, CheckingIsHeard, PTL

(***************************************************************************)
(* The form that reserves a handle.                                        *)
(***************************************************************************)
Previews == [about : Entries, exact : BOOLEAN, since : Nat]

Lookups == [about : Entries, exact : BOOLEAN \cup {None}, nth : Nat]

Reservings == [entry : Entries, typed : Nat, preview : Previews, hard : BOOLEAN,
               state : {"sent", "created", "queued", "done", "failed"}]

ReserveTyped ==
    /\ entry \in Entries \cup {None} /\ typed \in Nat /\ lookedUp \in 0 .. MaxAsked
    /\ lookups \subseteq Lookups
    /\ shown \in Previews \cup {None}
    /\ saving \in BOOLEAN /\ closed \in BOOLEAN
    /\ posted \in Seq(Reservings)

(* A preview on display was answered after the last change.                *)
ShownSince == shown # None => shown.since = typed

(* What is awaited is the last submission, behind the saving flag, and     *)
(* the form cannot be empty meanwhile.                                     *)
Awaited(i) == posted[i].state \in {"sent", "created", "queued"}

Awaiting == \A i \in DOMAIN posted : Awaited(i) => i = Len(posted) /\ saving /\ entry # None

(* What is done was typed before: a success leaves the page or the form.   *)
Past ==
    \A i \in DOMAIN posted :
        /\ posted[i].typed =< typed
        /\ posted[i].state = "done" => closed \/ posted[i].typed < typed

ReserveInv == ReserveTyped /\ ShownSince /\ Awaiting /\ Past /\ Reserve!ReservationsPreviewed

LEMMA PostedTyped ==
    ASSUME ReserveTyped, NEW i \in DOMAIN posted
    PROVE  /\ posted[i] \in Reservings /\ posted[i].typed \in Nat
           /\ i \in Nat /\ Len(posted) \in Nat /\ DOMAIN posted = 1 .. Len(posted)
<1>1. posted \in Seq(Reservings)
  BY DEF ReserveTyped
<1>2. posted[i] \in Reservings
  BY <1>1
<1>. QED
  BY <1>1, <1>2 DEF Reservings

LEMMA BecomesTyped ==
    ASSUME ReserveTyped, NEW i \in DOMAIN posted,
           NEW state \in {"sent", "created", "queued", "done", "failed"},
           Reserve!Becomes(i, state)
    PROVE  /\ posted' \in Seq(Reservings) /\ DOMAIN posted' = DOMAIN posted /\ Len(posted') = Len(posted)
           /\ posted'[i].state = state
           /\ \A j \in DOMAIN posted : j # i => posted'[j] = posted[j]
           /\ \A j \in DOMAIN posted :
                 posted'[j].typed = posted[j].typed /\ posted'[j].preview = posted[j].preview
<1>1. PICK p \in Reservings : p = posted[i]
  BY PostedTyped
<1>2. PICK q \in Reservings : q = [p EXCEPT !.state = state]
  BY DEF Reservings
<1>3. q.state = state /\ q.typed = p.typed /\ q.preview = p.preview
  BY <1>2 DEF Reservings
<1>4. posted' = [posted EXCEPT ![i] = q]
  BY <1>1, <1>2 DEF Reserve!Becomes
<1>5. posted \in Seq(Reservings)
  BY DEF ReserveTyped
<1>. QED
  BY <1>1, <1>3, <1>4, <1>5

(* The end of a submission: nothing is awaited any more.                   *)
LEMMA EndOfReserving ==
    ASSUME ReserveInv, NEW i \in DOMAIN posted, Awaited(i), Reserve!Becomes(i, "done") \/ Reserve!Becomes(i, "failed"),
           typed' \in Nat, typed' >= typed,
           posted'[i].state = "done" => closed' \/ typed' > typed,
           closed => closed'
    PROVE  posted' \in Seq(Reservings) /\ Awaiting' /\ Past' /\ Reserve!ReservationsPreviewed'
<1>0. PICK state \in {"done", "failed"} : Reserve!Becomes(i, state)
  OBVIOUS
<1>1. /\ posted' \in Seq(Reservings) /\ DOMAIN posted' = DOMAIN posted /\ Len(posted') = Len(posted)
      /\ posted'[i].state = state
      /\ \A j \in DOMAIN posted : j # i => posted'[j] = posted[j]
      /\ \A j \in DOMAIN posted :
            posted'[j].typed = posted[j].typed /\ posted'[j].preview = posted[j].preview
  BY <1>0, BecomesTyped DEF ReserveInv
<1>2. \A j \in DOMAIN posted : j \in Nat /\ posted[j].typed \in Nat /\ typed \in Nat
  BY PostedTyped DEF ReserveInv, ReserveTyped
<1>3. i = Len(posted)
  BY DEF ReserveInv, Awaiting
<1>4. \A j \in DOMAIN posted : j # i => ~Awaited(j)
  BY <1>3 DEF ReserveInv, Awaiting
<1>5. Awaiting'
  BY <1>0, <1>1, <1>4 DEF Awaiting, Awaited
<1>6. Past'
  <2>1. ASSUME NEW j \in DOMAIN posted PROVE posted[j].typed =< typed'
    BY <1>2 DEF ReserveInv, Past
  <2>2. ASSUME NEW j \in DOMAIN posted, posted'[j].state = "done" PROVE closed' \/ posted[j].typed < typed'
    BY <1>1, <1>2, <2>2 DEF ReserveInv, Past
  <2>. QED
    BY <1>1, <2>1, <2>2 DEF Past
<1>7. Reserve!ReservationsPreviewed'
  <2>1. \A j \in DOMAIN posted' : posted'[j].preview.since = posted'[j].typed
    BY <1>1 DEF ReserveInv, Reserve!ReservationsPreviewed
  <2>2. ASSUME NEW j \in DOMAIN posted', NEW k \in DOMAIN posted', j < k
        PROVE  /\ posted'[j].state \in {"done", "failed"}
               /\ posted'[j].typed = posted'[k].typed => posted'[j].state = "failed"
    <3>1. j # i
      BY <1>1, <1>3, <2>2, PostedTyped DEF ReserveInv
    <3>. QED
      BY <1>1, <2>2, <3>1 DEF ReserveInv, Reserve!ReservationsPreviewed
  <2>. QED
    BY <2>1, <2>2 DEF Reserve!ReservationsPreviewed
<1>. QED
  BY <1>1, <1>5, <1>6, <1>7

LEMMA SubmitReserving ==
    ASSUME ReserveInv, NEW hard \in BOOLEAN, Reserve!Submit(hard)
    PROVE  ReserveInv'
<1>0. /\ entry \in Entries /\ entry # None /\ shown \in Previews /\ shown.since = typed
      /\ posted \in Seq(Reservings) /\ Len(posted) \in Nat /\ typed \in Nat
  BY DEF ReserveInv, ReserveTyped, ShownSince, Reserve!Submit
<1>1. PICK p \in Reservings : p = [entry |-> entry, typed |-> typed, preview |-> shown, hard |-> hard, state |-> "sent"]
  BY <1>0 DEF Reservings
<1>2. p.state = "sent" /\ p.typed = typed /\ p.preview = shown
  BY <1>1
<1>3. posted' = Append(posted, p)
  BY <1>1 DEF Reserve!Submit
<1>4. /\ posted' \in Seq(Reservings) /\ Len(posted') = Len(posted) + 1
      /\ DOMAIN posted' = DOMAIN posted \cup {Len(posted) + 1}
      /\ posted'[Len(posted) + 1] = p
      /\ \A j \in DOMAIN posted : posted'[j] = posted[j]
  BY <1>0, <1>3
<1>5. \A j \in DOMAIN posted : posted[j].state \in {"done", "failed"}
  <2>1. \A j \in DOMAIN posted : ~Awaited(j)
    BY DEF ReserveInv, Awaiting, Reserve!Submit
  <2>. QED
    BY <2>1, PostedTyped DEF ReserveInv, Awaited, Reservings
<1>6. saving' = TRUE /\ UNCHANGED <<entry, typed, lookups, lookedUp, shown, closed>> /\ ~closed
  BY DEF Reserve!Submit
<1>7. ReserveTyped' /\ ShownSince'
  BY <1>4, <1>6 DEF ReserveInv, ReserveTyped, ShownSince
<1>8. Awaiting'
  BY <1>0, <1>4, <1>5, <1>6 DEF Awaiting, Awaited
<1>9. Past'
  BY <1>0, <1>2, <1>4, <1>6 DEF ReserveInv, Past
<1>10. Reserve!ReservationsPreviewed'
  <2>1. \A j \in DOMAIN posted' : posted'[j].preview.since = posted'[j].typed
    BY <1>0, <1>2, <1>4 DEF ReserveInv, Reserve!ReservationsPreviewed
  <2>2. ASSUME NEW j \in DOMAIN posted', NEW k \in DOMAIN posted', j < k
        PROVE  /\ posted'[j].state \in {"done", "failed"}
               /\ posted'[j].typed = posted'[k].typed => posted'[j].state = "failed"
    <3>1. j \in DOMAIN posted /\ j \in Nat
      BY <1>0, <1>4, <2>2
    <3>2. CASE k \in DOMAIN posted
      BY <1>4, <2>2, <3>1, <3>2 DEF ReserveInv, Reserve!ReservationsPreviewed
    <3>3. CASE k = Len(posted) + 1
      <4>1. posted[j].typed \in Nat
        BY <3>1, PostedTyped DEF ReserveInv
      <4>2. posted[j].state = "done" => posted[j].typed < typed
        BY <1>6, <3>1 DEF ReserveInv, Past
      <4>. QED
        BY <1>0, <1>2, <1>4, <1>5, <3>1, <3>3, <4>1, <4>2
    <3>. QED
      BY <1>4, <3>2, <3>3
  <2>. QED
    BY <2>1, <2>2 DEF Reserve!ReservationsPreviewed
<1>. QED
  BY <1>7, <1>8, <1>9, <1>10 DEF ReserveInv

LEMMA ReserveStep ==
    ASSUME Reserve!ConstantsOK, ReserveInv, [Reserve!Next]_(Reserve!reserveVars)
    PROVE  ReserveInv'
<1>0. ReserveTyped /\ typed \in Nat /\ lookedUp \in 0 .. MaxAsked
  BY DEF ReserveInv, ReserveTyped
<1>1. ASSUME UNCHANGED <<entry, typed, saving, posted, closed, shown>>, ReserveTyped' PROVE ReserveInv'
  BY <1>1 DEF ReserveInv, ShownSince, Awaiting, Awaited, Past, Reserve!ReservationsPreviewed
<1>2. ASSUME NEW e \in Entries, Reserve!Type(e) PROVE ReserveInv'
  <2>1. /\ entry' = e /\ typed' = typed + 1 /\ shown' = None
        /\ UNCHANGED <<lookups, lookedUp, saving, posted, closed>>
    BY <1>2 DEF Reserve!Type, Reserve!Emptied
  <2>2. ReserveTyped' /\ ShownSince'
    BY <1>0, <2>1 DEF ReserveTyped, ShownSince
  <2>3. Awaiting'
    BY <2>1 DEF ReserveInv, Awaiting, Awaited, Reserve!ConstantsOK
  <2>4. Past'
    BY <1>0, <2>1, PostedTyped DEF ReserveInv, Past
  <2>5. Reserve!ReservationsPreviewed'
    BY <2>1 DEF ReserveInv, Reserve!ReservationsPreviewed
  <2>. QED
    BY <2>2, <2>3, <2>4, <2>5 DEF ReserveInv
<1>3. CASE Reserve!Blur
  <2>1. lookedUp + 1 \in 0 .. MaxAsked /\ lookedUp + 1 \in Nat
    BY <1>0, <1>3 DEF Reserve!Blur, Reserve!ConstantsOK
  <2>2. lookups' = lookups \cup {[about |-> entry, exact |-> None, nth |-> lookedUp + 1]} /\ entry \in Entries
    BY <1>0, <1>3 DEF Reserve!Blur, ReserveTyped
  <2>3. lookups' \subseteq Lookups
    BY <1>0, <2>1, <2>2 DEF ReserveTyped, Lookups
  <2>. QED
    BY <1>0, <1>1, <1>3, <2>1, <2>3 DEF Reserve!Blur, ReserveTyped
<1>4. ASSUME NEW l \in lookups, Reserve!Look(l) PROVE ReserveInv'
  <2>1. [l EXCEPT !.exact = l.about.handle \in names] \in Lookups
    <3>1. l \in Lookups
      BY <1>0, <1>4 DEF ReserveTyped
    <3>2. \A b \in BOOLEAN : [l EXCEPT !.exact = b] \in Lookups
      BY <3>1 DEF Lookups
    <3>3. (l.about.handle \in names) \in BOOLEAN
      OBVIOUS
    <3>. QED
      BY <3>2, <3>3
  <2>. QED
    BY <1>0, <1>1, <1>4, <2>1 DEF Reserve!Look, ReserveTyped
<1>5. ASSUME NEW l \in lookups, Reserve!Previewed(l) PROVE ReserveInv'
  <2>1. shown' \in Previews /\ shown'.since = typed
    BY <1>0, <1>5 DEF Reserve!Previewed, ReserveTyped, Previews, Lookups
  <2>2. ReserveTyped'
    BY <1>0, <1>5, <2>1 DEF Reserve!Previewed, ReserveTyped
  <2>. QED
    BY <1>5, <2>1, <2>2 DEF Reserve!Previewed, ReserveInv, ShownSince, Awaiting, Awaited, Past, Reserve!ReservationsPreviewed
<1>6. ASSUME NEW l \in lookups, Reserve!LookupFails(l) PROVE ReserveInv'
  BY <1>0, <1>1, <1>6 DEF Reserve!LookupFails, ReserveTyped
<1>7. ASSUME NEW hard \in BOOLEAN, Reserve!Submit(hard) PROVE ReserveInv'
  BY <1>7, SubmitReserving
<1>8. ASSUME NEW i \in DOMAIN posted, Reserve!Create(i) PROVE ReserveInv'
  <2>1. PICK state \in {"created", "queued"} : Reserve!Becomes(i, state)
    BY <1>8 DEF Reserve!Create
  <2>2. UNCHANGED <<entry, typed, lookups, lookedUp, shown, saving, closed>> /\ posted[i].state = "sent"
    BY <1>8 DEF Reserve!Create
  <2>3. /\ posted' \in Seq(Reservings) /\ DOMAIN posted' = DOMAIN posted /\ Len(posted') = Len(posted)
        /\ posted'[i].state = state
        /\ \A j \in DOMAIN posted : j # i => posted'[j] = posted[j]
        /\ \A j \in DOMAIN posted :
              posted'[j].typed = posted[j].typed /\ posted'[j].preview = posted[j].preview
    BY <1>0, <2>1, BecomesTyped
  <2>4. ReserveTyped' /\ ShownSince'
    BY <2>2, <2>3 DEF ReserveInv, ReserveTyped, ShownSince
  <2>5. i = Len(posted) /\ saving /\ entry # None
    BY <2>2 DEF ReserveInv, Awaiting, Awaited
  <2>6. Awaiting'
    BY <2>2, <2>3, <2>5 DEF ReserveInv, Awaiting, Awaited
  <2>7. Past'
    BY <2>1, <2>2, <2>3 DEF ReserveInv, Past
  <2>8. Reserve!ReservationsPreviewed'
    <3>1. \A j \in DOMAIN posted' : posted'[j].preview.since = posted'[j].typed
      BY <2>3 DEF ReserveInv, Reserve!ReservationsPreviewed
    <3>2. ASSUME NEW j \in DOMAIN posted', NEW k \in DOMAIN posted', j < k
          PROVE  /\ posted'[j].state \in {"done", "failed"}
                 /\ posted'[j].typed = posted'[k].typed => posted'[j].state = "failed"
      <4>1. j # i
        BY <1>0, <2>3, <2>5, <3>2, PostedTyped
      <4>. QED
        BY <2>3, <3>2, <4>1 DEF ReserveInv, Reserve!ReservationsPreviewed
    <3>. QED
      BY <3>1, <3>2 DEF Reserve!ReservationsPreviewed
  <2>. QED
    BY <2>4, <2>6, <2>7, <2>8 DEF ReserveInv
<1>9. ASSUME NEW i \in DOMAIN posted, Reserve!Opened(i) \/ Reserve!Failed(i) PROVE ReserveInv'
  <2>1. Awaited(i) /\ UNCHANGED <<entry, typed, lookups, lookedUp, shown>> /\ saving' = FALSE /\ closed' \in BOOLEAN
    BY <1>0, <1>9 DEF Reserve!Opened, Reserve!Failed, Awaited, ReserveTyped
  <2>2. Reserve!Becomes(i, "done") \/ Reserve!Becomes(i, "failed")
    BY <1>9 DEF Reserve!Opened, Reserve!Failed
  <2>3. posted'[i].state = "done" => closed'
    <3>1. CASE Reserve!Opened(i)
      BY <3>1 DEF Reserve!Opened
    <3>2. CASE Reserve!Failed(i)
      BY <1>0, <3>2, BecomesTyped DEF Reserve!Failed
    <3>. QED
      BY <1>9, <3>1, <3>2
  <2>4. closed => closed'
    BY <1>9 DEF Reserve!Opened, Reserve!Failed
  <2>5. posted' \in Seq(Reservings) /\ Awaiting' /\ Past' /\ Reserve!ReservationsPreviewed'
    BY <1>0, <2>1, <2>2, <2>3, <2>4, EndOfReserving
  <2>. QED
    BY <2>1, <2>5 DEF ReserveInv, ReserveTyped, ShownSince
<1>10. ASSUME NEW i \in DOMAIN posted, Reserve!Queued(i) PROVE ReserveInv'
  <2>1. Awaited(i) /\ entry # None
    BY <1>10 DEF Reserve!Queued, Awaited, ReserveInv, Awaiting
  <2>2. /\ entry' = None /\ typed' = typed + 1 /\ shown' = None /\ saving' = FALSE
        /\ UNCHANGED <<lookups, lookedUp, closed>>
    BY <1>10, <2>1 DEF Reserve!Queued, Reserve!Cleared
  <2>3. posted' \in Seq(Reservings) /\ Awaiting' /\ Past' /\ Reserve!ReservationsPreviewed'
    <3>1. Reserve!Becomes(i, "done")
      BY <1>10 DEF Reserve!Queued
    <3>2. typed' \in Nat /\ typed' >= typed /\ typed' > typed
      BY <1>0, <2>2
    <3>3. (posted'[i].state = "done" => closed' \/ typed' > typed) /\ (closed => closed')
      BY <2>2, <3>2
    <3>. QED
      BY <1>10, <2>1, <3>1, <3>2, <3>3, EndOfReserving
  <2>4. ReserveTyped'
    <3>1. entry' \in Entries \cup {None} /\ shown' \in Previews \cup {None} /\ saving' \in BOOLEAN
      BY <2>2
    <3>2. typed' \in Nat
      BY <1>0, <2>2
    <3>3. lookedUp' \in 0 .. MaxAsked /\ lookups' \subseteq Lookups /\ closed' \in BOOLEAN
      BY <1>0, <2>2 DEF ReserveTyped
    <3>. QED
      BY <2>3, <3>1, <3>2, <3>3 DEF ReserveTyped
  <2>5. ShownSince'
    BY <2>2 DEF ShownSince
  <2>. QED
    BY <2>3, <2>4, <2>5 DEF ReserveInv
<1>11. ASSUME NEW e \in Entries, Reserve!OtherCreates(e.handle) PROVE ReserveInv'
  BY <1>0, <1>1, <1>11 DEF Reserve!OtherCreates, ReserveTyped
<1>12. CASE UNCHANGED Reserve!reserveVars
  BY <1>0, <1>1, <1>12 DEF Reserve!reserveVars, ReserveTyped
<1>. QED
  BY <1>2, <1>3, <1>4, <1>5, <1>6, <1>7, <1>8, <1>9, <1>10, <1>11, <1>12 DEF Reserve!Next

LEMMA ReserveInvariant == ASSUME Reserve!ConstantsOK PROVE Reserve!Spec => []ReserveInv
<1>1. Reserve!Init => ReserveInv
  <2>. SUFFICES ASSUME Reserve!Init PROVE ReserveInv
    OBVIOUS
  <2>1. lookedUp \in 0 .. MaxAsked /\ posted \in Seq(Reservings)
    BY DEF Reserve!Init, Reserve!ConstantsOK
  <2>2. ReserveTyped
    BY <2>1 DEF Reserve!Init, ReserveTyped
  <2>. QED
    BY <2>2 DEF Reserve!Init, ReserveInv, ShownSince, Awaiting, Past, Reserve!ReservationsPreviewed
<1>2. ReserveInv /\ [Reserve!Next]_(Reserve!reserveVars) => ReserveInv'
  BY ReserveStep
<1>. QED
  BY <1>1, <1>2, PTL DEF Reserve!Spec

(* For any entries and any number of lookups and submissions: a change     *)
(* withdraws the preview, and what was queued leaves the form.             *)
THEOREM PreviewsPrecede == ASSUME Reserve!ConstantsOK PROVE Reserve!Spec => []ReservationsPreviewed
<1>1. ReserveInv => ReservationsPreviewed
  BY DEF ReserveInv, ReservationsPreviewed
<1>. QED
  BY <1>1, ReserveInvariant, PTL

LEMMA ReserveTypes == ASSUME Reserve!ConstantsOK PROVE Reserve!Spec => []Reserve!TypeOK
<1>1. ASSUME ReserveInv PROVE Reserve!TypeOK
  <2>1. \A i \in DOMAIN posted : posted[i].state \in {"sent", "created", "queued", "done", "failed"}
    BY <1>1, PostedTyped DEF ReserveInv, Reservings
  <2>. QED
    BY <1>1, <2>1 DEF ReserveInv, ReserveTyped, Reserve!TypeOK
<1>. QED
  BY <1>1, ReserveInvariant, PTL

(***************************************************************************)
(* The check of a handle, and administrators who write meanwhile.          *)
(***************************************************************************)
ServiceTyped ==
    /\ reserved \in [Reservations -> [class : Classes, status : Conditions]]
    /\ approved \subseteq Creators

Sound(c) == c.rank \in Nat /\ c.creator \in Creators

(* What is in force all the while is in force now, and what is in force    *)
(* now was at some time.                                                   *)
Bounded == throughout \subseteq InForce /\ InForce \subseteq sometime

(* A query finds what was in force at some time, and misses nothing of its *)
(* own that was all the while; only reserved handles have a status.        *)
Found ==
    /\ found.reservations # Nothing =>
          /\ found.reservations \subseteq sometime /\ \A c \in found.reservations : Sound(c)
          /\ \A c \in throughout : c.status # Nothing => c \in found.reservations
    /\ found.aliases # Nothing =>
          /\ found.aliases \subseteq sometime /\ \A c \in found.aliases : Sound(c)
          /\ \A c \in throughout : c.status = Nothing => c \in found.aliases

FoundTyped == found \in [reservations : {found.reservations}, aliases : {found.aliases}]

ServiceInv == ServiceTyped /\ FoundTyped /\ Bounded /\ Found /\ AnswerHolds

LEMMA RanksAreNumbers ==
    ASSUME NEW x
    PROVE  ExactRank(x) \in Nat /\ AliasRank(x) \in Nat
  BY DEF ExactRank, AliasRank

LEMMA OfReservationHas ==
    ASSUME NEW row, NEW state
    PROVE  /\ OfReservation(row, state).status = state.status
           /\ OfReservation(row, state).creator = row.owner
           /\ OfReservation(row, state).rank \in Nat
  BY RanksAreNumbers DEF OfReservation, Candidate, Resembling, Capped

LEMMA OfAliasHas ==
    ASSUME NEW row
    PROVE  /\ OfAlias(row).status = Nothing
           /\ OfAlias(row).creator = row.owner
           /\ OfAlias(row).rank \in Nat
  BY RanksAreNumbers DEF OfAlias, Candidate, Resembling, Capped

LEMMA ReservedHave ==
    ASSUME ServiceConstantsOK, ServiceTyped, NEW c \in ReservedNow
    PROVE  c.status # Nothing /\ Sound(c)
<1>1. PICK r \in Reservations : c = OfReservation(r, reserved[r]) /\ r.owner \in approved
  BY DEF ReservedNow
<1>2. reserved[r].status \in Conditions
  BY DEF ServiceTyped
<1>. QED
  BY <1>1, <1>2, OfReservationHas DEF ServiceConstantsOK, ServiceTyped, Sound

LEMMA AliasesHave ==
    ASSUME ServiceTyped, NEW c \in AliasesNow
    PROVE  c.status = Nothing /\ Sound(c)
<1>1. PICK a : c = OfAlias(a) /\ a.owner \in approved
  BY DEF AliasesNow
<1>. QED
  BY <1>1, OfAliasHas DEF ServiceTyped, Sound

LEMMA RegistrySame ==
    ASSUME UNCHANGED Registry
    PROVE  InForce' = InForce /\ UNCHANGED <<reserved, verified, approved, throughout, sometime>>
<1>1. UNCHANGED <<reserved, verified, approved, throughout, sometime>>
  BY DEF Registry
<1>2. InForce' = InForce
  BY <1>1 DEF InForce, ReservedNow, AliasesNow, Listed, OfReservation,
         OfAlias, Candidate, Resembling, Capped, Effective,
         ExactRank, AliasRank
<1>. QED
  BY <1>1, <1>2

LEMMA QueriesStep ==
    ASSUME ServiceConstantsOK, ServiceInv, ReadReservations \/ ReadAliases
    PROVE  ServiceInv'
<1>1. /\ UNCHANGED <<reserved, verified, approved, throughout, sometime>>
      /\ InForce' = InForce /\ verdict' = verdict
  BY RegistrySame DEF ReadReservations, ReadAliases
<1>2. ServiceTyped' /\ Bounded' /\ AnswerHolds'
  BY <1>1 DEF ServiceInv, ServiceTyped, Bounded, AnswerHolds
<1>3. CASE ReadReservations
  <2>1. found' = [found EXCEPT !.reservations = ReservedNow]
    BY <1>3 DEF ReadReservations
  <2>2. FoundTyped' /\ found'.reservations = ReservedNow /\ found'.aliases = found.aliases
    BY <2>1 DEF ServiceInv, FoundTyped
  <2>3. ReservedNow \subseteq sometime /\ \A c \in ReservedNow : Sound(c)
    BY ReservedHave DEF ServiceInv, Bounded, InForce
  <2>4. \A c \in throughout : c.status # Nothing => c \in ReservedNow
    BY AliasesHave DEF ServiceInv, Bounded, InForce
  <2>5. Found'
    BY <1>1, <2>2, <2>3, <2>4 DEF ServiceInv, Found
  <2>. QED
    BY <1>2, <2>2, <2>5 DEF ServiceInv
<1>4. CASE ReadAliases
  <2>1. found' = [found EXCEPT !.aliases = AliasesNow]
    BY <1>4 DEF ReadAliases
  <2>2. FoundTyped' /\ found'.aliases = AliasesNow /\ found'.reservations = found.reservations
    BY <2>1 DEF ServiceInv, FoundTyped
  <2>3. AliasesNow \subseteq sometime /\ \A c \in AliasesNow : Sound(c)
    BY AliasesHave DEF ServiceInv, Bounded, InForce
  <2>4. \A c \in throughout : c.status = Nothing => c \in AliasesNow
    BY ReservedHave DEF ServiceInv, Bounded, InForce
  <2>5. Found'
    BY <1>1, <2>2, <2>3, <2>4 DEF ServiceInv, Found
  <2>. QED
    BY <1>2, <2>2, <2>5 DEF ServiceInv
<1>. QED
  BY <1>3, <1>4

(* More than one creator has a claim unless all claims are of one.         *)
LEMMA OneClaimant ==
    ASSUME NEW S, IsFiniteSet(S), ~(Cardinality(S) > 1), NEW x \in S, NEW y \in S
    PROVE  x = y
<1>. SUFFICES ASSUME x # y PROVE FALSE
  OBVIOUS
<1>1. IsFiniteSet({x}) /\ Cardinality({x}) = 1
  BY FS_Singleton
<1>2. IsFiniteSet({x} \cup {y}) /\ Cardinality({x} \cup {y}) = 2
  <2>1. y \notin {x}
    OBVIOUS
  <2>2. Cardinality({x} \cup {y}) = IF y \in {x} THEN Cardinality({x}) ELSE Cardinality({x}) + 1
    BY <1>1, FS_AddElement
  <2>3. IsFiniteSet({x} \cup {y})
    BY <1>1, FS_AddElement
  <2>. QED
    BY <1>1, <2>1, <2>2, <2>3
<1>3. Cardinality({x} \cup {y}) =< Cardinality(S)
  BY FS_Subset
<1>4. Cardinality(S) \in Nat
  BY FS_CardinalityType
<1>. QED
  BY <1>2, <1>3, <1>4

LEMMA DecisionNames ==
    ASSUME NEW cs, NEW winner
    PROVE  Decision(cs, winner).creator =
              IF ~(Cardinality({c.creator : c \in cs}) > 1) /\ winner.creator \in approved
              THEN winner.creator ELSE Nothing
<1>. DEFINE ambiguous == Cardinality({c.creator : c \in cs}) > 1
<1>1. Decision(cs, winner) =
         [class |-> winner.class, by |-> winner.by, status |-> winner.status,
          ambiguous |-> ambiguous, rank |-> winner.rank,
          creator |-> IF ~ambiguous /\ winner.creator \in approved THEN winner.creator ELSE Nothing]
  BY DEF Decision
<1>. HIDE DEF ambiguous
<1>2. Decision(cs, winner).creator =
         IF ~ambiguous /\ winner.creator \in approved THEN winner.creator ELSE Nothing
  BY <1>1
<1>. QED
  BY <1>2 DEF ambiguous

LEMMA DecideStep ==
    ASSUME ServiceConstantsOK, ServiceInv, Decide
    PROVE  ServiceInv'
<1>1. /\ UNCHANGED <<reserved, verified, approved, throughout, sometime>>
      /\ InForce' = InForce /\ found' = found
  BY RegistrySame DEF Decide
<1>2. ServiceTyped' /\ Bounded' /\ FoundTyped' /\ Found'
  BY <1>1 DEF ServiceInv, ServiceTyped, Bounded, FoundTyped, Found
<1>3. PICK cs : cs = found.reservations \cup found.aliases
  OBVIOUS
<1>4. /\ throughout \subseteq cs /\ cs \subseteq sometime
      /\ \A c \in cs : Sound(c)
  BY <1>3 DEF ServiceInv, Found, Decide
<1>5. CASE cs = {}
  <2>1. verdict' = NotListed
    BY <1>3, <1>5 DEF Decide
  <2>2. NotListed.creator = Nothing
    BY DEF NotListed
  <2>. QED
    BY <1>1, <1>2, <1>4, <1>5, <2>1, <2>2 DEF ServiceInv, AnswerHolds, NotListed
<1>6. CASE cs # {}
  <2>1. PICK winner \in Winners(cs) : verdict' = Decision(cs, winner)
    BY <1>3, <1>6 DEF Decide
  <2>2. winner \in cs /\ \A d \in cs : ~Outranks(d, winner)
    BY <2>1 DEF Winners
  <2>3. \A d \in cs : d.rank =< winner.rank
    BY <1>4, <2>2 DEF Outranks, Sound
  <2>4. /\ verdict'.rank = winner.rank /\ verdict'.class = winner.class
        /\ verdict'.by = winner.by /\ verdict'.status = winner.status
    BY <2>1 DEF Decision
  <2>5. ASSUME verdict'.creator # Nothing
        PROVE  verdict'.creator = winner.creator /\ \A c \in cs : c.creator = winner.creator
    <3>. DEFINE claimants == {c.creator : c \in cs}
    <3>1. verdict'.creator = IF ~(Cardinality(claimants) > 1) /\ winner.creator \in approved
                             THEN winner.creator ELSE Nothing
      BY <2>1, DecisionNames
    <3>2. claimants \subseteq Creators
      BY <1>4 DEF Sound
    <3>3. winner.creator \in claimants /\ \A c \in cs : c.creator \in claimants
      BY <2>2
    <3>. HIDE DEF claimants
    <3>4. ~(Cardinality(claimants) > 1) /\ verdict'.creator = winner.creator
      BY <2>5, <3>1
    <3>5. IsFiniteSet(claimants)
      <4>1. claimants \in SUBSET Creators /\ IsFiniteSet(Creators)
        BY <3>2 DEF ServiceConstantsOK
      <4>. QED
        BY <4>1, FS_Subset
    <3>. QED
      BY <3>3, <3>4, <3>5, OneClaimant
  <2>6. \A c \in throughout : c.rank =< verdict'.rank
    BY <1>4, <2>3, <2>4
  <2>7. winner \in sometime
    BY <1>4, <2>2
  <2>8. verdict'.creator # Nothing =>
           /\ \A c \in throughout : c.creator = verdict'.creator
           /\ \E c \in sometime : c.creator = verdict'.creator /\ c.by = verdict'.by
    BY <1>4, <2>4, <2>5, <2>7
  <2>9. \E c \in sometime : <<c.class, c.by, c.status>> = <<verdict'.class, verdict'.by, verdict'.status>>
    BY <2>4, <2>7
  <2>10. AnswerHolds'
    BY <1>1, <2>6, <2>8, <2>9 DEF AnswerHolds
  <2>. QED
    BY <1>2, <2>10 DEF ServiceInv
<1>. QED
  BY <1>5, <1>6

LEMMA WriteStep ==
    ASSUME ServiceInv, Written,
           reserved' \in [Reservations -> [class : Classes, status : Conditions]],
           approved' \subseteq Creators
    PROVE  ServiceInv'
<1>1. /\ verdict = Nothing /\ UNCHANGED <<found, verdict>>
      /\ throughout' = throughout \cap InForce' /\ sometime' = sometime \cup InForce'
  BY DEF Written
<1>2. ServiceTyped' /\ Bounded' /\ FoundTyped' /\ Found'
  BY <1>1 DEF ServiceInv, ServiceTyped, Bounded, FoundTyped, Found
<1>3. AnswerHolds'
  BY <1>1 DEF AnswerHolds
<1>. QED
  BY <1>2, <1>3 DEF ServiceInv

LEMMA ServiceStep ==
    ASSUME ServiceConstantsOK, ServiceInv, [ServiceNext]_(serviceVars)
    PROVE  ServiceInv'
<1>0. /\ reserved \in [Reservations -> [class : Classes, status : Conditions]]
      /\ approved \subseteq Creators
  BY DEF ServiceInv, ServiceTyped
<1>1. CASE ReadReservations \/ ReadAliases
  BY <1>1, QueriesStep
<1>2. CASE Decide
  BY <1>2, DecideStep
<1>3. ASSUME NEW r \in Reservations, Change(r) PROVE ServiceInv'
  <2>1. reserved' \in [Reservations -> [class : Classes, status : Conditions]]
    BY <1>0, <1>3 DEF Change
  <2>. QED
    BY <1>0, <1>3, <2>1, WriteStep DEF Change
<1>4. ASSUME NEW a \in Aliases, Cite(a) PROVE ServiceInv'
  BY <1>0, <1>4, WriteStep DEF Cite
<1>5. ASSUME NEW c \in Creators, Review(c) PROVE ServiceInv'
  BY <1>0, <1>5, WriteStep DEF Review
<1>6. CASE UNCHANGED serviceVars
  <2>1. UNCHANGED Registry /\ UNCHANGED <<found, verdict>>
    BY <1>6 DEF serviceVars, Registry
  <2>. QED
    BY <2>1, RegistrySame DEF ServiceInv, ServiceTyped, Bounded, FoundTyped, Found, AnswerHolds
<1>. QED
  BY <1>1, <1>2, <1>3, <1>4, <1>5, <1>6 DEF ServiceNext

LEMMA ServiceInvariant == ASSUME ServiceConstantsOK PROVE ServiceSpec => []ServiceInv
<1>1. ServiceInit => ServiceInv
  <2>. SUFFICES ASSUME ServiceInit PROVE ServiceInv
    OBVIOUS
  <2>1. ServiceTyped
    BY DEF ServiceInit, ServiceTyped, Classes, Conditions
  <2>2. FoundTyped /\ Bounded /\ Found /\ AnswerHolds
    BY DEF ServiceInit, FoundTyped, Bounded, Found, AnswerHolds
  <2>. QED
    BY <2>1, <2>2 DEF ServiceInv
<1>2. ServiceInv /\ [ServiceNext]_(serviceVars) => ServiceInv'
  BY ServiceStep
<1>. QED
  BY <1>1, <1>2, PTL DEF ServiceSpec

(* However writes and queries interleave, an answer ranks no lower than    *)
(* what was in force all the while, tells what was in force at some time,  *)
(* and names a creator only if nobody else had a claim all the while.      *)
THEOREM AnswersHold == ASSUME ServiceConstantsOK PROVE ServiceSpec => []AnswerHolds
<1>1. ServiceInv => AnswerHolds
  BY DEF ServiceInv, AnswerHolds
<1>. QED
  BY <1>1, ServiceInvariant, PTL

(* What was ever in force has a class, and with it every answer.           *)
Classified ==
    /\ verified \subseteq Aliases /\ writes \in 0 .. MaxWrites
    /\ \A c \in sometime : c.class \in Classes

LEMMA OfReservationClassified ==
    ASSUME NEW row, NEW state, state.class \in Classes
    PROVE  OfReservation(row, state).class \in Classes
<1>1. Effective(state) \in Classes
  BY DEF Effective, Classes
<1>. QED
  BY <1>1 DEF OfReservation, Candidate, Resembling, Classes

LEMMA OfAliasClassified == ASSUME NEW row PROVE OfAlias(row).class \in Classes
  BY DEF OfAlias, Candidate, Resembling, Classes

LEMMA InForceClassified ==
    /\ ServiceTyped => \A c \in InForce : c.class \in Classes
    /\ ServiceTyped' => \A c \in InForce' : c.class \in Classes
<1>1. ASSUME ServiceTyped PROVE \A c \in InForce : c.class \in Classes
  <2>1. \A r \in Reservations : reserved[r].class \in Classes
    BY <1>1 DEF ServiceTyped
  <2>. QED
    BY <2>1, OfReservationClassified, OfAliasClassified DEF InForce, ReservedNow, AliasesNow
<1>2. ASSUME ServiceTyped' PROVE \A c \in InForce' : c.class \in Classes
  <2>1. \A r \in Reservations : reserved'[r].class \in Classes
    BY <1>2 DEF ServiceTyped
  <2>. QED
    BY <2>1, OfReservationClassified, OfAliasClassified DEF InForce, ReservedNow, AliasesNow
<1>. QED
  BY <1>1, <1>2

LEMMA ClassifiedStep ==
    ASSUME ServiceConstantsOK, ServiceTyped', Classified, [ServiceNext]_(serviceVars)
    PROVE  Classified'
<1>1. CASE UNCHANGED <<verified, sometime, writes>>
  BY <1>1 DEF Classified
<1>2. ASSUME Written, verified' \subseteq Aliases PROVE Classified'
  <2>1. \A c \in InForce' : c.class \in Classes
    BY InForceClassified
  <2>2. sometime' = sometime \cup InForce' /\ writes' = writes + 1 /\ writes < MaxWrites
    BY <1>2 DEF Written
  <2>. QED
    BY <1>2, <2>1, <2>2 DEF Classified, ServiceConstantsOK
<1>3. CASE ReadReservations \/ ReadAliases \/ Decide
  BY <1>1, <1>3 DEF ReadReservations, ReadAliases, Decide, Registry
<1>4. ASSUME NEW r \in Reservations, Change(r) PROVE Classified'
  BY <1>2, <1>4 DEF Change, Classified
<1>5. ASSUME NEW a \in Aliases, Cite(a) PROVE Classified'
  BY <1>2, <1>5 DEF Cite, Classified
<1>6. ASSUME NEW c \in Creators, Review(c) PROVE Classified'
  BY <1>2, <1>6 DEF Review, Classified
<1>7. CASE UNCHANGED serviceVars
  BY <1>1, <1>7 DEF serviceVars
<1>. QED
  BY <1>3, <1>4, <1>5, <1>6, <1>7 DEF ServiceNext

LEMMA ServiceTypes == ASSUME ServiceConstantsOK PROVE ServiceSpec => []ServiceTypeOK
<1>1. ServiceInv /\ ServiceInit => Classified
  <2>. SUFFICES ASSUME ServiceInv, ServiceInit PROVE Classified
    OBVIOUS
  <2>1. \A c \in InForce : c.class \in Classes
    BY InForceClassified DEF ServiceInv
  <2>. QED
    BY <2>1 DEF ServiceInit, Classified, ServiceConstantsOK
<1>2. ServiceInv' /\ Classified /\ [ServiceNext]_(serviceVars) => Classified'
  BY ClassifiedStep DEF ServiceInv
<1>3. ServiceInv /\ Classified => ServiceTypeOK
  <2>. SUFFICES ASSUME ServiceInv, Classified PROVE ServiceTypeOK
    OBVIOUS
  <2>1. ASSUME verdict # Nothing PROVE verdict.class \in Classes
    <3>1. CASE verdict = NotListed
      BY <3>1 DEF NotListed, Classes
    <3>2. CASE verdict # NotListed
      <4>1. PICK c \in sometime :
               <<c.class, c.by, c.status>> = <<verdict.class, verdict.by, verdict.status>>
        BY <2>1, <3>2 DEF ServiceInv, AnswerHolds
      <4>. QED
        BY <4>1 DEF Classified
    <3>. QED
      BY <3>1, <3>2
  <2>2. throughout \subseteq sometime
    BY DEF ServiceInv, Bounded
  <2>. QED
    BY <2>1, <2>2 DEF ServiceInv, ServiceTyped, Classified, ServiceTypeOK
<1>. QED
  BY <1>1, <1>2, <1>3, ServiceInvariant, PTL DEF ServiceSpec

(***************************************************************************)
(* The form that suggests a creator.                                       *)
(***************************************************************************)
Held == Values \cup {""}

FormRows == [id : Nat, value : Held]

FormErrors == [id : Nat, about : Held]

FormPosts == [nth : Nat, values : Seq(Held), state : {"waiting", "stored", "refused"}, at : Nat]

FormTyped ==
    /\ draft \in Seq(FormRows) /\ nextId \in Nat
    /\ errors \subseteq FormErrors
    /\ lastSent \in Seq(FormRows)
    /\ pending \in Nat \cup {None} /\ sends \in Nat
    /\ posts \subseteq FormPosts

(* No two rows have one id, and none has an id that is still to be given.  *)
Numbered ==
    /\ \A i \in DOMAIN draft : draft[i].id < nextId
    /\ \A i, j \in DOMAIN draft : draft[i].id = draft[j].id => i = j
    /\ \A e \in errors : e.id < nextId

ValuesOf(s) == [i \in DOMAIN s |-> s[i].value]

(* The submission that is awaited is the last one, made of lastSent.       *)
Sending ==
    /\ \A p \in posts : p.nth =< sends
    /\ pending # None =>
          /\ ~done /\ pending = sends
          /\ \A i \in DOMAIN lastSent : lastSent[i].id < nextId
          /\ \A p \in posts : p.nth = pending =>
                p.values = ValuesOf(lastSent) /\ p.at \in DOMAIN lastSent \cup {0}

(* An error is about what its row holds, or held when it was sent.         *)
WasSent(e) == \E k \in DOMAIN lastSent : lastSent[k].id = e.id /\ lastSent[k].value = e.about

Explained ==
    \A e \in errors, i \in DOMAIN draft :
        e.id = draft[i].id => e.about = draft[i].value \/ WasSent(e)

FormInv == FormTyped /\ Numbered /\ Sending /\ Explained

LEMMA DraftTyped ==
    ASSUME FormTyped, NEW i \in DOMAIN draft
    PROVE  /\ draft[i] \in FormRows /\ draft[i].id \in Nat /\ draft[i].value \in Held
           /\ i \in Nat /\ DOMAIN draft = 1 .. Len(draft) /\ Len(draft) \in Nat
<1>1. draft \in Seq(FormRows)
  BY DEF FormTyped
<1>2. draft[i] \in FormRows
  BY <1>1
<1>. QED
  BY <1>1, <1>2 DEF FormRows

LEMMA SentRowTyped ==
    ASSUME FormTyped, NEW i \in DOMAIN lastSent
    PROVE  lastSent[i].id \in Nat /\ lastSent[i].value \in Held
<1>1. lastSent \in Seq(FormRows)
  BY DEF FormTyped
<1>2. lastSent[i] \in FormRows
  BY <1>1
<1>. QED
  BY <1>2 DEF FormRows

LEMMA PartOf ==
    ASSUME NEW S, NEW s \in Seq(S), NEW m \in Nat \ {0}, NEW n \in Nat, n =< Len(s), m =< n + 1
    PROVE  /\ SubSeq(s, m, n) \in Seq(S) /\ Len(SubSeq(s, m, n)) = n - m + 1
           /\ \A j \in 1 .. (n - m + 1) : SubSeq(s, m, n)[j] = s[m + j - 1]
<1>1. \A j \in m .. n : s[j] \in S
  OBVIOUS
<1>. QED
  BY <1>1, SubSeqProperties

LEMMA SplitAt ==
    ASSUME NEW n \in Nat, NEW i \in 1 .. n
    PROVE  \E m \in Nat, k \in Nat : i = m + 1 /\ n = m + 1 + k
<1>1. i - 1 \in Nat /\ n - i \in Nat /\ i = (i - 1) + 1 /\ n = (i - 1) + 1 + (n - i)
  OBVIOUS
<1>. QED
  BY <1>1

(* What is left of s when its row i is taken out.                          *)
LEMMA RowRemoved ==
    ASSUME NEW S, NEW s \in Seq(S), NEW i \in DOMAIN s
    PROVE  \E r \in Seq(S) :
              /\ r = Form!RemoveAt(s, i)
              /\ \A j \in DOMAIN r : \E l \in DOMAIN s : (j < i => l = j) /\ (j >= i => l = j + 1) /\ r[j] = s[l]
<1>1. PICK n \in Nat : n = Len(s) /\ DOMAIN s = 1 .. n
  OBVIOUS
<1>2. i \in 1 .. n
  BY <1>1
<1>3. PICK m \in Nat, k \in Nat : i = m + 1 /\ n = m + 1 + k
  BY <1>2, SplitAt
<1>4. PICK a : a = SubSeq(s, 1, m)
  OBVIOUS
<1>5. PICK b : b = SubSeq(s, m + 2, n)
  OBVIOUS
<1>6. a \in Seq(S) /\ Len(a) = m /\ \A j \in 1 .. m : a[j] = s[j]
  <2>1. m =< n /\ 1 \in Nat \ {0} /\ 1 =< m + 1 /\ m - 1 + 1 = m /\ \A j \in 1 .. m : 1 + j - 1 = j
    BY <1>3
  <2>2. m =< Len(s)
    BY <1>1, <2>1
  <2>3. a \in Seq(S) /\ Len(a) = m - 1 + 1 /\ \A j \in 1 .. (m - 1 + 1) : a[j] = s[1 + j - 1]
    BY <1>4, <2>1, <2>2, PartOf
  <2>. QED
    BY <2>1, <2>3
<1>7. b \in Seq(S) /\ Len(b) = k /\ \A l \in 1 .. k : b[l] = s[m + 1 + l]
  <2>1. PICK q \in Nat \ {0} : q = m + 2
    OBVIOUS
  <2>2. q =< n + 1 /\ n - q + 1 = k /\ \A l \in 1 .. k : q + l - 1 = m + 1 + l
    BY <1>3, <2>1
  <2>3. n =< Len(s)
    BY <1>1
  <2>4. b \in Seq(S) /\ Len(b) = n - q + 1 /\ \A l \in 1 .. (n - q + 1) : b[l] = s[q + l - 1]
    BY <1>5, <2>1, <2>2, <2>3, PartOf
  <2>. QED
    BY <2>2, <2>4
<1>8. PICK r : r = Form!RemoveAt(s, i)
  OBVIOUS
<1>9. r = a \o b
  <2>1. i - 1 = m /\ i + 1 = m + 2
    BY <1>3
  <2>2. r = SubSeq(s, 1, i - 1) \o SubSeq(s, i + 1, Len(s))
    BY <1>8 DEF Form!RemoveAt
  <2>. QED
    BY <1>1, <1>4, <1>5, <2>1, <2>2
<1>10. r \in Seq(S) /\ Len(r) = Len(a) + Len(b)
  BY <1>6, <1>7, <1>9, ConcatProperties
<1>11. \A j \in 1 .. Len(a) + Len(b) : r[j] = IF j <= Len(a) THEN a[j] ELSE b[j - Len(a)]
  BY <1>6, <1>7, <1>9, ConcatProperties
<1>12. DOMAIN r = 1 .. (m + k) /\ \A j \in 1 .. (m + k) : r[j] = IF j <= m THEN a[j] ELSE b[j - m]
  BY <1>6, <1>7, <1>10, <1>11
<1>13. ASSUME NEW j \in DOMAIN r
       PROVE  \E l \in DOMAIN s : (j < i => l = j) /\ (j >= i => l = j + 1) /\ r[j] = s[l]
  <2>1. j \in 1 .. (m + k)
    BY <1>12, <1>13
  <2>2. CASE j =< m
    <3>1. j \in 1 .. m /\ j \in 1 .. n /\ j < i /\ ~(j >= i)
      BY <1>3, <2>1, <2>2
    <3>2. r[j] = s[j]
      BY <1>6, <1>12, <2>1, <2>2, <3>1
    <3>. QED
      BY <1>1, <3>1, <3>2
  <2>3. CASE ~(j =< m)
    <3>1. PICK l \in 1 .. k : l = j - m
      BY <2>1, <2>3
    <3>2. j + 1 = m + 1 + l /\ j + 1 \in 1 .. n /\ ~(j < i)
      BY <1>3, <2>1, <2>3, <3>1
    <3>3. r[j] = b[l] /\ b[l] = s[m + 1 + l]
      BY <1>7, <1>12, <2>1, <2>3, <3>1
    <3>. QED
      BY <1>1, <3>2, <3>3
  <2>. QED
    BY <2>2, <2>3
<1>. QED
  BY <1>8, <1>10, <1>13

LEMMA OneFewer ==
    ASSUME NEW S, NEW s \in Seq(S), NEW i \in DOMAIN s
    PROVE  Len(Form!RemoveAt(s, i)) = Len(s) - 1
<1>1. PICK n \in Nat : n = Len(s) /\ DOMAIN s = 1 .. n
  OBVIOUS
<1>2. PICK m \in Nat, k \in Nat : i = m + 1 /\ n = m + 1 + k
  BY <1>1, SplitAt
<1>3. SubSeq(s, 1, i - 1) \in Seq(S) /\ Len(SubSeq(s, 1, i - 1)) = m
  <2>1. i - 1 = m /\ m \in Nat /\ 1 \in Nat \ {0} /\ m <= Len(s) /\ 1 <= m + 1 /\ m - 1 + 1 = m
    BY <1>1, <1>2
  <2>2. SubSeq(s, 1, m) \in Seq(S) /\ Len(SubSeq(s, 1, m)) = m - 1 + 1
    BY <2>1, PartOf
  <2>. QED
    BY <2>1, <2>2
<1>4. SubSeq(s, i + 1, Len(s)) \in Seq(S) /\ Len(SubSeq(s, i + 1, Len(s))) = k
  <2>1. PICK q \in Nat \ {0} : q = i + 1
    BY <1>2
  <2>2. n <= Len(s) /\ q <= n + 1 /\ n - q + 1 = k
    BY <1>1, <1>2, <2>1
  <2>3. SubSeq(s, q, n) \in Seq(S) /\ Len(SubSeq(s, q, n)) = n - q + 1
    BY <2>1, <2>2, PartOf
  <2>. QED
    BY <1>1, <2>1, <2>2, <2>3
<1>5. Len(Form!RemoveAt(s, i)) = m + k
  BY <1>3, <1>4, ConcatProperties DEF Form!RemoveAt
<1>. QED
  BY <1>1, <1>2, <1>5

LEMMA RowChanged ==
    ASSUME FormTyped, NEW i \in DOMAIN draft, NEW v \in Held
    PROVE  \E r \in Seq(FormRows) :
              /\ r = [draft EXCEPT ![i].value = v] /\ DOMAIN r = DOMAIN draft
              /\ \A k \in DOMAIN draft : r[k].id = draft[k].id /\ (k # i => r[k] = draft[k])
<1>1. draft \in Seq(FormRows) /\ draft[i] \in FormRows
  BY DraftTyped DEF FormTyped
<1>2. PICK x : x = [draft[i] EXCEPT !.value = v]
  OBVIOUS
<1>3. x \in FormRows /\ x.id = draft[i].id
  BY <1>1, <1>2 DEF FormRows
<1>4. PICK r : r = [draft EXCEPT ![i] = x]
  OBVIOUS
<1>5. r \in Seq(FormRows) /\ DOMAIN r = DOMAIN draft
  BY <1>1, <1>3, <1>4
<1>6. ASSUME NEW k \in DOMAIN draft PROVE r[k].id = draft[k].id /\ (k # i => r[k] = draft[k])
  BY <1>3, <1>4
<1>. QED
  BY <1>2, <1>4, <1>5, <1>6

(* What the form finds by itself is about what the rows hold.              *)
LEMMA FoundInRows ==
    ASSUME FormTyped, Numbered, NEW e \in Form!RowErrors(draft)
    PROVE  /\ e \in FormErrors /\ e.id < nextId
           /\ \A i \in DOMAIN draft : e.id = draft[i].id => e.about = draft[i].value
<1>1. PICK k \in DOMAIN draft : e = [id |-> draft[k].id, about |-> draft[k].value]
  BY DEF Form!RowErrors
<1>2. draft[k].id \in Nat /\ draft[k].value \in Held
  BY DraftTyped
<1>3. e \in FormErrors /\ e.id = draft[k].id /\ e.about = draft[k].value
  BY <1>1, <1>2 DEF FormErrors
<1>4. draft[k].id < nextId /\ \A i \in DOMAIN draft : draft[k].id = draft[i].id => k = i
  BY DEF Numbered
<1>. QED
  BY <1>3, <1>4

LEMMA FormStarts ==
    ASSUME Form!ConstantsOK, Form!Init
    PROVE  FormInv
<1>. DEFINE x == [id |-> 1, value |-> ""]
<1>1. x \in FormRows /\ x.id = 1
  BY DEF FormRows, Held
<1>. HIDE DEF x
<1>2. draft = <<x>> /\ nextId = 2 /\ errors = {} /\ pending = None /\ lastSent = <<>> /\ posts = {} /\ sends = 0
  BY DEF Form!Init, Form!Empty, x
<1>3. draft \in Seq(FormRows) /\ DOMAIN draft = {1} /\ draft[1] = x
  BY <1>1, <1>2
<1>4. FormTyped
  BY <1>2, <1>3 DEF FormTyped
<1>5. Numbered
  BY <1>1, <1>2, <1>3 DEF Numbered
<1>6. Sending /\ Explained
  BY <1>2 DEF Sending, Explained
<1>. QED
  BY <1>4, <1>5, <1>6 DEF FormInv

(* Editing leaves what was sent and what is awaited alone.                 *)
LEMMA SendingKept ==
    ASSUME Sending, FormTyped, pending' = pending, lastSent' = lastSent, done' = done, posts' = posts,
           sends' = sends, nextId' \in Nat, nextId =< nextId'
    PROVE  Sending'
<1>1. ASSUME NEW i \in DOMAIN lastSent, lastSent[i].id < nextId PROVE lastSent[i].id < nextId'
  <2>1. lastSent[i].id \in Nat
    BY SentRowTyped
  <2>2. nextId \in Nat
    BY DEF FormTyped
  <2>. QED
    BY <1>1, <2>1, <2>2
<1>. QED
  BY <1>1 DEF Sending

LEMMA RowChanges ==
    ASSUME FormInv, NEW i \in DOMAIN draft, NEW v \in Values, Form!ChangeRow(i, v)
    PROVE  FormInv'
<1>0. FormTyped /\ Numbered /\ Sending /\ Explained
  BY DEF FormInv
<1>1. v \in Held
  BY DEF Held
<1>2. PICK r \in Seq(FormRows) :
         /\ r = [draft EXCEPT ![i].value = v] /\ DOMAIN r = DOMAIN draft
         /\ \A k \in DOMAIN draft : r[k].id = draft[k].id /\ (k # i => r[k] = draft[k])
  BY <1>0, <1>1, RowChanged
<1>3. /\ draft' = r /\ nextId' = nextId /\ pending' = pending /\ lastSent' = lastSent /\ done' = done
      /\ posts' = posts /\ sends' = sends
      /\ \A e \in errors' : e \in errors /\ e.id # draft[i].id
  BY <1>2 DEF Form!ChangeRow, Form!Editing, Form!Without
<1>4. FormTyped'
  BY <1>0, <1>2, <1>3 DEF FormTyped
<1>5. Numbered'
  BY <1>0, <1>2, <1>3 DEF Numbered
<1>6. Sending'
  BY <1>0, <1>3, SendingKept DEF FormTyped
<1>7. Explained'
  BY <1>0, <1>2, <1>3 DEF Explained, WasSent
<1>. QED
  BY <1>4, <1>5, <1>6, <1>7 DEF FormInv

LEMMA RowJoins ==
    ASSUME FormInv, Form!AddRow
    PROVE  FormInv'
<1>0. FormTyped /\ Numbered /\ Sending /\ Explained
  BY DEF FormInv
<1>1. PICK x : x = [id |-> nextId, value |-> ""]
  OBVIOUS
<1>2. x \in FormRows /\ x.id = nextId
  BY <1>0, <1>1 DEF FormRows, Held, FormTyped
<1>3. /\ draft' = Append(draft, x) /\ nextId' = nextId + 1 /\ errors' = errors /\ pending' = pending
      /\ lastSent' = lastSent /\ done' = done /\ posts' = posts /\ sends' = sends
  BY <1>1 DEF Form!AddRow, Form!Editing
<1>4. draft \in Seq(FormRows) /\ nextId \in Nat
  BY <1>0 DEF FormTyped
<1>5. PICK n \in Nat : n = Len(draft) /\ DOMAIN draft = 1 .. n
  BY <1>4
<1>6. draft' \in Seq(FormRows) /\ DOMAIN draft' = 1 .. (n + 1)
  BY <1>2, <1>3, <1>4, <1>5
<1>7. draft'[n + 1] = x /\ \A k \in 1 .. n : draft'[k] = draft[k]
  BY <1>2, <1>3, <1>4, <1>5
<1>8. ASSUME NEW k \in DOMAIN draft'
      PROVE  (k \in DOMAIN draft /\ draft'[k] = draft[k]) \/ (k = n + 1 /\ draft'[k] = x)
  <2>1. k \in 1 .. n \/ k = n + 1
    BY <1>6, <1>8
  <2>2. CASE k \in 1 .. n
    <3>1. draft'[k] = draft[k]
      BY <1>7, <2>2
    <3>2. k \in DOMAIN draft
      BY <1>5, <2>2
    <3>. QED
      BY <3>1, <3>2
  <2>3. CASE k = n + 1
    BY <1>7, <2>3
  <2>. QED
    BY <2>1, <2>2, <2>3
<1>9. FormTyped'
  BY <1>0, <1>3, <1>4, <1>6 DEF FormTyped
<1>10. ASSUME NEW k \in DOMAIN draft PROVE draft[k].id \in Nat /\ draft[k].id < nextId
  BY <1>0, DraftTyped DEF Numbered
<1>11. ASSUME NEW e \in errors PROVE e.id \in Nat /\ e.id < nextId
  BY <1>0 DEF Numbered, FormTyped, FormErrors
<1>12. Numbered'
  <2>1. ASSUME NEW k \in DOMAIN draft' PROVE draft'[k].id < nextId'
    BY <1>2, <1>3, <1>4, <1>8, <1>10
  <2>2. ASSUME NEW k \in DOMAIN draft', NEW l \in DOMAIN draft', draft'[k].id = draft'[l].id PROVE k = l
    <3>1. CASE k \in DOMAIN draft /\ draft'[k] = draft[k] /\ l \in DOMAIN draft /\ draft'[l] = draft[l]
      BY <1>0, <2>2, <3>1 DEF Numbered
    <3>2. CASE k = n + 1 /\ draft'[k] = x /\ l = n + 1
      BY <3>2
    <3>3. CASE k \in DOMAIN draft /\ draft'[k] = draft[k] /\ l = n + 1 /\ draft'[l] = x
      BY <1>2, <1>4, <1>10, <2>2, <3>3
    <3>4. CASE l \in DOMAIN draft /\ draft'[l] = draft[l] /\ k = n + 1 /\ draft'[k] = x
      BY <1>2, <1>4, <1>10, <2>2, <3>4
    <3>. QED
      BY <1>8, <3>1, <3>2, <3>3, <3>4
  <2>3. ASSUME NEW e \in errors' PROVE e.id < nextId'
    BY <1>3, <1>4, <1>11
  <2>. QED
    BY <2>1, <2>2, <2>3 DEF Numbered
<1>13. Sending'
  <2>1. nextId' \in Nat /\ nextId =< nextId'
    BY <1>3, <1>4
  <2>. QED
    BY <1>0, <1>3, <2>1, SendingKept
<1>14. Explained'
  <2>1. ASSUME NEW e \in errors', NEW k \in DOMAIN draft', e.id = draft'[k].id
        PROVE  e.about = draft'[k].value \/ WasSent(e)'
    <3>1. e \in errors /\ e.id \in Nat /\ e.id < nextId
      BY <1>3, <1>11, <2>1
    <3>2. k \in DOMAIN draft /\ draft'[k] = draft[k]
      BY <1>2, <1>4, <1>8, <2>1, <3>1
    <3>3. e.about = draft[k].value \/ WasSent(e)
      BY <1>0, <2>1, <3>1, <3>2 DEF Explained
    <3>. QED
      BY <1>3, <3>2, <3>3 DEF WasSent
  <2>. QED
    BY <2>1 DEF Explained
<1>. QED
  BY <1>9, <1>12, <1>13, <1>14 DEF FormInv

LEMMA RowGoes ==
    ASSUME FormInv, NEW i \in DOMAIN draft, Form!RemoveRow(i)
    PROVE  FormInv'
<1>0. FormTyped /\ Numbered /\ Sending /\ Explained
  BY DEF FormInv
<1>1. draft \in Seq(FormRows)
  BY <1>0 DEF FormTyped
<1>2. PICK r \in Seq(FormRows) :
         /\ r = Form!RemoveAt(draft, i)
         /\ \A j \in DOMAIN r :
               \E l \in DOMAIN draft : (j < i => l = j) /\ (j >= i => l = j + 1) /\ r[j] = draft[l]
  BY <1>1, RowRemoved
<1>3. /\ draft' = r /\ nextId' = nextId /\ pending' = pending /\ lastSent' = lastSent /\ done' = done
      /\ posts' = posts /\ sends' = sends
      /\ \A e \in errors' : e \in errors
  BY <1>2 DEF Form!RemoveRow, Form!Editing, Form!Without
<1>4. FormTyped'
  BY <1>0, <1>2, <1>3 DEF FormTyped
<1>5. Numbered'
  <2>1. ASSUME NEW j \in DOMAIN r PROVE r[j].id < nextId
    BY <1>0, <1>2 DEF Numbered
  <2>2. ASSUME NEW j \in DOMAIN r, NEW k \in DOMAIN r, r[j].id = r[k].id PROVE j = k
    <3>1. PICK l \in DOMAIN draft : (j < i => l = j) /\ (j >= i => l = j + 1) /\ r[j] = draft[l]
      BY <1>2
    <3>2. PICK m \in DOMAIN draft : (k < i => m = k) /\ (k >= i => m = k + 1) /\ r[k] = draft[m]
      BY <1>2
    <3>3. l = m
      BY <1>0, <2>2, <3>1, <3>2 DEF Numbered
    <3>4. i \in Nat /\ j \in Nat /\ k \in Nat
      BY <1>1, <1>2, <2>2
    <3>. QED
      BY <3>1, <3>2, <3>3, <3>4
  <2>. QED
    BY <1>0, <1>3, <2>1, <2>2 DEF Numbered
<1>6. Sending'
  BY <1>0, <1>3, SendingKept DEF FormTyped
<1>7. Explained'
  BY <1>0, <1>2, <1>3 DEF Explained, WasSent
<1>. QED
  BY <1>4, <1>5, <1>6, <1>7 DEF FormInv

(* Leaving a field, and a submission the form itself refuses.              *)
LEMMA ErrorsReplaced ==
    ASSUME FormInv, errors' = Form!RowErrors(draft),
           UNCHANGED <<draft, nextId, pending, lastSent, done, posts, sends>>
    PROVE  FormInv'
<1>0. FormTyped /\ Numbered /\ Sending /\ Explained
  BY DEF FormInv
<1>1. ASSUME NEW e \in errors'
      PROVE  /\ e \in FormErrors /\ e.id < nextId
             /\ \A i \in DOMAIN draft : e.id = draft[i].id => e.about = draft[i].value
  BY <1>0, <1>1, FoundInRows
<1>2. FormTyped'
  BY <1>0, <1>1 DEF FormTyped
<1>3. Numbered'
  BY <1>0, <1>1 DEF Numbered
<1>4. Sending'
  BY <1>0, SendingKept DEF FormTyped
<1>5. Explained'
  BY <1>1 DEF Explained
<1>. QED
  BY <1>2, <1>3, <1>4, <1>5 DEF FormInv

LEMMA RowsSent ==
    ASSUME FormInv, Form!Submit
    PROVE  FormInv'
<1>0. FormTyped /\ Numbered /\ Sending /\ Explained
  BY DEF FormInv
<1>1. CASE Form!RowErrors(draft) # {}
  <2>1. errors' = Form!RowErrors(draft) /\ UNCHANGED <<draft, nextId, pending, lastSent, done, posts, sends>>
    BY <1>1 DEF Form!Submit
  <2>. QED
    BY <2>1, ErrorsReplaced
<1>2. CASE Form!RowErrors(draft) = {}
  <2>1. PICK v : v = ValuesOf(draft)
    OBVIOUS
  <2>2. PICK q : q = [nth |-> sends + 1, values |-> v, state |-> "waiting", at |-> 0]
    OBVIOUS
  <2>3. /\ draft' = draft /\ nextId' = nextId /\ errors' = {} /\ done' = done /\ ~done
        /\ pending' = sends + 1 /\ sends' = sends + 1 /\ lastSent' = draft
        /\ posts' = posts \cup {q}
    BY <1>2, <2>1, <2>2 DEF Form!Submit, ValuesOf
  <2>4. draft \in Seq(FormRows) /\ sends \in Nat /\ posts \subseteq FormPosts /\ nextId \in Nat
    BY <1>0 DEF FormTyped
  <2>5. v \in Seq(Held)
    <3>1. PICK n \in Nat : n = Len(draft) /\ DOMAIN draft = 1 .. n
      BY <2>4
    <3>2. \A k \in 1 .. n : draft[k].value \in Held
      BY <1>0, <3>1, DraftTyped
    <3>3. v = [k \in 1 .. n |-> draft[k].value]
      BY <2>1, <3>1 DEF ValuesOf
    <3>. QED
      BY <3>2, <3>3
  <2>6. q \in FormPosts /\ q.nth = sends + 1 /\ q.values = v /\ q.at = 0
    BY <2>2, <2>4, <2>5 DEF FormPosts
  <2>7. FormTyped'
    BY <2>3, <2>4, <2>6 DEF FormTyped
  <2>8. Numbered'
    BY <1>0, <2>3 DEF Numbered
  <2>9. Sending'
    <3>1. ASSUME NEW p \in posts' PROVE p = q \/ (p \in posts /\ p.nth \in Nat /\ p.nth =< sends)
      <4>1. p \in posts \cup {q}
        BY <2>3, <3>1
      <4>2. CASE p \in posts
        <5>1. p \in FormPosts
          BY <2>4, <4>2
        <5>2. p.nth \in Nat /\ p.nth =< sends
          BY <1>0, <4>2, <5>1 DEF Sending, FormPosts
        <5>. QED
          BY <4>2, <5>2
      <4>3. CASE p = q
        BY <4>3
      <4>. QED
        BY <4>1, <4>2, <4>3
    <3>2. ASSUME NEW p \in posts' PROVE p.nth =< sends'
      BY <2>3, <2>4, <2>6, <3>1
    <3>3. ASSUME NEW p \in posts', p.nth = pending'
          PROVE  p.values = ValuesOf(lastSent)' /\ p.at = 0
      <4>1. p = q
        BY <2>3, <2>4, <3>1, <3>3
      <4>. QED
        BY <2>1, <2>3, <2>6, <4>1 DEF ValuesOf
    <3>4. \A k \in DOMAIN lastSent' : lastSent'[k].id < nextId'
      BY <1>0, <2>3 DEF Numbered
    <3>. QED
      BY <2>3, <3>2, <3>3, <3>4 DEF Sending
  <2>10. Explained'
    BY <2>3 DEF Explained
  <2>. QED
    BY <2>7, <2>8, <2>9, <2>10 DEF FormInv
<1>. QED
  BY <1>1, <1>2

(* The server decides about a submission; the form has not heard yet.      *)
LEMMA RowsArrive ==
    ASSUME Form!ConstantsOK, FormInv, NEW p \in posts, Form!Arrives(p)
    PROVE  FormInv'
<1>0. FormTyped /\ Numbered /\ Sending /\ Explained
  BY DEF FormInv
<1>1. /\ draft' = draft /\ nextId' = nextId /\ errors' = errors /\ pending' = pending /\ lastSent' = lastSent
      /\ done' = done /\ sends' = sends
  BY DEF Form!Arrives
<1>2. p \in FormPosts /\ p.nth \in Nat /\ p.values \in Seq(Held)
  BY <1>0 DEF FormTyped, FormPosts
<1>3. \E state \in {"stored", "refused"}, at \in DOMAIN p.values \cup {0} : Form!Becomes(p, state, at)
  BY DEF Form!Arrives
<1>4. PICK state \in {"stored", "refused"}, at \in DOMAIN p.values \cup {0} : Form!Becomes(p, state, at)
  BY <1>3
<1>5. at \in Nat
  BY <1>2, <1>4
<1>6. PICK q : q = [p EXCEPT !.state = state, !.at = at]
  OBVIOUS
<1>7. q \in FormPosts /\ q.nth = p.nth /\ q.values = p.values /\ q.at = at
  BY <1>2, <1>4, <1>5, <1>6 DEF FormPosts
<1>8. posts' = (posts \ {p}) \cup {q}
  BY <1>4, <1>6 DEF Form!Becomes
<1>9. FormTyped'
  BY <1>0, <1>1, <1>7, <1>8 DEF FormTyped
<1>10. Numbered' /\ Explained'
  BY <1>0, <1>1 DEF Numbered, Explained, WasSent
<1>11. Sending'
  <2>1. ASSUME NEW r \in posts' PROVE r.nth =< sends
    BY <1>0, <1>7, <1>8 DEF Sending
  <2>2. ASSUME pending # None
        PROVE  /\ ~done /\ pending = sends
               /\ \A i \in DOMAIN lastSent : lastSent[i].id < nextId
               /\ \A r \in posts : r.nth = pending =>
                     r.values = ValuesOf(lastSent) /\ r.at \in DOMAIN lastSent \cup {0}
    BY <1>0, <2>2 DEF Sending
  <2>3. ASSUME pending # None, q.nth = pending
        PROVE  q.values = ValuesOf(lastSent) /\ q.at \in DOMAIN lastSent \cup {0}
    <3>1. p.values = ValuesOf(lastSent)
      BY <1>7, <2>2, <2>3
    <3>2. DOMAIN p.values = DOMAIN lastSent
      BY <3>1 DEF ValuesOf
    <3>. QED
      BY <1>4, <1>7, <3>1, <3>2
  <2>4. ASSUME pending # None, NEW r \in posts', r.nth = pending
        PROVE  r.values = ValuesOf(lastSent) /\ r.at \in DOMAIN lastSent \cup {0}
    BY <1>8, <2>2, <2>3, <2>4
  <2>. QED
    BY <1>1, <2>1, <2>2, <2>4 DEF Sending, ValuesOf
<1>. QED
  BY <1>9, <1>10, <1>11 DEF FormInv

(* What the form hears of the submission it awaits, or that it broke off.  *)
LEMMA RowsHeard ==
    ASSUME Form!ConstantsOK, FormInv, NEW p \in posts,
           Form!Acknowledged(p) \/ Form!Refused(p) \/ Form!Unheard(p)
    PROVE  FormInv'
<1>0. FormTyped /\ Numbered /\ Sending /\ Explained
  BY DEF FormInv
<1>1. /\ draft' = draft /\ nextId' = nextId /\ pending' = None /\ lastSent' = lastSent /\ sends' = sends
      /\ posts' \subseteq posts /\ p.nth = pending
  BY DEF Form!Acknowledged, Form!Refused, Form!Unheard, Form!Decided
<1>2. p.nth \in Nat /\ pending # None
  <2>1. p \in FormPosts
    BY <1>0 DEF FormTyped
  <2>2. p.nth \in Nat
    BY <2>1 DEF FormPosts
  <2>. QED
    BY <1>1, <2>2 DEF Form!ConstantsOK
<1>3. /\ \A i \in DOMAIN lastSent : lastSent[i].id < nextId
      /\ p.values = ValuesOf(lastSent) /\ p.at \in DOMAIN lastSent \cup {0}
  BY <1>0, <1>1, <1>2 DEF Sending
<1>4. ASSUME NEW e \in errors'
      PROVE  /\ e \in FormErrors /\ e.id < nextId
             /\ e \in errors \/ WasSent(e)
  <2>1. CASE Form!Acknowledged(p)
    BY <1>0, <1>4, <2>1 DEF Form!Acknowledged, Numbered, FormTyped
  <2>2. CASE Form!Unheard(p)
    BY <1>4, <2>2 DEF Form!Unheard
  <2>3. CASE Form!Refused(p)
    <3>1. p.at # 0 /\ e = [id |-> lastSent[p.at].id, about |-> p.values[p.at]]
      BY <1>4, <2>3 DEF Form!Refused, Form!SentRow
    <3>2. PICK k \in DOMAIN lastSent : k = p.at
      BY <1>3, <3>1
    <3>3. p.values[k] = lastSent[k].value
      BY <1>3, <3>2 DEF ValuesOf
    <3>4. lastSent[k].id \in Nat /\ lastSent[k].value \in Held /\ lastSent[k].id < nextId
      BY <1>0, <1>3, SentRowTyped
    <3>5. e = [id |-> lastSent[k].id, about |-> lastSent[k].value]
      BY <3>1, <3>2, <3>3
    <3>. QED
      BY <3>4, <3>5 DEF FormErrors, WasSent
  <2>. QED
    BY <2>1, <2>2, <2>3
<1>5. FormTyped'
  BY <1>0, <1>1, <1>4 DEF FormTyped
<1>6. Numbered'
  BY <1>0, <1>1, <1>4 DEF Numbered
<1>7. Sending'
  BY <1>0, <1>1 DEF Sending
<1>8. Explained'
  BY <1>0, <1>1, <1>4 DEF Explained, WasSent
<1>. QED
  BY <1>5, <1>6, <1>7, <1>8 DEF FormInv

LEMMA FormStartsAnew ==
    ASSUME FormInv, Form!SubmitAnother
    PROVE  FormInv'
<1>0. FormTyped /\ Sending
  BY DEF FormInv
<1>. DEFINE x == [id |-> 1, value |-> ""]
<1>1. x \in FormRows /\ x.id = 1
  BY DEF FormRows, Held
<1>. HIDE DEF x
<1>2. /\ draft' = <<x>> /\ nextId' = 2 /\ errors' = {} /\ done /\ pending' = pending /\ lastSent' = lastSent
      /\ posts' = posts /\ sends' = sends
  BY DEF Form!SubmitAnother, Form!Empty, x
<1>3. draft' \in Seq(FormRows) /\ DOMAIN draft' = {1} /\ draft'[1] = x
  BY <1>1, <1>2
<1>4. FormTyped'
  BY <1>0, <1>2, <1>3 DEF FormTyped
<1>5. Numbered'
  BY <1>1, <1>2, <1>3 DEF Numbered
<1>6. Sending' /\ Explained'
  BY <1>0, <1>2 DEF Sending, Explained
<1>. QED
  BY <1>4, <1>5, <1>6 DEF FormInv

LEMMA FormStep ==
    ASSUME Form!ConstantsOK, FormInv, [Form!Next]_(Form!formVars)
    PROVE  FormInv'
<1>1. ASSUME NEW i \in DOMAIN draft, Form!RemoveRow(i) PROVE FormInv'
  BY <1>1, RowGoes
<1>2. ASSUME NEW i \in DOMAIN draft, NEW v \in Values, Form!ChangeRow(i, v) PROVE FormInv'
  BY <1>2, RowChanges
<1>3. CASE Form!AddRow
  BY <1>3, RowJoins
<1>4. CASE Form!Blur
  <2>1. errors' = Form!RowErrors(draft) /\ UNCHANGED <<draft, nextId, pending, lastSent, done, posts, sends>>
    BY <1>4 DEF Form!Blur
  <2>. QED
    BY <2>1, ErrorsReplaced
<1>5. CASE Form!Submit
  BY <1>5, RowsSent
<1>6. CASE Form!SubmitAnother
  BY <1>6, FormStartsAnew
<1>7. ASSUME NEW p \in posts, Form!Arrives(p) PROVE FormInv'
  BY <1>7, RowsArrive
<1>8. ASSUME NEW p \in posts, Form!Acknowledged(p) \/ Form!Refused(p) \/ Form!Unheard(p) PROVE FormInv'
  BY <1>8, RowsHeard
<1>9. CASE UNCHANGED Form!formVars
  BY <1>9 DEF Form!formVars, FormInv, FormTyped, Numbered, Sending, Explained, WasSent, ValuesOf
<1>. QED
  BY <1>1, <1>2, <1>3, <1>4, <1>5, <1>6, <1>7, <1>8, <1>9 DEF Form!Next

LEMMA ErrorsExplained ==
    ASSUME FormInv
    PROVE  ErrorsOnTheirRows
<1>0. Numbered /\ Explained
  BY DEF FormInv
<1>1. Form!IsInjective([i \in DOMAIN draft |-> draft[i].id])
  BY <1>0 DEF Numbered, Form!IsInjective
<1>2. ASSUME NEW e \in errors, NEW i \in DOMAIN draft, e.id = draft[i].id
      PROVE  e.about = draft[i].value \/ [id |-> e.id, value |-> e.about] \in Form!Range(lastSent)
  <2>1. CASE e.about = draft[i].value
    BY <2>1
  <2>2. CASE WasSent(e)
    <3>1. PICK k \in DOMAIN lastSent : lastSent[k].id = e.id /\ lastSent[k].value = e.about
      BY <2>2 DEF WasSent
    <3>2. lastSent \in Seq(FormRows)
      BY DEF FormInv, FormTyped
    <3>3. lastSent[k] \in FormRows
      BY <3>1, <3>2
    <3>4. lastSent[k] = [id |-> e.id, value |-> e.about]
      BY <3>1, <3>3 DEF FormRows
    <3>. QED
      BY <3>1, <3>4 DEF Form!Range
  <2>. QED
    BY <1>0, <1>2, <2>1, <2>2 DEF Explained
<1>. QED
  BY <1>1, <1>2 DEF ErrorsOnTheirRows, Form!ErrorsOnTheirRows

LEMMA FormInvariant == ASSUME Form!ConstantsOK PROVE Form!Spec => []FormInv
<1>1. Form!Init => FormInv
  BY FormStarts
<1>2. FormInv /\ [Form!Next]_(Form!formVars) => FormInv'
  BY FormStep
<1>. QED
  BY <1>1, <1>2, PTL DEF Form!Spec

(* For any rows and edits: a position in an answer is looked up in the rows *)
(* that were sent, and an id is never given twice while one is awaited.    *)
THEOREM ErrorsStayWithRows ==
    ASSUME Form!ConstantsOK
    PROVE  Form!Spec => []ErrorsOnTheirRows
<1>1. FormInv => ErrorsOnTheirRows
  BY ErrorsExplained
<1>. QED
  BY <1>1, FormInvariant, PTL

LEMMA OneRow == Len(Form!Empty) = 1
<1>1. ASSUME NEW x PROVE Len(<<x>>) = 1
  OBVIOUS
<1>. QED
  BY <1>1 DEF Form!Empty

(* The form keeps a row at least, and within its limits.                   *)
Limits ==
    /\ Len(draft) \in 1 .. MaxRows
    /\ pending \in 1 .. MaxSends \cup {None}
    /\ done => pending = None

LEMMA LimitsStep ==
    ASSUME Form!ConstantsOK, FormTyped, Limits, [Form!Next]_(Form!formVars)
    PROVE  Limits'
<1>0. draft \in Seq(FormRows) /\ sends \in Nat /\ MaxRows \in Nat /\ MaxSends \in Nat
  BY DEF FormTyped, Form!ConstantsOK
<1>1. ASSUME NEW i \in DOMAIN draft, Form!RemoveRow(i) PROVE Limits'
  <2>1. Len(draft') = Len(draft) - 1 /\ Len(draft) > 1
    BY <1>0, <1>1, OneFewer DEF Form!RemoveRow
  <2>2. pending' = pending /\ done' = done
    BY <1>1 DEF Form!RemoveRow, Form!Editing
  <2>. QED
    BY <1>0, <2>1, <2>2 DEF Limits
<1>2. ASSUME NEW i \in DOMAIN draft, NEW v \in Values, Form!ChangeRow(i, v) PROVE Limits'
  <2>1. Len(draft') = Len(draft)
    BY <1>0, <1>2 DEF Form!ChangeRow
  <2>2. pending' = pending /\ done' = done
    BY <1>2 DEF Form!ChangeRow, Form!Editing
  <2>. QED
    BY <1>0, <2>1, <2>2 DEF Limits
<1>3. CASE Form!AddRow
  <2>1. Len(draft') = Len(draft) + 1 /\ Len(draft) < MaxRows
    <3>1. PICK x : x = [id |-> nextId, value |-> ""]
      OBVIOUS
    <3>2. draft' = Append(draft, x) /\ Len(draft) < MaxRows
      BY <1>3, <3>1 DEF Form!AddRow
    <3>. QED
      BY <1>0, <3>2
  <2>2. pending' = pending /\ done' = done
    BY <1>3 DEF Form!AddRow, Form!Editing
  <2>. QED
    BY <1>0, <2>1, <2>2 DEF Limits
<1>4. CASE Form!Blur
  BY <1>4 DEF Form!Blur, Limits
<1>5. CASE Form!Submit
  <2>1. draft' = draft /\ done' = done /\ ~done /\ (pending' = pending \/ (pending' = sends + 1 /\ sends < MaxSends))
    BY <1>5 DEF Form!Submit
  <2>. QED
    BY <1>0, <2>1 DEF Limits
<1>6. CASE Form!SubmitAnother
  <2>1. Len(draft') = 1 /\ pending' = pending /\ done' = FALSE
    BY <1>6, OneRow DEF Form!SubmitAnother
  <2>. QED
    BY <2>1 DEF Limits, Form!ConstantsOK
<1>7. ASSUME NEW p \in posts, Form!Arrives(p) PROVE Limits'
  BY <1>7 DEF Form!Arrives, Limits
<1>8. ASSUME NEW p \in posts, Form!Acknowledged(p) \/ Form!Refused(p) \/ Form!Unheard(p) PROVE Limits'
  BY <1>8 DEF Form!Acknowledged, Form!Refused, Form!Unheard, Form!Decided, Limits
<1>9. CASE UNCHANGED Form!formVars
  BY <1>9 DEF Form!formVars, Limits
<1>. QED
  BY <1>1, <1>2, <1>3, <1>4, <1>5, <1>6, <1>7, <1>8, <1>9 DEF Form!Next

LEMMA FormTypes == ASSUME Form!ConstantsOK PROVE Form!Spec => []Form!TypeOK
<1>1. Form!Init => Limits
  <2>. SUFFICES ASSUME Form!Init PROVE Limits
    OBVIOUS
  <2>1. Len(draft) = 1 /\ pending = None
    BY OneRow DEF Form!Init
  <2>. QED
    BY <2>1 DEF Form!ConstantsOK, Limits
<1>2. FormInv /\ Limits /\ [Form!Next]_(Form!formVars) => Limits'
  BY LimitsStep DEF FormInv
<1>3. FormInv /\ Limits => Form!TypeOK
  <2>. SUFFICES ASSUME FormInv, Limits PROVE Form!TypeOK
    OBVIOUS
  <2>1. \A i \in DOMAIN draft : draft[i].id < nextId /\ draft[i].value \in Values \cup {""}
    BY DraftTyped DEF FormInv, Numbered, Held
  <2>. QED
    BY <2>1 DEF Limits, Form!TypeOK
<1>. QED
  BY <1>1, <1>2, <1>3, FormInvariant, PTL DEF Form!Spec

(***************************************************************************)
(* The panel that submits a spreadsheet.                                   *)
(***************************************************************************)
SheetRows == Ready \cup Possible

Submissions == [id : Nat \X {0}, run : Nat, file : Files, rows : SUBSET SheetRows, vouched : SUBSET SheetRows,
                server : {"waiting", "stored", "refused"}, heard : BOOLEAN]

BulkTyped ==
    /\ commits \in Seq(Submissions) /\ reference \in Nat
    /\ file \in Files \cup {None} /\ picked \subseteq SheetRows /\ vouched \subseteq SheetRows
    /\ parses \subseteq [file : Files, live : BOOLEAN]
    /\ asked \in [file : Files, again : BOOLEAN] \cup {None}
    /\ batches \subseteq [id : Nat \X {0}, run : Nat, file : Files, rows : SUBSET SheetRows]
    /\ dropped \subseteq BOOLEAN /\ problem \in BOOLEAN /\ upset \in BOOLEAN

(* A reference stands for what is sent between two resets, and the server  *)
(* has stored what it says it has.                                         *)
Referenced ==
    /\ \A i \in DOMAIN commits : commits[i].id = <<commits[i].run, 0>> /\ commits[i].run =< reference
    /\ \A b \in batches : b.id = <<b.run, 0>>
    /\ \A b, c \in batches : b.run = c.run => b = c
    /\ \A i \in DOMAIN commits : commits[i].server = "stored" =>
          \E b \in batches : b.id = commits[i].id /\ b.file = commits[i].file

(* Before the preview: one file at most is on its way.                     *)
Early ==
    /\ stage = "empty" => file = None
    /\ asked # None => stage = "parsing" /\ IF asked.again THEN asked.file = file ELSE file = None
    /\ \A p \in parses : p.live => stage = "parsing" /\ asked = None /\ file = None
    /\ \A p, q \in parses : p.live /\ q.live => p = q

(* After it: while an answer is awaited the panel stays as it is, and the  *)
(* file is that of every attempt since the last reset.                     *)
Late ==
    /\ stage = "committing" => ~problem
    /\ \A i \in DOMAIN commits : ~commits[i].heard => stage = "committing" /\ commits[i].run = reference
    /\ \A i, j \in DOMAIN commits : ~commits[i].heard /\ ~commits[j].heard => i = j
    /\ \A i \in DOMAIN commits : commits[i].run = reference => file # None /\ commits[i].file = file

OnDisplay == stage = "result" => \E b \in batches : b.id = result /\ b.run = reference /\ b.file = file

(* A cancelled parse or preview or a late template may spoil this, and     *)
(* says so.                                                                *)
Undisturbed == ~upset => Early /\ Late /\ OnDisplay

BulkInv == BulkTyped /\ Referenced /\ Undisturbed

LEMMA CommitTyped ==
    ASSUME BulkTyped, NEW i \in DOMAIN commits
    PROVE  commits[i] \in Submissions
<1>1. commits \in Seq(Submissions)
  BY DEF BulkTyped
<1>. QED
  BY <1>1

LEMMA AbortTyped ==
    ASSUME BulkTyped, Bulk!Abort
    PROVE  dropped' \subseteq BOOLEAN
<1>1. asked = None \/ asked.again \in BOOLEAN
  BY DEF BulkTyped
<1>. QED
  BY <1>1 DEF BulkTyped, Bulk!Abort

(* What stays as it is while nothing is sent, stored or heard.             *)
LEMMA ReferencedKept ==
    ASSUME BulkTyped, Referenced, UNCHANGED <<commits, batches>>, reference' \in Nat, reference =< reference'
    PROVE  Referenced'
<1>1. ASSUME NEW i \in DOMAIN commits PROVE commits[i].run =< reference'
  <2>1. commits[i].run \in Nat /\ reference \in Nat
    BY CommitTyped DEF Submissions, BulkTyped
  <2>. QED
    BY <2>1 DEF Referenced
<1>. QED
  BY <1>1 DEF Referenced

LEMMA FileChosen ==
    ASSUME BulkInv, NEW f \in Files, Bulk!ChooseFile(f)
    PROVE  BulkInv'
<1>0. BulkTyped /\ Referenced /\ Undisturbed
  BY DEF BulkInv
<1>1. PICK n : n = [file |-> f, live |-> TRUE]
  OBVIOUS
<1>2. n \in [file : Files, live : BOOLEAN]
  BY <1>1
<1>3. ASSUME NEW p \in Bulk!Silenced PROVE p \in [file : Files, live : BOOLEAN] /\ ~p.live
  <2>1. PICK o \in parses : p = [o EXCEPT !.live = FALSE]
    BY <1>3 DEF Bulk!Silenced
  <2>2. o \in [file : Files, live : BOOLEAN]
    BY <1>0, <2>1 DEF BulkTyped
  <2>. QED
    BY <2>1, <2>2
<1>4. /\ stage = "empty" /\ parses' = Bulk!Silenced \cup {n} /\ asked' = None /\ problem' = FALSE /\ stage' = "parsing"
      /\ UNCHANGED <<file, picked, vouched, reference, commits, batches, upset>>
  BY <1>1 DEF Bulk!ChooseFile, Bulk!formVars, Bulk!commitVars
<1>5. BulkTyped'
  BY <1>0, <1>2, <1>3, <1>4, AbortTyped DEF BulkTyped, Bulk!ChooseFile
<1>6. Referenced'
  BY <1>0, <1>4, ReferencedKept DEF BulkTyped
<1>7. ASSUME ~upset' PROVE Early' /\ Late' /\ OnDisplay'
  <2>1. Early /\ Late
    BY <1>0, <1>4, <1>7 DEF Undisturbed
  <2>2. Early'
    BY <1>3, <1>4, <2>1 DEF Early
  <2>3. Late' /\ OnDisplay'
    BY <1>4, <2>1 DEF Late, OnDisplay
  <2>. QED
    BY <2>2, <2>3
<1>. QED
  BY <1>5, <1>6, <1>7 DEF BulkInv, Undisturbed

LEMMA FileParsed ==
    ASSUME BulkInv, NEW p \in parses, Bulk!Parsed(p)
    PROVE  BulkInv'
<1>0. BulkTyped /\ Referenced /\ Undisturbed
  BY DEF BulkInv
<1>1. p \in [file : Files, live : BOOLEAN]
  BY <1>0 DEF BulkTyped
<1>2. PICK a : a = [file |-> p.file, again |-> FALSE]
  OBVIOUS
<1>3. a \in [file : Files, again : BOOLEAN] /\ ~a.again
  BY <1>1, <1>2
<1>4. /\ parses' = parses \ {p} /\ asked' = IF p.live THEN a ELSE asked
      /\ UNCHANGED <<stage, file, picked, vouched, problem, reference, commits, batches, result, upset>>
  BY <1>2 DEF Bulk!Parsed, Bulk!formVars, Bulk!commitVars
<1>5. BulkTyped'
  <2>1. dropped' \subseteq BOOLEAN
    BY <1>0, AbortTyped DEF BulkTyped, Bulk!Parsed
  <2>. QED
    BY <1>0, <1>3, <1>4, <2>1 DEF BulkTyped
<1>6. Referenced'
  BY <1>0, <1>4, ReferencedKept DEF BulkTyped
<1>7. ASSUME ~upset' PROVE Early' /\ Late' /\ OnDisplay'
  <2>1. Early /\ Late /\ OnDisplay
    BY <1>0, <1>4, <1>7 DEF Undisturbed
  <2>2. Early'
    <3>1. CASE p.live
      <4>1. stage = "parsing" /\ file = None /\ \A q \in parses' : ~q.live
        BY <1>4, <2>1, <3>1 DEF Early
      <4>. QED
        BY <1>3, <1>4, <3>1, <4>1 DEF Early
    <3>2. CASE ~p.live
      BY <1>4, <2>1, <3>2 DEF Early
    <3>. QED
      BY <3>1, <3>2
  <2>3. Late' /\ OnDisplay'
    BY <1>4, <2>1 DEF Late, OnDisplay
  <2>. QED
    BY <2>2, <2>3
<1>. QED
  BY <1>5, <1>6, <1>7 DEF BulkInv, Undisturbed

LEMMA FileUnreadable ==
    ASSUME BulkInv, NEW p \in parses, Bulk!ParseFails(p)
    PROVE  BulkInv'
<1>0. BulkTyped /\ Referenced /\ Undisturbed
  BY DEF BulkInv
<1>1. p \in [file : Files, live : BOOLEAN]
  BY <1>0 DEF BulkTyped
<1>2. /\ parses' = parses \ {p} /\ problem' = TRUE /\ stage' = "empty" /\ upset' = (upset \/ ~p.live)
      /\ UNCHANGED <<file, picked, vouched, asked, dropped, reference, commits, batches, result>>
  BY DEF Bulk!ParseFails, Bulk!formVars, Bulk!commitVars
<1>3. upset' \in BOOLEAN
  BY <1>2
<1>4. BulkTyped'
  BY <1>0, <1>2, <1>3 DEF BulkTyped
<1>5. Referenced'
  BY <1>0, <1>2, ReferencedKept DEF BulkTyped
<1>6. ASSUME ~upset' PROVE Early' /\ Late' /\ OnDisplay'
  <2>1. ~upset /\ p.live
    BY <1>2, <1>6
  <2>2. Early /\ Late /\ OnDisplay
    BY <1>0, <2>1 DEF Undisturbed
  <2>3. stage = "parsing" /\ asked = None /\ file = None /\ \A q \in parses' : ~q.live
    BY <1>2, <2>1, <2>2 DEF Early
  <2>4. Early'
    BY <1>2, <2>3 DEF Early
  <2>5. Late' /\ OnDisplay'
    BY <1>2, <2>2, <2>3 DEF Late, OnDisplay
  <2>. QED
    BY <2>4, <2>5
<1>. QED
  BY <1>4, <1>5, <1>6 DEF BulkInv, Undisturbed

LEMMA PreviewShown ==
    ASSUME BulkInv, Bulk!PreviewComes
    PROVE  BulkInv'
<1>0. BulkTyped /\ Referenced /\ Undisturbed
  BY DEF BulkInv
<1>1. /\ asked # None /\ asked' = None /\ file' = asked.file /\ picked' = Ready /\ vouched' = {} /\ stage' = "preview"
      /\ UNCHANGED <<problem, parses, dropped, reference, commits, batches, result, upset>>
  BY DEF Bulk!PreviewComes, Bulk!commitVars
<1>2. asked \in [file : Files, again : BOOLEAN]
  BY <1>0, <1>1 DEF BulkTyped
<1>3. BulkTyped'
  BY <1>0, <1>1, <1>2 DEF BulkTyped, SheetRows
<1>4. Referenced'
  BY <1>0, <1>1, ReferencedKept DEF BulkTyped
<1>5. ASSUME ~upset' PROVE Early' /\ Late' /\ OnDisplay'
  <2>1. Early /\ Late
    BY <1>0, <1>1, <1>5 DEF Undisturbed
  <2>2. stage = "parsing" /\ (IF asked.again THEN asked.file = file ELSE file = None)
        /\ \A p \in parses : ~p.live
    BY <1>1, <2>1 DEF Early
  <2>3. Early'
    BY <1>1, <2>2 DEF Early
  <2>4. \A i \in DOMAIN commits : commits[i].run = reference => file' # None /\ commits[i].file = file'
    BY <1>1, <2>1, <2>2 DEF Late
  <2>5. Late' /\ OnDisplay'
    BY <1>1, <2>1, <2>2, <2>4 DEF Late, OnDisplay
  <2>. QED
    BY <2>3, <2>5
<1>. QED
  BY <1>3, <1>4, <1>5 DEF BulkInv, Undisturbed

LEMMA PreviewMissed ==
    ASSUME BulkInv, Bulk!PreviewFails
    PROVE  BulkInv'
<1>0. BulkTyped /\ Referenced /\ Undisturbed
  BY DEF BulkInv
<1>1. /\ asked # None /\ asked' = None /\ problem' = TRUE
      /\ stage' = IF asked.again THEN "preview" ELSE "empty"
      /\ UNCHANGED <<file, picked, vouched, parses, dropped, reference, commits, batches, result, upset>>
  BY DEF Bulk!PreviewFails, Bulk!formVars, Bulk!commitVars
<1>2. BulkTyped'
  BY <1>0, <1>1 DEF BulkTyped
<1>3. Referenced'
  BY <1>0, <1>1, ReferencedKept DEF BulkTyped
<1>4. ASSUME ~upset' PROVE Early' /\ Late' /\ OnDisplay'
  <2>1. Early /\ Late
    BY <1>0, <1>1, <1>4 DEF Undisturbed
  <2>2. stage = "parsing" /\ (IF asked.again THEN asked.file = file ELSE file = None)
        /\ \A p \in parses : ~p.live
    BY <1>1, <2>1 DEF Early
  <2>3. stage' # "committing" /\ stage' # "result" /\ (stage' = "empty" => file = None)
    BY <1>1, <2>2
  <2>4. Early'
    BY <1>1, <2>2, <2>3 DEF Early
  <2>5. Late' /\ OnDisplay'
    BY <1>1, <2>1, <2>2, <2>3 DEF Late, OnDisplay
  <2>. QED
    BY <2>4, <2>5
<1>. QED
  BY <1>2, <1>3, <1>4 DEF BulkInv, Undisturbed

(* What this does to the panel is what "upset" is about.                   *)
LEMMA PreviewDisturbs ==
    ASSUME BulkInv, NEW again \in dropped, Bulk!DroppedFails(again)
    PROVE  BulkInv'
<1>0. BulkTyped /\ Referenced
  BY DEF BulkInv
<1>1. /\ dropped' = dropped \ {again} /\ problem' = TRUE /\ upset' = TRUE
      /\ UNCHANGED <<file, picked, vouched, parses, asked, reference, commits, batches>>
  BY DEF Bulk!DroppedFails, Bulk!formVars, Bulk!commitVars
<1>2. BulkTyped'
  BY <1>0, <1>1 DEF BulkTyped
<1>3. Referenced'
  BY <1>0, <1>1, ReferencedKept DEF BulkTyped
<1>. QED
  BY <1>1, <1>2, <1>3 DEF BulkInv, Undisturbed

LEMMA PreviewRetried ==
    ASSUME BulkInv, Bulk!RetryPreview
    PROVE  BulkInv'
<1>0. BulkTyped /\ Referenced /\ Undisturbed
  BY DEF BulkInv
<1>1. PICK a : a = [file |-> file, again |-> TRUE]
  OBVIOUS
<1>2. /\ problem /\ file # None /\ problem' = FALSE /\ stage' = "parsing" /\ asked' = a
      /\ UNCHANGED <<file, picked, vouched, parses, reference, commits, batches, result, upset>>
  BY <1>1 DEF Bulk!RetryPreview, Bulk!formVars, Bulk!commitVars
<1>3. a \in [file : Files, again : BOOLEAN] /\ a.again /\ a.file = file
  BY <1>0, <1>1, <1>2 DEF BulkTyped
<1>4. BulkTyped'
  BY <1>0, <1>2, <1>3, AbortTyped DEF BulkTyped, Bulk!RetryPreview
<1>5. Referenced'
  BY <1>0, <1>2, ReferencedKept DEF BulkTyped
<1>6. ASSUME ~upset' PROVE Early' /\ Late' /\ OnDisplay'
  <2>1. Early /\ Late
    BY <1>0, <1>2, <1>6 DEF Undisturbed
  <2>2. (\A p \in parses : ~p.live) /\ stage # "committing"
    BY <1>2, <2>1 DEF Early, Late
  <2>3. Early'
    BY <1>2, <1>3, <2>2 DEF Early
  <2>4. Late' /\ OnDisplay'
    BY <1>2, <2>1, <2>2 DEF Late, OnDisplay
  <2>. QED
    BY <2>3, <2>4
<1>. QED
  BY <1>4, <1>5, <1>6 DEF BulkInv, Undisturbed

LEMMA PanelReset ==
    ASSUME BulkInv, Bulk!Reset
    PROVE  BulkInv'
<1>0. BulkTyped /\ Referenced /\ Undisturbed
  BY DEF BulkInv
<1>1. ASSUME NEW p \in Bulk!Silenced PROVE p \in [file : Files, live : BOOLEAN] /\ ~p.live
  <2>1. PICK o \in parses : p = [o EXCEPT !.live = FALSE]
    BY <1>1 DEF Bulk!Silenced
  <2>2. o \in [file : Files, live : BOOLEAN]
    BY <1>0, <2>1 DEF BulkTyped
  <2>. QED
    BY <2>1, <2>2
<1>2. /\ stage \in {"parsing", "preview", "result"} /\ parses' = Bulk!Silenced /\ asked' = None
      /\ reference' = reference + 1 /\ file' = None /\ picked' = {} /\ vouched' = {}
      /\ problem' = FALSE /\ stage' = "empty"
      /\ UNCHANGED <<commits, batches, upset>>
  BY DEF Bulk!Reset
<1>3. reference \in Nat /\ reference' \in Nat /\ reference =< reference' /\ ~(reference' =< reference)
  BY <1>0, <1>2 DEF BulkTyped
<1>4. BulkTyped'
  BY <1>0, <1>1, <1>2, <1>3, AbortTyped DEF BulkTyped, Bulk!Reset
<1>5. Referenced'
  BY <1>0, <1>2, <1>3, ReferencedKept
<1>6. ASSUME ~upset' PROVE Early' /\ Late' /\ OnDisplay'
  <2>1. Early /\ Late
    BY <1>0, <1>2, <1>6 DEF Undisturbed
  <2>2. Early'
    BY <1>1, <1>2 DEF Early
  <2>3. \A i \in DOMAIN commits : commits[i].run # reference'
    BY <1>0, <1>3 DEF Referenced
  <2>4. Late' /\ OnDisplay'
    BY <1>2, <2>1, <2>3 DEF Late, OnDisplay
  <2>. QED
    BY <2>2, <2>4
<1>. QED
  BY <1>4, <1>5, <1>6 DEF BulkInv, Undisturbed

LEMMA TemplateBegun ==
    ASSUME BulkInv, Bulk!PrepareTemplate
    PROVE  BulkInv'
<1>0. BulkTyped /\ Referenced /\ Undisturbed
  BY DEF BulkInv
<1>1. /\ problem' = FALSE
      /\ UNCHANGED <<stage, file, picked, vouched, parses, asked, dropped, reference, commits, batches, result, upset>>
  BY DEF Bulk!PrepareTemplate, Bulk!formVars, Bulk!commitVars
<1>2. BulkTyped'
  BY <1>0, <1>1 DEF BulkTyped
<1>3. Referenced'
  BY <1>0, <1>1, ReferencedKept DEF BulkTyped
<1>4. Undisturbed'
  BY <1>0, <1>1 DEF Undisturbed, Early, Late, OnDisplay
<1>. QED
  BY <1>2, <1>3, <1>4 DEF BulkInv

LEMMA TemplateEnded ==
    ASSUME BulkInv, NEW fails \in BOOLEAN, Bulk!TemplateEnds(fails)
    PROVE  BulkInv'
<1>0. BulkTyped /\ Referenced /\ Undisturbed
  BY DEF BulkInv
<1>1. /\ problem' = (problem \/ fails) /\ upset' = (upset \/ (fails /\ stage # "empty"))
      /\ UNCHANGED <<stage, file, picked, vouched, parses, asked, dropped, reference, commits, batches, result>>
  BY DEF Bulk!TemplateEnds, Bulk!formVars, Bulk!commitVars
<1>2. problem' \in BOOLEAN /\ upset' \in BOOLEAN
  BY <1>1
<1>3. BulkTyped'
  BY <1>0, <1>1, <1>2 DEF BulkTyped
<1>4. Referenced'
  BY <1>0, <1>1, ReferencedKept DEF BulkTyped
<1>5. ASSUME ~upset' PROVE Early' /\ Late' /\ OnDisplay'
  <2>1. ~upset /\ ~(fails /\ stage # "empty")
    BY <1>1, <1>5
  <2>2. Early /\ Late /\ OnDisplay
    BY <1>0, <2>1 DEF Undisturbed
  <2>3. Early' /\ OnDisplay'
    BY <1>1, <2>2 DEF Early, OnDisplay
  <2>4. stage' = "committing" => ~problem'
    BY <1>1, <2>1, <2>2 DEF Late
  <2>5. Late'
    BY <1>1, <2>2, <2>4 DEF Late
  <2>. QED
    BY <2>3, <2>5
<1>. QED
  BY <1>3, <1>4, <1>5 DEF BulkInv, Undisturbed

(* The ways from the preview to the confirmation and back.                 *)
LEMMA PreviewUsed ==
    ASSUME BulkInv,
           \/ \E r \in SheetRows : Bulk!ToggleRow(r)
           \/ Bulk!Review \/ Bulk!Back \/ Bulk!Tick
    PROVE  BulkInv'
<1>0. BulkTyped /\ Referenced /\ Undisturbed
  BY DEF BulkInv
<1>1. /\ stage \in {"preview", "confirming"} /\ stage' \in {"preview", "confirming"}
      /\ UNCHANGED <<file, problem, parses, asked, dropped, reference, commits, batches, result, upset>>
  BY DEF Bulk!ToggleRow, Bulk!Review, Bulk!Back, Bulk!Tick, Bulk!formVars, Bulk!workVars, Bulk!commitVars
<1>2. picked' \subseteq SheetRows /\ vouched' \subseteq SheetRows
  <2>1. picked \subseteq SheetRows /\ vouched \subseteq SheetRows
    BY <1>0 DEF BulkTyped
  <2>2. ASSUME NEW r \in SheetRows, Bulk!ToggleRow(r) PROVE picked' \subseteq SheetRows /\ vouched' \subseteq SheetRows
    <3>1. picked' = Bulk!Other(picked, r) /\ vouched' \in {Bulk!Other(vouched, r), vouched}
      BY <2>2 DEF Bulk!ToggleRow
    <3>2. ASSUME NEW set, set \subseteq SheetRows PROVE Bulk!Other(set, r) \subseteq SheetRows
      BY <3>2 DEF Bulk!Other
    <3>. QED
      BY <2>1, <3>1, <3>2
  <2>. QED
    BY <2>1, <2>2 DEF Bulk!Review, Bulk!Back, Bulk!Tick, Bulk!formVars
<1>3. BulkTyped'
  BY <1>0, <1>1, <1>2 DEF BulkTyped
<1>4. Referenced'
  BY <1>0, <1>1, ReferencedKept DEF BulkTyped
<1>5. ASSUME ~upset' PROVE Early' /\ Late' /\ OnDisplay'
  <2>1. Early /\ Late
    BY <1>0, <1>1, <1>5 DEF Undisturbed
  <2>2. asked = None /\ \A p \in parses : ~p.live
    BY <1>1, <2>1 DEF Early
  <2>3. \A i \in DOMAIN commits : commits[i].heard
    BY <1>1, <2>1 DEF Late
  <2>4. Early'
    BY <1>1, <2>2 DEF Early
  <2>5. Late' /\ OnDisplay'
    BY <1>1, <2>1, <2>3 DEF Late, OnDisplay
  <2>. QED
    BY <2>4, <2>5
<1>. QED
  BY <1>3, <1>4, <1>5 DEF BulkInv, Undisturbed

LEMMA SheetSent ==
    ASSUME BulkInv, Bulk!Commit
    PROVE  BulkInv'
<1>0. BulkTyped /\ Referenced /\ Undisturbed
  BY DEF BulkInv
<1>. DEFINE new == [id |-> <<reference, 0>>, run |-> reference, file |-> file, rows |-> picked,
                    vouched |-> vouched \cap picked, server |-> "waiting", heard |-> FALSE]
<1>1. reference \in Nat /\ file \in Files /\ picked \subseteq SheetRows /\ commits \in Seq(Submissions)
  BY <1>0 DEF BulkTyped, Bulk!Commit
<1>2. /\ new \in Submissions /\ new.id = <<new.run, 0>> /\ new.run = reference /\ new.file = file
      /\ new.server = "waiting" /\ ~new.heard
  <2>1. <<reference, 0>> \in Nat \X {0} /\ picked \in SUBSET SheetRows /\ vouched \cap picked \in SUBSET SheetRows
    BY <1>1
  <2>. QED
    BY <1>1, <2>1 DEF Submissions
<1>. HIDE DEF new
<1>3. /\ stage = "confirming" /\ file # None /\ stage' = "committing" /\ problem' = FALSE
      /\ commits' = Append(commits, new)
      /\ UNCHANGED <<file, picked, vouched, parses, asked, dropped, reference, batches, result, upset>>
  BY DEF Bulk!Commit, Bulk!CommitId, Bulk!formVars, Bulk!workVars, new
<1>4. PICK n \in Nat : n = Len(commits) /\ DOMAIN commits = 1 .. n
  BY <1>1
<1>5. /\ commits' \in Seq(Submissions) /\ DOMAIN commits' = 1 .. (n + 1)
      /\ commits'[n + 1] = new /\ \A i \in 1 .. n : commits'[i] = commits[i]
  BY <1>1, <1>2, <1>3, <1>4
<1>6. ASSUME NEW i \in DOMAIN commits'
      PROVE  (i \in DOMAIN commits /\ commits'[i] = commits[i]) \/ (i = n + 1 /\ commits'[i] = new)
  <2>1. i \in 1 .. n \/ i = n + 1
    BY <1>5, <1>6
  <2>. QED
    BY <1>4, <1>5, <2>1
<1>7. BulkTyped'
  BY <1>0, <1>3, <1>5 DEF BulkTyped
<1>8. Referenced'
  <2>1. ASSUME NEW i \in DOMAIN commits'
        PROVE  /\ commits'[i].id = <<commits'[i].run, 0>> /\ commits'[i].run =< reference
               /\ commits'[i].server = "stored" =>
                     \E b \in batches : b.id = commits'[i].id /\ b.file = commits'[i].file
    <3>1. CASE i \in DOMAIN commits /\ commits'[i] = commits[i]
      BY <1>0, <3>1 DEF Referenced
    <3>2. CASE commits'[i] = new
      BY <1>1, <1>2, <3>2
    <3>. QED
      BY <1>6, <3>1, <3>2
  <2>. QED
    BY <1>0, <1>3, <2>1 DEF Referenced
<1>9. ASSUME ~upset' PROVE Early' /\ Late' /\ OnDisplay'
  <2>1. Early /\ Late
    BY <1>0, <1>3, <1>9 DEF Undisturbed
  <2>2. asked = None /\ \A p \in parses : ~p.live
    BY <1>3, <2>1 DEF Early
  <2>3. ASSUME NEW i \in DOMAIN commits, commits'[i] = commits[i]
        PROVE  commits'[i].heard /\ (commits'[i].run = reference => commits'[i].file = file)
    BY <1>3, <2>1, <2>3 DEF Late
  <2>4. Early'
    BY <1>3, <2>2 DEF Early
  <2>5. ASSUME NEW i \in DOMAIN commits'
        PROVE  /\ ~commits'[i].heard => i = n + 1 /\ commits'[i].run = reference
               /\ commits'[i].run = reference => commits'[i].file = file
    BY <1>2, <1>6, <2>3
  <2>6. Late' /\ OnDisplay'
    BY <1>3, <2>5 DEF Late, OnDisplay
  <2>. QED
    BY <2>4, <2>6
<1>. QED
  BY <1>7, <1>8, <1>9 DEF BulkInv, Undisturbed

(* The server decides about a submission.                                  *)
LEMMA ServerSays ==
    ASSUME BulkTyped, NEW i \in DOMAIN commits, NEW v \in {"stored", "refused"},
           commits' = [commits EXCEPT ![i].server = v]
    PROVE  /\ commits' \in Seq(Submissions) /\ DOMAIN commits' = DOMAIN commits
           /\ \A k \in DOMAIN commits :
                 /\ commits'[k].id = commits[k].id /\ commits'[k].run = commits[k].run
                 /\ commits'[k].file = commits[k].file /\ commits'[k].heard = commits[k].heard
                 /\ commits'[k].server = IF k = i THEN v ELSE commits[k].server
<1>1. commits \in Seq(Submissions) /\ commits[i] \in Submissions
  BY CommitTyped DEF BulkTyped
<1>2. PICK x : x = [commits[i] EXCEPT !.server = v]
  OBVIOUS
<1>3. /\ x \in Submissions /\ x.id = commits[i].id /\ x.run = commits[i].run /\ x.file = commits[i].file
      /\ x.heard = commits[i].heard /\ x.server = v
  BY <1>1, <1>2 DEF Submissions
<1>4. commits' = [commits EXCEPT ![i] = x]
  BY <1>2
<1>5. commits' \in Seq(Submissions) /\ DOMAIN commits' = DOMAIN commits
  BY <1>1, <1>3, <1>4
<1>6. ASSUME NEW k \in DOMAIN commits
      PROVE  (k = i /\ commits'[k] = x) \/ (k # i /\ commits'[k] = commits[k])
  BY <1>4
<1>. QED
  BY <1>3, <1>5, <1>6

(* The panel hears of a submission, or hears that it broke off.            *)
LEMMA AnswerHeard ==
    ASSUME BulkTyped, NEW i \in DOMAIN commits
    PROVE  \E x \in Submissions :
              /\ [commits EXCEPT ![i].heard = TRUE] = [commits EXCEPT ![i] = x] /\ x.heard
              /\ x.id = commits[i].id /\ x.run = commits[i].run /\ x.file = commits[i].file
              /\ x.server = commits[i].server
<1>1. commits[i] \in Submissions
  BY CommitTyped
<1>2. PICK x : x = [commits[i] EXCEPT !.heard = TRUE]
  OBVIOUS
<1>3. /\ x.id = commits[i].id /\ x.run = commits[i].run /\ x.file = commits[i].file
      /\ x.server = commits[i].server /\ x.heard
  BY <1>1, <1>2 DEF Submissions
<1>4. x \in Submissions
  BY <1>1, <1>2 DEF Submissions
<1>5. [commits EXCEPT ![i].heard = TRUE] = [commits EXCEPT ![i] = x]
  BY <1>2
<1>. QED
  BY <1>3, <1>4, <1>5

LEMMA ServerDecides ==
    ASSUME BulkInv, NEW i \in DOMAIN commits, Bulk!Store(i) \/ Bulk!Replay(i) \/ Bulk!Refuse(i)
    PROVE  BulkInv'
<1>0. BulkTyped /\ Referenced /\ Undisturbed
  BY DEF BulkInv
<1>. DEFINE b == [id |-> commits[i].id, run |-> commits[i].run, file |-> commits[i].file, rows |-> commits[i].rows]
<1>1. commits[i] \in Submissions
  BY <1>0, CommitTyped
<1>2. /\ b \in [id : Nat \X {0}, run : Nat, file : Files, rows : SUBSET SheetRows]
      /\ b.id = commits[i].id /\ b.run = commits[i].run /\ b.file = commits[i].file
  BY <1>1 DEF Submissions
<1>. HIDE DEF b
<1>3. UNCHANGED <<stage, file, picked, vouched, problem, parses, asked, dropped, reference, result, upset>>
  BY DEF Bulk!Store, Bulk!Replay, Bulk!Refuse, Bulk!formVars, Bulk!workVars
<1>4. \/ /\ commits' = [commits EXCEPT ![i].server = "stored"] /\ batches' = batches \cup {b}
         /\ \A c \in batches : c.id # commits[i].id
      \/ /\ commits' = [commits EXCEPT ![i].server = "stored"] /\ batches' = batches
         /\ \E c \in batches : c.id = commits[i].id /\ c.file = commits[i].file
      \/ commits' = [commits EXCEPT ![i].server = "refused"] /\ batches' = batches
  <2>1. CASE Bulk!Store(i)
    BY <2>1 DEF Bulk!Store, Bulk!Batch, Bulk!Known, b
  <2>2. CASE Bulk!Replay(i)
    BY <2>2 DEF Bulk!Replay, Bulk!Known
  <2>3. CASE Bulk!Refuse(i)
    BY <2>3 DEF Bulk!Refuse
  <2>. QED
    BY <2>1, <2>2, <2>3
<1>5. PICK v \in {"stored", "refused"} :
         /\ commits' = [commits EXCEPT ![i].server = v]
         /\ batches \subseteq batches' /\ batches' \subseteq batches \cup {b}
         /\ \/ batches' = batches
            \/ \A c \in batches : c.id # commits[i].id
         /\ v = "stored" => \E c \in batches' : c.id = commits[i].id /\ c.file = commits[i].file
  BY <1>2, <1>4
<1>6. /\ commits' \in Seq(Submissions) /\ DOMAIN commits' = DOMAIN commits
      /\ \A k \in DOMAIN commits :
            /\ commits'[k].id = commits[k].id /\ commits'[k].run = commits[k].run
            /\ commits'[k].file = commits[k].file /\ commits'[k].heard = commits[k].heard
            /\ commits'[k].server = IF k = i THEN v ELSE commits[k].server
  BY <1>0, <1>5, ServerSays
<1>7. BulkTyped'
  BY <1>0, <1>2, <1>3, <1>5, <1>6 DEF BulkTyped
<1>8. Referenced'
  <2>1. \A k \in DOMAIN commits' : commits'[k].id = <<commits'[k].run, 0>> /\ commits'[k].run =< reference'
    BY <1>0, <1>3, <1>6 DEF Referenced
  <2>2. \A c \in batches' : c.id = <<c.run, 0>>
    BY <1>0, <1>2, <1>5 DEF Referenced
  <2>3. ASSUME NEW c \in batches', NEW d \in batches', c.run = d.run PROVE c = d
    <3>1. CASE batches' = batches
      BY <1>0, <2>3, <3>1 DEF Referenced
    <3>2. CASE \A a \in batches : a.id # commits[i].id
      <4>1. \A a \in batches : a.id # b.id
        BY <1>2, <3>2
      <4>2. c.id = d.id
        BY <2>2, <2>3
      <4>3. (c \in batches \/ c = b) /\ (d \in batches \/ d = b)
        BY <1>5, <2>3
      <4>4. CASE c \in batches /\ d \in batches
        BY <1>0, <2>3, <4>4 DEF Referenced
      <4>. QED
        BY <4>1, <4>2, <4>3, <4>4
    <3>. QED
      BY <1>5, <3>1, <3>2
  <2>4. ASSUME NEW k \in DOMAIN commits', commits'[k].server = "stored"
        PROVE  \E c \in batches' : c.id = commits'[k].id /\ c.file = commits'[k].file
    <3>1. CASE k = i
      BY <1>5, <1>6, <2>4, <3>1
    <3>2. CASE k # i
      <4>1. \E c \in batches : c.id = commits[k].id /\ c.file = commits[k].file
        BY <1>0, <1>6, <2>4, <3>2 DEF Referenced
      <4>. QED
        BY <1>5, <1>6, <2>4, <4>1
    <3>. QED
      BY <3>1, <3>2
  <2>. QED
    BY <2>1, <2>2, <2>3, <2>4 DEF Referenced
<1>9. ASSUME ~upset' PROVE Early' /\ Late' /\ OnDisplay'
  <2>1. Early /\ Late /\ OnDisplay
    BY <1>0, <1>3, <1>9 DEF Undisturbed
  <2>2. Early'
    BY <1>3, <2>1 DEF Early
  <2>3. Late'
    BY <1>3, <1>6, <2>1 DEF Late
  <2>4. OnDisplay'
    BY <1>3, <1>5, <2>1 DEF OnDisplay
  <2>. QED
    BY <2>2, <2>3, <2>4
<1>. QED
  BY <1>7, <1>8, <1>9 DEF BulkInv, Undisturbed

LEMMA PanelHears ==
    ASSUME BulkInv, NEW i \in DOMAIN commits, Bulk!ShowResult(i) \/ Bulk!CommitFails(i)
    PROVE  BulkInv'
<1>0. BulkTyped /\ Referenced /\ Undisturbed
  BY DEF BulkInv
<1>1. /\ ~commits[i].heard
      /\ UNCHANGED <<file, picked, vouched, parses, asked, dropped, reference, batches, upset>>
      /\ \/ /\ commits[i].server = "stored" /\ result' = commits[i].id /\ stage' = "result"
            /\ problem' = problem
         \/ stage' = "confirming" /\ problem' = TRUE
  BY DEF Bulk!ShowResult, Bulk!CommitFails, Bulk!formVars, Bulk!workVars
<1>2. PICK x \in Submissions :
         /\ [commits EXCEPT ![i].heard = TRUE] = [commits EXCEPT ![i] = x] /\ x.heard
         /\ x.id = commits[i].id /\ x.run = commits[i].run /\ x.file = commits[i].file
         /\ x.server = commits[i].server
  BY <1>0, AnswerHeard
<1>3. /\ commits' \in Seq(Submissions) /\ DOMAIN commits' = DOMAIN commits
      /\ commits'[i].heard
      /\ \A k \in DOMAIN commits :
            /\ commits'[k].id = commits[k].id /\ commits'[k].run = commits[k].run
            /\ commits'[k].file = commits[k].file /\ commits'[k].server = commits[k].server
            /\ k # i => commits'[k].heard = commits[k].heard
  <2>1. commits' = [commits EXCEPT ![i].heard = TRUE]
    BY DEF Bulk!ShowResult, Bulk!CommitFails
  <2>2. commits' = [commits EXCEPT ![i] = x]
    BY <1>2, <2>1, Zenon
  <2>3. commits \in Seq(Submissions)
    BY <1>0 DEF BulkTyped
  <2>4. commits' \in Seq(Submissions) /\ DOMAIN commits' = DOMAIN commits
    BY <2>2, <2>3
  <2>5. ASSUME NEW k \in DOMAIN commits
        PROVE  (k = i /\ commits'[k] = x) \/ (k # i /\ commits'[k] = commits[k])
    BY <2>2
  <2>. QED
    BY <1>2, <2>4, <2>5
<1>4. BulkTyped'
  <2>1. problem' \in BOOLEAN
    BY <1>0, <1>1 DEF BulkTyped
  <2>. QED
    BY <1>0, <1>1, <1>3, <2>1 DEF BulkTyped
<1>5. Referenced'
  BY <1>0, <1>1, <1>3 DEF Referenced
<1>6. ASSUME ~upset' PROVE Early' /\ Late' /\ OnDisplay'
  <2>1. Early /\ Late
    BY <1>0, <1>1, <1>6 DEF Undisturbed
  <2>2. stage = "committing" /\ commits[i].run = reference /\ commits[i].file = file
    BY <1>1, <2>1 DEF Late
  <2>3. asked = None /\ \A p \in parses : ~p.live
    BY <2>1, <2>2 DEF Early
  <2>4. Early'
    BY <1>1, <2>3 DEF Early
  <2>5. \A k \in DOMAIN commits : k # i => commits[k].heard
    BY <1>1, <2>1 DEF Late
  <2>6. \A k \in DOMAIN commits' : commits'[k].heard
    BY <1>3, <2>5
  <2>7. Late'
    <3>1. stage' # "committing"
      BY <1>1
    <3>2. \A k \in DOMAIN commits' : commits'[k].run = reference => file # None /\ commits'[k].file = file
      BY <1>3, <2>1 DEF Late
    <3>. QED
      BY <1>1, <2>6, <3>1, <3>2 DEF Late
  <2>8. ASSUME stage' = "result" PROVE \E b \in batches : b.id = result' /\ b.run = reference /\ b.file = file
    <3>1. commits[i].server = "stored" /\ result' = commits[i].id
      BY <1>1, <2>8
    <3>2. PICK b \in batches : b.id = commits[i].id /\ b.file = commits[i].file
      BY <1>0, <3>1 DEF Referenced
    <3>3. b.id = <<b.run, 0>> /\ commits[i].id = <<commits[i].run, 0>>
      BY <1>0, <3>2 DEF Referenced
    <3>4. PICK m, n : m = b.run /\ n = commits[i].run
      OBVIOUS
    <3>5. <<m, 0>> = <<n, 0>>
      BY <3>2, <3>3, <3>4
    <3>6. m = n
      BY <3>5
    <3>. QED
      BY <2>2, <3>1, <3>2, <3>4, <3>6
  <2>9. OnDisplay'
    BY <1>1, <2>8 DEF OnDisplay
  <2>. QED
    BY <2>4, <2>7, <2>9
<1>. QED
  BY <1>4, <1>5, <1>6 DEF BulkInv, Undisturbed

LEMMA PanelStarts ==
    ASSUME Bulk!Init
    PROVE  BulkInv
<1>1. /\ stage = "empty" /\ file = None /\ picked = {} /\ vouched = {} /\ problem = FALSE /\ parses = {}
      /\ asked = None /\ dropped = {} /\ reference = 0 /\ commits = <<>> /\ batches = {} /\ upset = FALSE
  BY DEF Bulk!Init
<1>2. BulkTyped
  <2>1. commits \in Seq(Submissions) /\ reference \in Nat /\ file \in Files \cup {None}
    BY <1>1
  <2>2. problem \in BOOLEAN /\ upset \in BOOLEAN
    BY <1>1
  <2>. QED
    BY <1>1, <2>1, <2>2 DEF BulkTyped
<1>3. Referenced
  BY <1>1 DEF Referenced
<1>4. Early /\ Late /\ OnDisplay
  BY <1>1 DEF Early, Late, OnDisplay
<1>. QED
  BY <1>2, <1>3, <1>4 DEF BulkInv, Undisturbed

LEMMA PanelStep ==
    ASSUME BulkInv, [Bulk!Next]_(Bulk!wizardVars)
    PROVE  BulkInv'
<1>1. ASSUME NEW f \in Files, Bulk!ChooseFile(f) PROVE BulkInv'
  BY <1>1, FileChosen
<1>2. ASSUME NEW p \in parses, Bulk!Parsed(p) PROVE BulkInv'
  BY <1>2, FileParsed
<1>3. ASSUME NEW p \in parses, Bulk!ParseFails(p) PROVE BulkInv'
  BY <1>3, FileUnreadable
<1>4. CASE Bulk!PreviewComes
  BY <1>4, PreviewShown
<1>5. CASE Bulk!PreviewFails
  BY <1>5, PreviewMissed
<1>6. CASE Bulk!RetryPreview
  BY <1>6, PreviewRetried
<1>15. ASSUME NEW again \in dropped, Bulk!DroppedFails(again) PROVE BulkInv'
  BY <1>15, PreviewDisturbs
<1>7. CASE Bulk!Reset
  BY <1>7, PanelReset
<1>8. CASE Bulk!PrepareTemplate
  BY <1>8, TemplateBegun
<1>9. ASSUME NEW fails \in BOOLEAN, Bulk!TemplateEnds(fails) PROVE BulkInv'
  BY <1>9, TemplateEnded
<1>10. CASE \/ \E r \in SheetRows : Bulk!ToggleRow(r)
            \/ Bulk!Review \/ Bulk!Back \/ Bulk!Tick
  BY <1>10, PreviewUsed
<1>11. CASE Bulk!Commit
  BY <1>11, SheetSent
<1>12. ASSUME NEW i \in DOMAIN commits, Bulk!Store(i) \/ Bulk!Replay(i) \/ Bulk!Refuse(i) PROVE BulkInv'
  BY <1>12, ServerDecides
<1>13. ASSUME NEW i \in DOMAIN commits, Bulk!ShowResult(i) \/ Bulk!CommitFails(i) PROVE BulkInv'
  BY <1>13, PanelHears
<1>14. CASE UNCHANGED Bulk!wizardVars
  <2>1. UNCHANGED <<stage, file, picked, vouched, problem, parses, asked, dropped, reference, commits, batches, result, upset>>
    BY <1>14 DEF Bulk!wizardVars, Bulk!formVars, Bulk!workVars, Bulk!commitVars
  <2>. QED
    BY <2>1 DEF BulkInv, BulkTyped, Referenced, Undisturbed, Early, Late, OnDisplay
<1>. QED
  BY <1>1, <1>2, <1>3, <1>4, <1>5, <1>6, <1>7, <1>8, <1>9, <1>10, <1>11, <1>12, <1>13, <1>14, <1>15
     DEF Bulk!Next, SheetRows

LEMMA PanelInvariant == Bulk!Spec => []BulkInv
<1>1. Bulk!Init => BulkInv
  BY PanelStarts
<1>2. BulkInv /\ [Bulk!Next]_(Bulk!wizardVars) => BulkInv'
  BY PanelStep
<1>. QED
  BY <1>1, <1>2, PTL DEF Bulk!Spec

(* For any files, rows and errands: the reference is renewed by a reset     *)
(* only, and no reset goes through while an answer is awaited.             *)
THEOREM SheetsStoredOnce == Bulk!Spec => []BatchOnce
<1>1. BulkInv => BatchOnce
  BY DEF BulkInv, Referenced, Undisturbed, OnDisplay, BatchOnce, Bulk!BatchOnce, Bulk!StoredOnce, Bulk!ResultIsTheirs
<1>. QED
  BY <1>1, PanelInvariant, PTL

(* What the panel shows of itself.                                         *)
Panel ==
    /\ stage \in Bulk!Stages
    /\ vouched \subseteq Possible
    /\ checked \in BOOLEAN /\ template \in BOOLEAN /\ committing \in BOOLEAN

LEMMA PanelShows ==
    ASSUME Panel, [Bulk!Next]_(Bulk!wizardVars)
    PROVE  Panel'
<1>1. ASSUME NEW f \in Files, Bulk!ChooseFile(f) PROVE Panel'
  BY <1>1 DEF Panel, Bulk!ChooseFile, Bulk!formVars, Bulk!commitVars, Bulk!Stages
<1>2. ASSUME NEW p \in parses, Bulk!Parsed(p) \/ Bulk!ParseFails(p) PROVE Panel'
  BY <1>2 DEF Panel, Bulk!Parsed, Bulk!ParseFails, Bulk!formVars, Bulk!commitVars, Bulk!Stages
<1>3. CASE Bulk!PreviewComes \/ Bulk!PreviewFails \/ Bulk!RetryPreview
  BY <1>3 DEF Panel, Bulk!PreviewComes, Bulk!PreviewFails, Bulk!RetryPreview, Bulk!formVars, Bulk!commitVars,
     Bulk!Stages
<1>13. ASSUME NEW again \in dropped, Bulk!DroppedFails(again) PROVE Panel'
  BY <1>13 DEF Panel, Bulk!DroppedFails, Bulk!formVars, Bulk!commitVars, Bulk!Stages
<1>4. CASE Bulk!Reset
  BY <1>4 DEF Panel, Bulk!Reset, Bulk!Stages
<1>5. CASE Bulk!PrepareTemplate \/ \E fails \in BOOLEAN : Bulk!TemplateEnds(fails)
  <2>1. /\ stage' = stage /\ vouched' = vouched /\ checked' = checked /\ committing' = committing
        /\ template' = TRUE \/ template' = FALSE
    BY <1>5 DEF Bulk!PrepareTemplate, Bulk!TemplateEnds, Bulk!formVars, Bulk!commitVars
  <2>. QED
    BY <2>1 DEF Panel
<1>6. ASSUME NEW r \in Ready \cup Possible, Bulk!ToggleRow(r) PROVE Panel'
  <2>1. /\ stage' = stage /\ checked' = checked /\ committing' = committing /\ template' = template
        /\ vouched' = IF r \in Possible THEN Bulk!Other(vouched, r) ELSE vouched
    BY <1>6 DEF Bulk!ToggleRow, Bulk!workVars, Bulk!commitVars
  <2>. QED
    BY <2>1 DEF Panel, Bulk!Other
<1>7. CASE Bulk!Review \/ Bulk!Back
  BY <1>7 DEF Panel, Bulk!Review, Bulk!Back, Bulk!formVars, Bulk!workVars, Bulk!commitVars, Bulk!Stages
<1>8. CASE Bulk!Tick
  BY <1>8 DEF Panel, Bulk!Tick, Bulk!workVars, Bulk!commitVars
<1>9. CASE Bulk!Commit
  BY <1>9 DEF Panel, Bulk!Commit, Bulk!formVars, Bulk!workVars, Bulk!Stages
<1>10. ASSUME NEW i \in DOMAIN commits, Bulk!Store(i) \/ Bulk!Replay(i) \/ Bulk!Refuse(i) PROVE Panel'
  BY <1>10 DEF Panel, Bulk!Store, Bulk!Replay, Bulk!Refuse, Bulk!formVars, Bulk!workVars
<1>11. ASSUME NEW i \in DOMAIN commits, Bulk!ShowResult(i) \/ Bulk!CommitFails(i) PROVE Panel'
  BY <1>11 DEF Panel, Bulk!ShowResult, Bulk!CommitFails, Bulk!formVars, Bulk!workVars, Bulk!Stages
<1>12. CASE UNCHANGED Bulk!wizardVars
  BY <1>12 DEF Panel, Bulk!wizardVars, Bulk!formVars, Bulk!workVars, Bulk!commitVars
<1>. QED
  BY <1>1, <1>2, <1>3, <1>4, <1>5, <1>6, <1>7, <1>8, <1>9, <1>10, <1>11, <1>12, <1>13 DEF Bulk!Next

LEMMA PanelTypes == Bulk!Spec => []Bulk!TypeOK
<1>1. Bulk!Init => Panel
  BY DEF Bulk!Init, Panel, Bulk!Stages
<1>2. Panel /\ [Bulk!Next]_(Bulk!wizardVars) => Panel'
  BY PanelShows
<1>3. BulkInv /\ Panel => Bulk!TypeOK
  BY DEF BulkInv, BulkTyped, Panel, SheetRows, Bulk!TypeOK
<1>. QED
  BY <1>1, <1>2, <1>3, PanelInvariant, PTL DEF Bulk!Spec

(***************************************************************************)
(* All of them together.  They share no variable, so each of them sees of  *)
(* the whole only its own steps.                                           *)
(***************************************************************************)
LEMMA StepsApart ==
    ASSUME [ClientsNext]_<<consoleVars, bulkVars, checkVars, formVars, reserveVars, serviceVars>>
    PROVE  /\ [Next]_consoleVars /\ [ServiceNext]_(serviceVars)
           /\ [Bulk!Next]_(Bulk!wizardVars) /\ [Check!Next]_(Check!checkVars)
           /\ [Form!Next]_(Form!formVars) /\ [Reserve!Next]_(Reserve!reserveVars)
<1>1. /\ [Next]_consoleVars /\ [ServiceNext]_(serviceVars)
      /\ [Bulk!Next]_(bulkVars) /\ [Check!Next]_(checkVars)
      /\ [Form!Next]_(formVars) /\ [Reserve!Next]_(reserveVars)
  BY DEF ClientsNext, StepOf
<1>2. UNCHANGED bulkVars => UNCHANGED Bulk!wizardVars
  BY DEF bulkVars, Bulk!wizardVars, Bulk!formVars, Bulk!workVars, Bulk!commitVars
<1>3. UNCHANGED checkVars => UNCHANGED Check!checkVars
  BY DEF checkVars, Check!checkVars
<1>4. UNCHANGED formVars => UNCHANGED Form!formVars
  BY DEF formVars, Form!formVars
<1>5. UNCHANGED reserveVars => UNCHANGED Reserve!reserveVars
  BY DEF reserveVars, Reserve!reserveVars
<1>. QED
  BY <1>1, <1>2, <1>3, <1>4, <1>5

(* The pages and the service, each as if the others were not there.        *)
THEOREM EachWorksAlone ==
    ClientsSpec => Spec /\ Bulk!Spec /\ Check!Spec /\ Form!Spec /\ Reserve!Spec /\ ServiceSpec
<1>1. ClientsInit => Init /\ Bulk!Init /\ Check!Init /\ Form!Init /\ Reserve!Init /\ ServiceInit
  BY DEF ClientsInit
<1>. QED
  BY <1>1, StepsApart, PTL
  DEF ClientsSpec, Spec, Bulk!Spec, Check!Spec, Form!Spec, Reserve!Spec, ServiceSpec

(* Every variable of the console, of the four forms and of the check keeps *)
(* its type, for any bounds and any number of requests under way.          *)
THEOREM PagesTypeCorrect ==
    ASSUME ConstantsOK, Check!ConstantsOK, Form!ConstantsOK, Reserve!ConstantsOK, ServiceConstantsOK
    PROVE  ClientsSpec => []PagesTypesOK
<1>1. TypeOK /\ Bulk!TypeOK /\ Check!TypeOK /\ Form!TypeOK /\ Reserve!TypeOK /\ ServiceTypeOK => PagesTypesOK
  BY DEF PagesTypesOK
<1>. QED
  BY <1>1, EachWorksAlone, TypeCorrect, PanelTypes, CheckTypes, FormTypes, ReserveTypes, ServiceTypes, PTL

(* What the pages promise holds while all of them are used at once.        *)
THEOREM PagesKeepPromises ==
    ASSUME ConstantsOK, Check!ConstantsOK, Form!ConstantsOK, Reserve!ConstantsOK, ServiceConstantsOK
    PROVE  ClientsSpec => [](/\ ShownIsCurrent /\ OneAtATime /\ WaitingEnds /\ AnswerIsLatest /\ BatchOnce
                             /\ ErrorsOnTheirRows /\ ReservationsPreviewed /\ AnswerHolds)
BY EachWorksAlone, PagesAreCurrent, OneWriteAtATime, WaitsAreAnswered, LastCheckCounts, SheetsStoredOnce,
   ErrorsStayWithRows, PreviewsPrecede, AnswersHold, PTL
=============================================================================

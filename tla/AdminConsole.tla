---------------------------- MODULE AdminConsole ----------------------------
(***************************************************************************)
(* A page of the administration application: what it loads, what it shows, *)
(* what it offers and what it sends.                                       *)
(*                                                                         *)
(* Going from one record to another of the same kind keeps the mounted     *)
(* page with its state, and only the key of its resource changes; leaving  *)
(* for a page of another kind unmounts it.  Answers arrive in any order.   *)
(* What a write means is the business of the routes: here it gives the row *)
(* another version, or is refused, or its answer is lost.                  *)
(***************************************************************************)
EXTENDS Naturals, Sequences, FiniteSets

CONSTANTS
    Records,  \* records of one kind, or queries of one list
    Visits,   \* what one behaviour does: [page, uses, moves, sends, writes]
    None

Pages == {"list", "creator", "creator_form", "handle", "candidate", "submission",
          "import", "release", "approval", "sources"}

Statuses == {"any", "active", "suspended", "released", "previewed", "invalid", "completed",
             "pending", "overdue", "decided"}

Actions == {"delete alias", "delete source", "suppress profile", "suspend", "restore", "release",
            "approve", "request-review", "reject", "merge", "convert-to-candidate",
            "start-review", "commit", "calculate", "request-approval", "publish", "withdraw",
            "expire", "reset", "add evidence", "save evidence", "save decision",
            "save creator", "toggle", "preview", "run", "create release", "preview import"}

Snapshots == [rec : Records, status : Statuses, version : Nat]

Keys == Records \X Nat

Answers == [key : Keys, data : Snapshots \cup {None}]

(* What the constants must be like.                                        *)
ConstantsOK ==
    /\ Visits \subseteq [page : Pages, uses : SUBSET Actions, moves : Nat, sends : Nat, writes : Nat]
    /\ None \notin Records /\ None \notin Answers

VARIABLES
    visit,    \* the page this behaviour is about, and what is left to do
    place,    \* the record of the address, None on a page of another kind
    attempt,  \* how often the resource was asked to load again
    settled,  \* the last answer kept: [key, data], data is None on an error
    loads,    \* requests under way: [key, live, read]
    dialog,   \* the action to be confirmed, or None
    editor,   \* is the inline form open
    busy,
    sent,     \* writes in the order of their sending
    rows,     \* per record, its [status, version] in the database
    told      \* per record, the version of the last write acknowledged here

pageVars == <<dialog, editor, busy>>
consoleVars == <<visit, place, attempt, settled, loads, pageVars, sent, rows, told>>

Fresh(page) ==
    CASE page = "handle"   -> {"active", "suspended"}
      [] page = "import"   -> {"previewed", "invalid"}
      [] page = "approval" -> {"pending", "overdue"}
      [] OTHER             -> {"any"}

Key == <<place, attempt>>

(* Mutant of Current: the key of the answer is not compared.               *)
CurrentAnyway == settled # None

Current == settled # None /\ settled.key = Key

Shown == IF Current THEN settled.data ELSE None

Loading == place # None /\ ~Current

Asked(p, a) == [key |-> <<p, a>>, live |-> TRUE, read |-> None]

(* Mutant of Aborted: the old request goes on.                             *)
AbortedNone(ls) == ls

Aborted(ls) == {[l EXCEPT !.live = FALSE] : l \in ls}

(* The effect of a new key: the old request is aborted, another sent.      *)
Reload(p, a) == loads' = Aborted(loads) \cup {Asked(p, a)}

(***************************************************************************)
(* What each page offers for the record it shows.                          *)
(***************************************************************************)
EvidenceOffers == {"delete alias", "delete source", "suppress profile"}

HandleOffers(status) ==
    (IF status = "active" THEN {"suspend"} ELSE {"restore"}) \cup
    (IF status = "released" THEN {} ELSE {"release"})

CandidateOffers == {"approve", "request-review", "reject", "merge"}

SubmissionOffers == {"convert-to-candidate", "start-review", "approve", "reject"}

ImportOffers(status) == IF status = "previewed" THEN {"commit"} ELSE {}

ReleaseOffers == {"calculate", "request-approval", "approve", "publish", "withdraw"}

ApprovalOffers(status) ==
    CASE status = "pending" -> {"approve", "reject"}
      [] status = "overdue" -> {"expire"}
      [] OTHER              -> {}

Offers(status) ==
    CASE visit.page = "creator"    -> EvidenceOffers
      [] visit.page = "handle"     -> HandleOffers(status)
      [] visit.page = "candidate"  -> CandidateOffers
      [] visit.page = "submission" -> SubmissionOffers
      [] visit.page = "import"     -> ImportOffers(status)
      [] visit.page = "release"    -> ReleaseOffers
      [] visit.page = "approval"   -> ApprovalOffers(status)
      [] visit.page = "sources"    -> {"reset"}
      [] OTHER                     -> {}

(***************************************************************************)
(* Buttons and forms that send at once.                                    *)
(***************************************************************************)
EvidenceForms == {"add evidence", "save evidence"}

DecisionForm == {"save decision"}

CreatorForm == {"save creator"}

SourceButtons == {"toggle", "preview", "run"}

ListForms == {"create release", "preview import"}

Direct ==
    CASE visit.page = "creator"      -> EvidenceForms
      [] visit.page = "handle"       -> DecisionForm
      [] visit.page = "creator_form" -> CreatorForm
      [] visit.page = "sources"      -> SourceButtons
      [] visit.page = "list"         -> ListForms
      [] OTHER                       -> {}

NeedsEditor == {"save evidence", "save decision", "create release"}

(* These open what they made.                                              *)
Leaves(action) == action \in {"save creator", "preview import"}

After(action, status) ==
    CASE action = "suspend" -> "suspended"
      [] action = "release" -> "released"
      [] action = "restore" -> "active"
      [] action = "commit"  -> "completed"
      [] visit.page = "approval" -> "decided"
      [] OTHER -> status

Guarded(action) ==
    visit.page = "approval" \/ action \in {"save creator", "preview import", "toggle", "preview", "run"}

(* Mutant of Blocked: the busy flag is only looked at by the buttons.      *)
BlockedNever(action) == FALSE

Blocked(action) == busy /\ Guarded(action)

SetsBusy(action) == Guarded(action) \/ action = "reset"

(* Without a catch the dialog stays open when its action fails.            *)
Catches == visit.page \notin {"submission", "import", "list"}

Init ==
    /\ visit \in Visits
    /\ place = None
    /\ attempt = 0
    /\ settled = None
    /\ loads = {}
    /\ dialog = None /\ editor = FALSE /\ busy = FALSE
    /\ sent = <<>>
    /\ rows \in [Records -> {[status |-> s, version |-> 0] : s \in Fresh(visit.page)}]
    /\ told = [r \in Records |-> 0]

(***************************************************************************)
(* Going from page to page.                                                *)
(***************************************************************************)
Spend(what) == visit[what] > 0 /\ visit' = [visit EXCEPT ![what] = @ - 1]

Mount(r) ==
    /\ place = None
    /\ Spend("moves")
    /\ place' = r /\ attempt' = 0 /\ settled' = None
    /\ dialog' = None /\ editor' = FALSE /\ busy' = FALSE
    /\ Reload(r, 0)
    /\ UNCHANGED <<sent, rows, told>>

Go(r) ==
    /\ place \notin {None, r}
    /\ Spend("moves")
    /\ place' = r
    /\ Reload(r, attempt)
    /\ UNCHANGED <<attempt, settled, pageVars, sent, rows, told>>

Strangers == [i \in DOMAIN sent |-> [sent[i] EXCEPT !.ours = FALSE]]

Leave ==
    /\ place # None
    /\ Spend("moves")
    /\ place' = None
    /\ loads' = Aborted(loads)
    /\ sent' = Strangers
    /\ UNCHANGED <<attempt, settled, pageVars, rows, told>>

(***************************************************************************)
(* Loading.                                                                *)
(***************************************************************************)
Snapshot(r) == [rec |-> r, status |-> rows[r].status, version |-> rows[r].version]

Read(l) ==
    /\ l.read = None
    /\ loads' = (loads \ {l}) \cup {[l EXCEPT !.read = Snapshot(l.key[1])]}
    /\ UNCHANGED <<visit, place, attempt, settled, pageVars, sent, rows, told>>

(* Mutant of Heeded: the answer of an aborted request is kept all the same. *)
HeededAlways(l) == TRUE

Heeded(l) == l.live

Keep(l, data) ==
    /\ loads' = loads \ {l}
    /\ settled' = IF Heeded(l) THEN [key |-> l.key, data |-> data] ELSE settled
    /\ UNCHANGED <<visit, place, attempt, pageVars, sent, rows, told>>

Answer(l) == l.read # None /\ Keep(l, l.read)

Unanswered(l) == Keep(l, None)

TryAgain ==
    /\ place # None /\ Current /\ Shown = None
    /\ Spend("moves")
    /\ attempt' = attempt + 1
    /\ Reload(place, attempt')
    /\ UNCHANGED <<place, settled, pageVars, sent, rows, told>>

(***************************************************************************)
(* Dialogs, forms and buttons: only what is loaded can be used.            *)
(***************************************************************************)
Usable == place # None /\ (Shown # None \/ visit.page = "list")

Touch == Usable /\ UNCHANGED <<visit, place, attempt, settled, loads, busy, sent, rows, told>>

Open ==
    /\ Touch
    /\ dialog = None /\ (visit.page = "approval" => ~busy)
    /\ dialog' \in Offers(Shown.status) \cap visit.uses
    /\ UNCHANGED editor

Cancel == Touch /\ dialog # None /\ dialog' = None /\ UNCHANGED editor

Edit ==
    /\ Touch
    /\ visit.page \in {"creator", "handle", "list"} /\ dialog = None
    /\ editor' = ~editor
    /\ UNCHANGED dialog

(* An expiry names the revision on display.                                *)
Send(action) ==
    /\ Usable
    /\ ~Blocked(action)
    /\ Spend("sends")
    /\ sent' = Append(sent, [action |-> action, rec |-> place, ours |-> TRUE, state |-> "sent",
                             expects |-> IF action = "expire" THEN Shown.version ELSE None,
                             version |-> 0])
    /\ busy' = (busy \/ SetsBusy(action))
    /\ UNCHANGED <<place, attempt, settled, loads, dialog, editor, rows, told>>

Confirm == dialog # None /\ Send(dialog)

Submit == dialog = None /\ \E a \in Direct \cap visit.uses : (a \in NeedsEditor => editor) /\ Send(a)

(***************************************************************************)
(* The server, and the answers to writes.                                  *)
(***************************************************************************)
Advanced(row, status) == [status |-> status, version |-> row.version + 1]

Apply(i) ==
    LET row == rows[sent[i].rec]
        status == After(sent[i].action, row.status)
    IN  /\ sent[i].state = "sent"
        /\ sent[i].expects \in {None, row.version}
        /\ rows' = [rows EXCEPT ![sent[i].rec] = Advanced(row, status)]
        /\ sent' = [sent EXCEPT ![i].state = "applied", ![i].version = row.version + 1]
        /\ UNCHANGED <<visit, place, attempt, settled, loads, pageVars, told>>

OtherWrite(r) ==
    /\ Spend("writes")
    /\ rows' = [rows EXCEPT ![r] = Advanced(@, @.status)]
    /\ UNCHANGED <<place, attempt, settled, loads, pageVars, sent, told>>

Over(i) == sent' = [sent EXCEPT ![i].state = "over"]

(* The page shows a message and loads again, whatever record it is at.     *)
Acknowledge(i) ==
    /\ sent[i].state = "applied" /\ sent[i].ours /\ ~Leaves(sent[i].action)
    /\ Over(i)
    /\ told' = [told EXCEPT ![sent[i].rec] = IF sent[i].version > @ THEN sent[i].version ELSE @]
    /\ dialog' = IF sent[i].action \in Direct THEN dialog ELSE None
    /\ editor' = (editor /\ sent[i].action \notin NeedsEditor)
    /\ busy' = (busy /\ ~SetsBusy(sent[i].action))
    /\ attempt' = attempt + 1
    /\ Reload(place, attempt')
    /\ UNCHANGED <<visit, place, settled, rows>>

(* A saved creator is opened, from wherever the administrator is by then.  *)
Saved(i) ==
    /\ sent[i].state = "applied" /\ Leaves(sent[i].action)
    /\ place' = None
    /\ loads' = Aborted(loads)
    /\ sent' = [Strangers EXCEPT ![i].state = "over"]
    /\ busy' = FALSE
    /\ UNCHANGED <<visit, attempt, settled, dialog, editor, rows, told>>

(* The server refuses, or what it answered is lost.                        *)
Reject(i) ==
    /\ sent[i].state \in {"sent", "applied"} /\ sent[i].ours
    /\ Over(i)
    /\ dialog' = IF Catches /\ sent[i].action \notin Direct THEN None ELSE dialog
    /\ busy' = (busy /\ ~SetsBusy(sent[i].action))
    /\ UNCHANGED <<visit, place, attempt, settled, loads, editor, rows, told>>

Next ==
    \/ Leave \/ TryAgain \/ Open \/ Cancel \/ Edit \/ Confirm \/ Submit
    \/ \E r \in Records : Mount(r) \/ Go(r) \/ OtherWrite(r)
    \/ \E l \in loads : Read(l) \/ Answer(l) \/ Unanswered(l)
    \/ \E i \in DOMAIN sent : Apply(i) \/ Acknowledge(i) \/ Saved(i) \/ Reject(i)

Spec == Init /\ [][Next]_consoleVars

(***************************************************************************)
(* Properties.                                                             *)
(***************************************************************************)
TypeOK ==
    /\ visit.page \in Pages
    /\ place \in Records \cup {None}
    /\ attempt \in Nat
    /\ \A l \in loads : l.live => l.key = Key
    /\ editor \in BOOLEAN /\ busy \in BOOLEAN
    /\ \A i \in DOMAIN sent : sent[i].state \in {"sent", "applied", "over"}

(***************************************************************************)
(* What a page shows is the record of its address, and not an older        *)
(* version than the last write the page was told of.                       *)
(***************************************************************************)
ShownIsCurrent ==
    place # None /\ Shown # None => Shown.rec = place /\ Shown.version >= told[place]

(***************************************************************************)
(* A page that says it is loading waits for an answer that it will heed:   *)
(* no answer that comes late leaves it loading for ever.                   *)
(***************************************************************************)
LoadingEnds == Loading => \E l \in loads : l.live /\ l.key = Key

(***************************************************************************)
(* The pages with a busy flag have one write under way at a time; only a   *)
(* reset of a checkpoint lets another one in while a run goes on.          *)
(***************************************************************************)
OneAtATime ==
    LET underWay == {i \in DOMAIN sent :
                       sent[i].ours /\ sent[i].state # "over" /\ Guarded(sent[i].action)}
    IN  \A i, j \in underWay : i < j => \E k \in 1 .. j : sent[k].action = "reset"
=============================================================================

--------------------------- MODULE SubmissionForm ---------------------------
(***************************************************************************)
(* The form that suggests one creator.  Its usernames and its sources are  *)
(* lists of rows that come and go while a submission is under way; the two *)
(* lists behave alike, and one of them is modelled.  An error belongs to a *)
(* row by the row's id, but the server speaks of positions.                *)
(***************************************************************************)
EXTENDS Naturals, Sequences, SequencesExt

CONSTANTS
    Values,      \* what a row may hold, "" aside
    Unsupported, \* the values the form refuses by itself
    MaxRows, MaxEdits, MaxSends,
    None

(* What the constants must be like.                                        *)
ConstantsOK == None \notin Nat /\ MaxRows \in Nat \ {0} /\ MaxSends \in Nat

VARIABLES
    draft,    \* sequence of [id, value]
    nextId,   \* nextHandleId
    errors,   \* errors of rows: [id, about], about is the value in error
    pending,  \* submissionPending: what is under way, or None
    lastSent,     \* the rows of the last submission
    done,     \* is the acknowledgement on display
    posts,    \* what the server has yet to see
    pile,     \* the proposals waiting for review
    edits, sends

formVars == <<draft, nextId, errors, pending, lastSent, done, posts, pile, edits, sends>>

Empty == <<[id |-> 1, value |-> ""]>>

Init ==
    /\ draft = Empty /\ nextId = 2 /\ errors = {}
    /\ pending = None /\ lastSent = <<>> /\ done = FALSE
    /\ posts = {} /\ pile = {} /\ edits = 0 /\ sends = 0

Without(id) == {e \in errors : e.id # id}

Editing ==
    /\ ~done
    /\ edits < MaxEdits /\ edits' = edits + 1
    /\ UNCHANGED <<pending, lastSent, done, posts, pile, sends>>

(***************************************************************************)
(* The rows may be edited while a submission is under way.                 *)
(***************************************************************************)
ChangeRow(i, value) ==
    /\ Editing
    /\ draft' = [draft EXCEPT ![i].value = value]
    /\ errors' = Without(draft[i].id)
    /\ UNCHANGED nextId

AddRow ==
    /\ Editing
    /\ Len(draft) < MaxRows
    /\ draft' = Append(draft, [id |-> nextId, value |-> ""])
    /\ nextId' = nextId + 1
    /\ UNCHANGED errors

RemoveRow(i) ==
    /\ Editing
    /\ Len(draft) > 1
    /\ draft' = RemoveAt(draft, i)
    /\ errors' = Without(draft[i].id)
    /\ UNCHANGED nextId

(***************************************************************************)
(* What the form finds by itself: an empty row, an unsupported value, and  *)
(* the repetition of a row before it.                                      *)
(***************************************************************************)
RowErrors(rows) ==
    {[id |-> rows[i].id, about |-> rows[i].value] :
        i \in {k \in DOMAIN rows :
                 \/ rows[k].value \in Unsupported \cup {""}
                 \/ \E j \in 1 .. k - 1 : rows[j].value = rows[k].value}}

(* Leaving a field replaces the errors of all rows.                        *)
Blur ==
    /\ ~done /\ errors # RowErrors(draft)
    /\ errors' = RowErrors(draft)
    /\ UNCHANGED <<draft, nextId, pending, lastSent, done, posts, pile, edits, sends>>

Submit ==
    /\ ~done /\ pending = None
    /\ sends < MaxSends
    /\ errors' = RowErrors(draft)
    /\ IF RowErrors(draft) # {}
       THEN UNCHANGED <<pending, lastSent, posts, sends>>
       ELSE /\ pending' = sends + 1
            /\ sends' = sends + 1
            /\ lastSent' = draft
            /\ posts' = posts \cup {[nth |-> sends + 1, values |-> [i \in DOMAIN draft |-> draft[i].value],
                                     state |-> "waiting", at |-> 0]}
    /\ UNCHANGED <<draft, nextId, done, pile, edits>>

(***************************************************************************)
(* The server: an equivalent proposal that waits for review is a conflict, *)
(* whatever the order of its rows; a row may be found wanting.             *)
(***************************************************************************)
Becomes(p, state, at) == posts' = (posts \ {p}) \cup {[p EXCEPT !.state = state, !.at = at]}

Arrives(p) ==
    /\ p.state = "waiting"
    /\ \/ Range(p.values) \notin pile /\ pile' = pile \cup {Range(p.values)} /\ Becomes(p, "stored", 0)
       \/ Range(p.values) \in pile /\ UNCHANGED pile /\ Becomes(p, "refused", 0)
       \/ \E i \in DOMAIN p.values : UNCHANGED pile /\ Becomes(p, "refused", i)
    /\ UNCHANGED <<draft, nextId, errors, pending, lastSent, done, edits, sends>>

Decided(p) ==
    /\ p.nth = pending
    /\ pending' = None
    /\ UNCHANGED <<draft, nextId, lastSent, pile, edits, sends>>

Acknowledged(p) ==
    /\ Decided(p) /\ p.state = "stored"
    /\ done' = TRUE
    /\ posts' = posts \ {p}
    /\ UNCHANGED errors

(* Mutant of SentRow: positions are looked up in the rows of the moment.   *)
SentRowOfTheMoment(i) == IF i \in DOMAIN draft THEN draft[i] ELSE draft[1]

SentRow(i) == lastSent[i]

Refused(p) ==
    /\ Decided(p) /\ p.state = "refused"
    /\ errors' = IF p.at = 0 THEN {}
                 ELSE {[id |-> SentRow(p.at).id, about |-> p.values[p.at]]}
    /\ posts' = posts \ {p}
    /\ UNCHANGED done

(* The connection breaks; the proposal may yet arrive.                     *)
Unheard(p) ==
    /\ Decided(p)
    /\ errors' = {}
    /\ UNCHANGED <<done, posts>>

SubmitAnother ==
    /\ done
    /\ draft' = Empty /\ nextId' = 2 /\ errors' = {} /\ done' = FALSE
    /\ UNCHANGED <<pending, lastSent, posts, pile, edits, sends>>

Next ==
    \/ \E i \in DOMAIN draft : RemoveRow(i) \/ \E v \in Values : ChangeRow(i, v)
    \/ AddRow \/ Blur \/ Submit \/ SubmitAnother
    \/ \E p \in posts : Arrives(p) \/ Acknowledged(p) \/ Refused(p) \/ Unheard(p)

Spec == Init /\ [][Next]_formVars

(***************************************************************************)
(* Properties.                                                             *)
(***************************************************************************)
TypeOK ==
    /\ Len(draft) \in 1 .. MaxRows
    /\ pending \in 1 .. MaxSends \cup {None}
    /\ done => pending = None
    /\ \A i \in DOMAIN draft : draft[i].id < nextId /\ draft[i].value \in Values \cup {""}

(***************************************************************************)
(* Rows are told apart by their ids, and the error beside a row is about   *)
(* what that row holds, or held when it was sent, however the rows before  *)
(* it came and went while the answer was awaited.                          *)
(***************************************************************************)
ErrorsOnTheirRows ==
    /\ IsInjective([i \in DOMAIN draft |-> draft[i].id])
    /\ \A e \in errors, i \in DOMAIN draft :
          e.id = draft[i].id => e.about = draft[i].value \/ [id |-> e.id, value |-> e.about] \in Range(lastSent)
=============================================================================

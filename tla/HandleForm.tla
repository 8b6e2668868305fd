----------------------------- MODULE HandleForm -----------------------------
(***************************************************************************)
(* The form of the administration application that reserves a handle.      *)
(* Leaving the handle field asks for the conflicts of what is typed; the   *)
(* answers are not told apart, so a late one stands beside another entry.  *)
(***************************************************************************)
EXTENDS Naturals, Sequences

CONSTANTS
    Entries,    \* what can be typed: [handle, creator]
    Critical,   \* creators of the critical tier
    Registered, \* handles in the Registry before
    MaxTyped, MaxAsked, MaxSubmitted, \* bounds of one behaviour
    None

(* What the constants must be like.                                        *)
ConstantsOK == None \notin Entries /\ MaxAsked \in Nat

VARIABLES
    entry,    \* what is typed, None on an empty form
    typed,    \* how often it changed
    lookups,  \* checks under way: [about, exact], exact is None before the server read
    asked,
    shown,    \* the preview on display: [about, exact, since], or None
    saving,
    posted,   \* submissions: [entry, typed, preview, hard, state]
    names,    \* handles in the Registry
    queue,    \* how many requests for approval were raised
    closed    \* has the form given way to the handle it made

reserveVars == <<entry, typed, lookups, asked, shown, saving, posted, names, queue, closed>>

Init ==
    /\ entry = None /\ typed = 0
    /\ lookups = {} /\ asked = 0 /\ shown = None
    /\ saving = FALSE /\ posted = <<>>
    /\ names = Registered /\ queue = 0
    /\ closed = FALSE

(***************************************************************************)
(* Typing, and the preview.                                                *)
(***************************************************************************)
(* Mutant of Emptied: a change of the entry leaves the preview.            *)
EmptiedNot(preview) == preview

Emptied(preview) == None

Type(e) ==
    /\ ~closed /\ typed < MaxTyped /\ e # entry
    /\ entry' = e /\ typed' = typed + 1
    /\ shown' = Emptied(shown)
    /\ UNCHANGED <<lookups, asked, saving, posted, names, queue, closed>>

Blur ==
    /\ ~closed /\ entry # None /\ asked < MaxAsked
    /\ asked' = asked + 1
    /\ lookups' = lookups \cup {[about |-> entry, exact |-> None, nth |-> asked']}
    /\ UNCHANGED <<entry, typed, shown, saving, posted, names, queue, closed>>

Look(l) ==
    /\ l.exact = None
    /\ lookups' = (lookups \ {l}) \cup {[l EXCEPT !.exact = l.about.handle \in names]}
    /\ UNCHANGED <<entry, typed, asked, shown, saving, posted, names, queue, closed>>

Previewed(l) ==
    /\ l.exact # None /\ ~closed
    /\ lookups' = lookups \ {l}
    /\ shown' = [about |-> l.about, exact |-> l.exact, since |-> typed]
    /\ UNCHANGED <<entry, typed, asked, saving, posted, names, queue, closed>>

LookupFails(l) ==
    /\ lookups' = lookups \ {l}
    /\ UNCHANGED <<entry, typed, asked, shown, saving, posted, names, queue, closed>>

(***************************************************************************)
(* The submission, and the route.                                          *)
(***************************************************************************)
Submit(hard) ==
    /\ ~closed /\ ~saving
    /\ entry # None /\ shown # None /\ ~shown.exact
    /\ Len(posted) < MaxSubmitted
    /\ saving' = TRUE
    /\ posted' = Append(posted, [entry |-> entry, typed |-> typed, preview |-> shown,
                                 hard |-> hard, state |-> "sent"])
    /\ UNCHANGED <<entry, typed, lookups, asked, shown, names, queue, closed>>

Becomes(i, state) == posted' = [posted EXCEPT ![i].state = state]

Create(i) ==
    LET e == posted[i].entry
    IN  /\ posted[i].state = "sent" /\ e.handle \notin names
        /\ IF posted[i].hard /\ e.creator \in Critical
           THEN queue' = queue + 1 /\ Becomes(i, "queued") /\ UNCHANGED names
           ELSE names' = names \cup {e.handle} /\ Becomes(i, "created") /\ UNCHANGED queue
        /\ UNCHANGED <<entry, typed, lookups, asked, shown, saving, closed>>

OtherCreates(h) ==
    /\ h \notin names
    /\ names' = names \cup {h}
    /\ UNCHANGED <<entry, typed, lookups, asked, shown, saving, posted, queue, closed>>

(* The handle made is opened in place of the form.                         *)
Opened(i) ==
    /\ posted[i].state = "created" /\ ~closed
    /\ Becomes(i, "done")
    /\ closed' = TRUE /\ saving' = FALSE
    /\ UNCHANGED <<entry, typed, lookups, asked, shown, names, queue>>

Cleared == None

(* A request for approval leaves the form, empty again.                    *)
Queued(i) ==
    /\ posted[i].state = "queued"
    /\ Becomes(i, "done")
    /\ entry' = Cleared /\ typed' = IF entry' = entry THEN typed ELSE typed + 1
    /\ shown' = None
    /\ saving' = FALSE
    /\ UNCHANGED <<lookups, asked, names, queue, closed>>

(* The route refuses, or its answer is lost: nothing on the form changes.  *)
Failed(i) ==
    /\ posted[i].state \in {"sent", "created", "queued"} /\ ~closed
    /\ Becomes(i, "failed")
    /\ saving' = FALSE
    /\ UNCHANGED <<entry, typed, lookups, asked, shown, names, queue, closed>>

Next ==
    \/ \E e \in Entries : Type(e)
    \/ Blur
    \/ \E l \in lookups : Look(l) \/ Previewed(l) \/ LookupFails(l)
    \/ \E hard \in BOOLEAN : Submit(hard)
    \/ \E i \in DOMAIN posted : Create(i) \/ Opened(i) \/ Queued(i) \/ Failed(i)
    \/ \E e \in Entries : OtherCreates(e.handle)

Spec == Init /\ [][Next]_reserveVars

(***************************************************************************)
(* Properties.                                                             *)
(***************************************************************************)
TypeOK ==
    /\ entry \in Entries \cup {None} /\ typed \in Nat /\ asked \in 0 .. MaxAsked
    /\ saving \in BOOLEAN /\ closed \in BOOLEAN
    /\ \A i \in DOMAIN posted : posted[i].state \in {"sent", "created", "queued", "done", "failed"}

(***************************************************************************)
(* A reservation goes out with a preview answered after the last change,   *)
(* one at a time, and once for what was typed, unless the first failed.    *)
(***************************************************************************)
ReservationsPreviewed ==
    /\ \A i \in DOMAIN posted : posted[i].preview.since = posted[i].typed
    /\ \A i, j \in DOMAIN posted : i < j =>
          /\ posted[i].state \in {"done", "failed"}
          /\ posted[i].typed = posted[j].typed => posted[i].state = "failed"
=============================================================================

--------------------------- MODULE HandleCheckPage ---------------------------
(***************************************************************************)
(* The page that checks one handle against the registry.  A new check      *)
(* aborts the one under way; answers and failures of different checks      *)
(* arrive in any order.                                                    *)
(***************************************************************************)
EXTENDS Naturals

CONSTANTS
    Handles,
    Invalid,   \* the handles that are refused without asking the server
    Examples,  \* the handles the page offers, all valid
    MaxChecks, \* how often one behaviour asks the server
    None

(* What the constants must be like.                                        *)
ConstantsOK == Examples \subseteq Handles /\ MaxChecks \in Nat

VARIABLES
    handle,    \* what is typed
    initial,   \* the handle of the address, checked once the page is mounted
    answer,    \* the result kept, or None
    failed,    \* the check whose failure is kept, or 0
    refusal,   \* is the message about an unsupported handle on display
    loading,
    requests,  \* under way: [about, nth, live]
    latest,    \* the handle of the last check that asked the server
    checks,    \* how many did
    mounted

checkVars == <<handle, initial, answer, failed, refusal, loading, requests, latest, checks, mounted>>

Init ==
    /\ initial \in Handles \cup {None}
    /\ handle = initial
    /\ answer = None /\ failed = 0 /\ refusal = FALSE /\ loading = FALSE
    /\ requests = {} /\ latest = None /\ checks = 0
    /\ mounted = TRUE

(* Mutant of Superseded: the check under way goes on beside the new one.   *)
SupersededNone(rs) == rs

Superseded(rs) == {[r EXCEPT !.live = FALSE] : r \in rs}

(* What was shown before stays, hidden while the page is loading.          *)
Ask(h) ==
    /\ checks < MaxChecks
    /\ checks' = checks + 1
    /\ latest' = h
    /\ requests' = Superseded(requests) \cup {[about |-> h, nth |-> checks', live |-> TRUE]}
    /\ refusal' = FALSE /\ loading' = TRUE /\ failed' = 0
    /\ UNCHANGED <<answer, mounted>>

(* An unsupported handle is refused here; nothing is aborted.              *)
RefuseHere ==
    /\ refusal' = TRUE
    /\ answer' = None /\ failed' = 0
    /\ UNCHANGED <<loading, requests, latest, checks, mounted>>

Check(h) ==
    \/ h \in Handles \ Invalid /\ Ask(h)
    \/ h \notin Handles \ Invalid /\ RefuseHere

Type(h) == mounted /\ handle' = h /\ UNCHANGED <<initial, answer, failed, refusal, loading, requests, latest, checks, mounted>>

(* The button, which is disabled while loading, or Try again.              *)
Submit == mounted /\ ~loading /\ Check(handle) /\ UNCHANGED <<handle, initial>>

TryExample(h) == mounted /\ handle' = h /\ Check(h) /\ UNCHANGED initial

CheckInitial == mounted /\ initial # None /\ initial' = None /\ Check(initial) /\ UNCHANGED handle

Clear ==
    /\ mounted /\ (loading => handle # None)
    /\ requests' = Superseded(requests)
    /\ handle' = None /\ answer' = None /\ failed' = 0 /\ refusal' = FALSE /\ loading' = FALSE
    /\ UNCHANGED <<initial, latest, checks, mounted>>

Unmount ==
    /\ mounted
    /\ mounted' = FALSE
    /\ requests' = Superseded(requests)
    /\ initial' = None
    /\ UNCHANGED <<handle, answer, failed, refusal, loading, latest, checks>>

Ends(r) ==
    /\ requests' = requests \ {r}
    /\ loading' = (loading /\ ~r.live)
    /\ UNCHANGED <<handle, initial, refusal, latest, checks, mounted>>

Answered(r) == r.live /\ Ends(r) /\ answer' = r.about /\ UNCHANGED failed

(* A check that was aborted is passed over while its response is awaited.  *)
(* When its body is being read, the abort ends as a response that cannot   *)
(* be read, and that is kept like any failure.                             *)
Unanswered(r) ==
    /\ Ends(r)
    /\ \/ answer' = None /\ failed' = r.nth
       \/ ~r.live /\ UNCHANGED <<answer, failed>>

Next ==
    \/ \E h \in Handles : Type(h)
    \/ Submit \/ \E h \in Examples : TryExample(h)
    \/ CheckInitial \/ Clear \/ Unmount
    \/ \E r \in requests : Answered(r) \/ Unanswered(r)

Spec == Init /\ [][Next]_checkVars

(***************************************************************************)
(* Properties.                                                             *)
(***************************************************************************)
TypeOK ==
    /\ {handle, initial, answer, latest} \subseteq Handles \cup {None}
    /\ failed \in 0 .. MaxChecks /\ refusal \in BOOLEAN /\ loading \in BOOLEAN
    /\ \A r \in requests : r.about \in Handles \ Invalid /\ r.live \in BOOLEAN
    /\ checks \in 0 .. MaxChecks

(***************************************************************************)
(* The result on display is that of the last check: neither an answer that *)
(* comes late nor a failure puts an older one in its place.  A failure     *)
(* beside it is that of a check that was given up for a later one.         *)
(***************************************************************************)
AnswerIsLatest == mounted /\ ~loading /\ answer # None => answer = latest /\ failed # checks

(***************************************************************************)
(* A page that says it is checking waits for a check it will heed.         *)
(***************************************************************************)
CheckingEnds == mounted /\ loading => \E r \in requests : r.live
=============================================================================

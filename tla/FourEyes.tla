------------------------------ MODULE FourEyes ------------------------------
(***************************************************************************)
(* What an approval workflow promises, whatever it approves: a request is  *)
(* raised by one administrator, decided at most once, by another one, and  *)
(* never leaves an outcome it has reached.                                 *)
(*                                                                         *)
(* The contract speaks of the rows of admin_approval_requests and          *)
(* admin_approval_decisions only.  The modules that model what is approved *)
(* (handles in ApprovalWorkflow) implement it through a refinement         *)
(* mapping.                                                                *)
(***************************************************************************)
CONSTANTS
    Requests,  \* identifiers a request can get
    Admins     \* administrators, known by their e-mail address

VARIABLES
    state,     \* the status of each request, "absent" before its row exists
    raisedBy,  \* the administrators who raised it: none or one
    decidedBy  \* the administrators who approved or rejected it

feVars == <<state, raisedBy, decidedBy>>

(***************************************************************************)
(* A request whose effect needs a later step of its own (a publication)    *)
(* rests in "approved" between the decision and that step.                 *)
(***************************************************************************)
Live     == {"pending", "approved"}
Resolved == {"applied", "rejected", "expired"}
States   == {"absent"} \cup Live \cup Resolved

FETypeOK ==
    /\ state \in [Requests -> States]
    /\ raisedBy \in [Requests -> SUBSET Admins]
    /\ decidedBy \in [Requests -> SUBSET Admins]

FEInit ==
    /\ state = [r \in Requests |-> "absent"]
    /\ raisedBy = [r \in Requests |-> {}]
    /\ decidedBy = [r \in Requests |-> {}]

Raise(r, a) ==
    /\ state[r] = "absent"
    /\ state' = [state EXCEPT ![r] = "pending"]
    /\ raisedBy' = [raisedBy EXCEPT ![r] = {a}]
    /\ UNCHANGED decidedBy

(***************************************************************************)
(* The one decision a request gets, and what it leads to.                  *)
(***************************************************************************)
Decide(r, a, outcome) ==
    /\ state[r] = "pending"
    /\ a \notin raisedBy[r]
    /\ outcome \in {"approved", "applied", "rejected"}
    /\ state' = [state EXCEPT ![r] = outcome]
    /\ decidedBy' = [decidedBy EXCEPT ![r] = {a}]
    /\ UNCHANGED raisedBy

(***************************************************************************)
(* The later step that gives an approved request its effect.               *)
(***************************************************************************)
PutIntoEffect(r) ==
    /\ state[r] = "approved"
    /\ state' = [state EXCEPT ![r] = "applied"]
    /\ UNCHANGED <<raisedBy, decidedBy>>

(***************************************************************************)
(* Recording an elapsed deadline is no decision: the requester may do it,  *)
(* and a decision already taken stays on record.                           *)
(***************************************************************************)
Lapse(r) ==
    /\ state[r] \in Live
    /\ state' = [state EXCEPT ![r] = "expired"]
    /\ UNCHANGED <<raisedBy, decidedBy>>

FENext ==
    \E r \in Requests :
        \/ \E a \in Admins : Raise(r, a)
        \/ \E a \in Admins, outcome \in {"approved", "applied", "rejected"} :
               Decide(r, a, outcome)
        \/ PutIntoEffect(r)
        \/ Lapse(r)

FESpec == FEInit /\ [][FENext]_feVars
=============================================================================

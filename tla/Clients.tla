------------------------------ MODULE Clients ------------------------------
(* The pages of both applications that keep state across the answers they  *)
(* wait for, and the check of a handle behind one of them, side by side.   *)
(* They share no variable: each page is an instance of its own.            *)
EXTENDS AdminConsole, HandleCheck

CONSTANTS
    Files, Unreadable, Ready, Possible, Errands,            \* of BulkWizard
    Handles, Invalid, Examples, MaxChecks,                  \* of HandleCheckPage
    Values, Unsupported, MaxRows, MaxEdits, MaxSends,       \* of SubmissionForm
    Entries, Critical, Registered, MaxTyped, MaxAsked, MaxSubmitted \* of HandleForm

VARIABLES
    errands, stage, file, picked, vouched, checked, problem, parses, asked, dropped, template,
    reference, committing, commits, batches, result, upset,
    handle, initial, answer, failed, refusal, loading, requests, latest, checks, mounted,
    draft, nextId, errors, pending, lastSent, done, posts, pile, edits, sends,
    entry, typed, lookups, lookedUp, shown, saving, posted, names, queue, closed

Bulk == INSTANCE BulkWizard

Check == INSTANCE HandleCheckPage

Form == INSTANCE SubmissionForm

Reserve == INSTANCE HandleForm WITH asked <- lookedUp

bulkVars == <<errands, stage, file, picked, vouched, checked, problem, parses, asked, dropped, template,
              reference, committing, commits, batches, result, upset>>
checkVars == <<handle, initial, answer, failed, refusal, loading, requests, latest, checks, mounted>>
formVars == <<draft, nextId, errors, pending, lastSent, done, posts, pile, edits, sends>>
reserveVars == <<entry, typed, lookups, lookedUp, shown, saving, posted, names, queue, closed>>

(***************************************************************************)
(* What one of them does, the others do not notice.                        *)
(***************************************************************************)
Uses == {"console", "spreadsheet", "check", "suggestion", "reservation", "service"}

StepOf(use) ==
    /\ \/ use = "console" /\ Next
       \/ use # "console" /\ UNCHANGED consoleVars
    /\ \/ use = "spreadsheet" /\ Bulk!Next
       \/ use # "spreadsheet" /\ UNCHANGED bulkVars
    /\ \/ use = "check" /\ Check!Next
       \/ use # "check" /\ UNCHANGED checkVars
    /\ \/ use = "suggestion" /\ Form!Next
       \/ use # "suggestion" /\ UNCHANGED formVars
    /\ \/ use = "reservation" /\ Reserve!Next
       \/ use # "reservation" /\ UNCHANGED reserveVars
    /\ \/ use = "service" /\ ServiceNext
       \/ use # "service" /\ UNCHANGED serviceVars

ClientsInit == Init /\ Bulk!Init /\ Check!Init /\ Form!Init /\ Reserve!Init /\ ServiceInit

ClientsNext == \E use \in Uses : StepOf(use)

ClientsSpec ==
    ClientsInit /\ [][ClientsNext]_<<consoleVars, bulkVars, checkVars, formVars, reserveVars, serviceVars>>

(* Every variable of the six keeps its type.                              *)
PagesTypesOK == TypeOK /\ Bulk!TypeOK /\ Check!TypeOK /\ Form!TypeOK /\ Reserve!TypeOK /\ ServiceTypeOK

(* Whatever says that it waits for an answer has one to wait for: a page   *)
(* of the console, and the check of a handle.                              *)
WaitingEnds == LoadingEnds /\ Check!CheckingEnds

(* The result on display is that of the last check asked for, however late *)
(* answers and failures of the checks before it come.  What failed beside  *)
(* it is one of those (HandleCheckPage, check).                            *)
AnswerIsLatest == Check!AnswerIsLatest

(***************************************************************************)
(* A spreadsheet is stored once and its own result is shown for it: what   *)
(* is sent again after a lost answer carries the reference of the first    *)
(* attempt (useBulkSubmission, commitIdRef).                               *)
(***************************************************************************)
BatchOnce == Bulk!BatchOnce

(***************************************************************************)
(* Rows are told apart by their ids, and the error beside a row is about   *)
(* what that row holds, or held when it was sent, however the rows before  *)
(* it came and went while the answer was awaited (useSubmissionForm).      *)
(***************************************************************************)
ErrorsOnTheirRows == Form!ErrorsOnTheirRows

(* A reservation goes out with a preview answered after the last change,   *)
(* one at a time, and once for what was typed, unless the first failed.    *)
ReservationsPreviewed == Reserve!ReservationsPreviewed
=============================================================================

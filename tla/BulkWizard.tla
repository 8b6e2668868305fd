----------------------------- MODULE BulkWizard -----------------------------
(***************************************************************************)
(* The panel that takes a spreadsheet of creators through parsing, the     *)
(* preview of its rows, the confirmation and the submission, with the part *)
(* of the server that makes a repeated submission harmless.                *)
(*                                                                         *)
(* Parsing, previewing, submitting and preparing the Excel template go on  *)
(* by themselves and may end in any order, or after they were cancelled.   *)
(* A file stands for its rows, the same in every file: some are ready and  *)
(* some are possible duplicates, which count only when they are vouched    *)
(* for.  What the rows hold is the business of Intake.                     *)
(***************************************************************************)
EXTENDS Naturals, Sequences

CONSTANTS
    Files,
    Unreadable,  \* the files that cannot be parsed
    Ready, Possible,  \* rows by what the preview says of them
    Errands,     \* how often one behaviour may [choose, commit, template, retry]
    None

Stages == {"empty", "parsing", "preview", "confirming", "committing", "result"}

VARIABLES
    errands,
    stage,
    file,       \* the file parsed and previewed, or None
    picked, vouched,
    checked,    \* the tick below the confirmation
    problem,    \* is an error on display
    parses,     \* files being parsed: [file, live]
    asked,      \* the preview under way: [file, again], or None
    dropped,    \* previews aborted: was it a repeated one
    template,   \* is the Excel template being prepared
    reference,  \* commitIdRef, renewed by a reset
    committing, \* commitPendingRef
    commits,    \* submissions sent: [id, run, file, rows, server, heard]
    batches,    \* what the server has stored: [id, run, file, rows]
    result,     \* the batch on display, or None
    upset       \* has something that was over or cancelled disturbed the panel

formVars == <<file, picked, vouched, checked>>
workVars == <<parses, asked, dropped, template>>
commitVars == <<reference, committing, commits>>
wizardVars == <<errands, stage, formVars, problem, workVars, commitVars, batches, result, upset>>

Init ==
    /\ errands = Errands
    /\ stage = "empty" /\ file = None /\ picked = {} /\ vouched = {} /\ checked = FALSE
    /\ problem = FALSE /\ parses = {} /\ asked = None /\ dropped = {} /\ template = FALSE
    /\ reference = 0 /\ committing = FALSE /\ commits = <<>>
    /\ batches = {} /\ result = None /\ upset = FALSE

Go(errand) == errands[errand] > 0 /\ errands' = [errands EXCEPT ![errand] = @ - 1]

Silenced == {[p EXCEPT !.live = FALSE] : p \in parses}

Abort == dropped' = dropped \cup (IF asked = None THEN {} ELSE {asked.again})

(***************************************************************************)
(* From a file to its preview.                                             *)
(***************************************************************************)
ChooseFile(f) ==
    /\ stage = "empty"
    /\ Go("choose")
    /\ parses' = Silenced \cup {[file |-> f, live |-> TRUE]}
    /\ Abort /\ asked' = None
    /\ problem' = FALSE /\ result' = None /\ stage' = "parsing"
    /\ UNCHANGED <<formVars, template, commitVars, batches, upset>>

(* What was cancelled while it was parsed goes no further.                 *)
Parsed(p) ==
    /\ p.file \notin Unreadable
    /\ parses' = parses \ {p}
    /\ \/ p.live /\ Abort /\ asked' = [file |-> p.file, again |-> FALSE]
       \/ ~p.live /\ UNCHANGED <<asked, dropped>>
    /\ UNCHANGED <<errands, stage, formVars, problem, template, commitVars, batches, result, upset>>

(* Only an AbortError is passed over: an unreadable file says so, and      *)
(* empties the panel, even if it was cancelled.                            *)
ParseFails(p) ==
    /\ p.file \in Unreadable
    /\ parses' = parses \ {p}
    /\ problem' = TRUE /\ stage' = "empty"
    /\ upset' = (upset \/ ~p.live)
    /\ UNCHANGED <<errands, formVars, asked, dropped, template, commitVars, batches, result>>

PreviewComes ==
    /\ asked # None
    /\ asked' = None
    /\ file' = asked.file /\ picked' = Ready /\ vouched' = {}
    /\ stage' = "preview"
    /\ UNCHANGED <<errands, checked, problem, parses, dropped, template, commitVars, batches, result, upset>>

PreviewFails ==
    /\ asked # None
    /\ asked' = None
    /\ problem' = TRUE
    /\ stage' = IF asked.again THEN "preview" ELSE "empty"
    /\ UNCHANGED <<errands, formVars, parses, dropped, template, commitVars, batches, result, upset>>

(* An aborted preview is passed over while its response is awaited.  When  *)
(* its body is being read it ends as a response that cannot be read.       *)
DroppedFails(again) ==
    /\ dropped' = dropped \ {again}
    /\ problem' = TRUE
    /\ stage' = IF again THEN "preview" ELSE "empty"
    /\ upset' = TRUE
    /\ UNCHANGED <<errands, formVars, parses, asked, template, commitVars, batches, result>>

(* Offered beside every error, whatever the stage.                         *)
RetryPreview ==
    /\ problem /\ file # None
    /\ Go("retry")
    /\ problem' = FALSE /\ stage' = "parsing"
    /\ Abort /\ asked' = [file |-> file, again |-> TRUE]
    /\ UNCHANGED <<formVars, parses, template, commitVars, batches, result, upset>>

(* Cancel, another file, another spreadsheet.                              *)
Reset ==
    /\ stage \in {"parsing", "preview", "result"}
    /\ parses' = Silenced /\ Abort /\ asked' = None
    /\ committing' = FALSE
    /\ reference' = reference + 1
    /\ file' = None /\ picked' = {} /\ vouched' = {} /\ checked' = FALSE
    /\ problem' = FALSE /\ result' = None /\ stage' = "empty"
    /\ UNCHANGED <<errands, template, commits, batches, upset>>

(***************************************************************************)
(* The template, offered while the panel is empty.                         *)
(***************************************************************************)
PrepareTemplate ==
    /\ stage = "empty" /\ ~template
    /\ Go("template")
    /\ template' = TRUE /\ problem' = FALSE
    /\ UNCHANGED <<stage, formVars, parses, asked, dropped, commitVars, batches, result, upset>>

TemplateEnds(fails) ==
    /\ template
    /\ template' = FALSE
    /\ problem' = (problem \/ fails)
    /\ upset' = (upset \/ (fails /\ stage # "empty"))
    /\ UNCHANGED <<errands, stage, formVars, parses, asked, dropped, commitVars, batches, result>>

(***************************************************************************)
(* From the preview to the confirmation.                                   *)
(***************************************************************************)
Other(set, r) == IF r \in set THEN set \ {r} ELSE set \cup {r}

ToggleRow(r) ==
    /\ stage = "preview" /\ file # None
    /\ picked' = Other(picked, r)
    /\ vouched' = IF r \in Possible THEN Other(vouched, r) ELSE vouched
    /\ UNCHANGED <<errands, stage, file, checked, problem, workVars, commitVars, batches, result, upset>>

Review ==
    /\ stage = "preview" /\ file # None /\ picked # {}
    /\ checked' = FALSE /\ stage' = "confirming"
    /\ UNCHANGED <<errands, file, picked, vouched, problem, workVars, commitVars, batches, result, upset>>

Back ==
    /\ stage = "confirming" /\ file # None
    /\ stage' = "preview"
    /\ UNCHANGED <<errands, formVars, problem, workVars, commitVars, batches, result, upset>>

Tick ==
    /\ stage = "confirming" /\ file # None
    /\ checked' = ~checked
    /\ UNCHANGED <<errands, stage, file, picked, vouched, problem, workVars, commitVars, batches, result, upset>>

(* Mutant of CommitId: every attempt gets a reference of its own.          *)
CommitIdPerAttempt == <<reference, Len(commits)>>

CommitId == <<reference, 0>>

Commit ==
    /\ stage = "confirming" /\ file # None /\ ~committing /\ checked
    /\ Go("commit")
    /\ committing' = TRUE
    /\ stage' = "committing" /\ problem' = FALSE
    /\ commits' = Append(commits, [id |-> CommitId, run |-> reference, file |-> file, rows |-> picked,
                                   vouched |-> vouched \cap picked, server |-> "waiting", heard |-> FALSE])
    /\ UNCHANGED <<formVars, workVars, reference, batches, result, upset>>

(***************************************************************************)
(* The server: a reference that is known is answered with what was stored  *)
(* for it, for the same file only.                                         *)
(***************************************************************************)
Known(c) == {b \in batches : b.id = c.id}

Batch(c) == [id |-> c.id, run |-> c.run, file |-> c.file, rows |-> c.rows]

Store(i) ==
    LET c == commits[i]
    IN  /\ c.server = "waiting"
        /\ Known(c) = {} /\ c.rows \cap Possible \subseteq c.vouched
        /\ batches' = batches \cup {Batch(c)}
        /\ commits' = [commits EXCEPT ![i].server = "stored"]
        /\ UNCHANGED <<errands, stage, formVars, problem, workVars, reference, committing, result, upset>>

Replay(i) ==
    LET c == commits[i]
    IN  /\ c.server = "waiting"
        /\ \E b \in Known(c) : b.file = c.file
        /\ commits' = [commits EXCEPT ![i].server = "stored"]
        /\ UNCHANGED <<errands, stage, formVars, problem, workVars, reference, committing, batches, result, upset>>

(* Its rows or its reference are refused, or there were too many requests. *)
Refuse(i) ==
    /\ commits[i].server = "waiting"
    /\ commits' = [commits EXCEPT ![i].server = "refused"]
    /\ UNCHANGED <<errands, stage, formVars, problem, workVars, reference, committing, batches, result, upset>>

ShowResult(i) ==
    /\ commits[i].server = "stored" /\ ~commits[i].heard
    /\ commits' = [commits EXCEPT ![i].heard = TRUE]
    /\ result' = commits[i].id /\ stage' = "result"
    /\ committing' = FALSE
    /\ UNCHANGED <<errands, formVars, problem, workVars, reference, batches, upset>>

(* Refused, or the connection broke: the request may yet arrive.           *)
CommitFails(i) ==
    /\ ~commits[i].heard
    /\ commits' = [commits EXCEPT ![i].heard = TRUE]
    /\ problem' = TRUE /\ stage' = "confirming"
    /\ committing' = FALSE
    /\ UNCHANGED <<errands, formVars, workVars, reference, batches, result, upset>>

Next ==
    \/ \E f \in Files : ChooseFile(f)
    \/ \E p \in parses : Parsed(p) \/ ParseFails(p)
    \/ PreviewComes \/ PreviewFails \/ RetryPreview \/ Reset
    \/ \E again \in dropped : DroppedFails(again)
    \/ PrepareTemplate \/ \E fails \in BOOLEAN : TemplateEnds(fails)
    \/ \E r \in Ready \cup Possible : ToggleRow(r)
    \/ Review \/ Back \/ Tick \/ Commit
    \/ \E i \in DOMAIN commits : Store(i) \/ Replay(i) \/ Refuse(i) \/ ShowResult(i) \/ CommitFails(i)

Spec == Init /\ [][Next]_wizardVars

(***************************************************************************)
(* Properties.                                                             *)
(***************************************************************************)
TypeOK ==
    /\ stage \in Stages
    /\ file \in Files \cup {None}
    /\ picked \subseteq Ready \cup Possible /\ vouched \subseteq Possible
    /\ checked \in BOOLEAN /\ problem \in BOOLEAN /\ template \in BOOLEAN /\ committing \in BOOLEAN
    /\ \A p \in parses : p.file \in Files /\ p.live \in BOOLEAN
    /\ asked = None \/ asked.file \in Files
    /\ dropped \subseteq BOOLEAN
    /\ reference \in Nat

(***************************************************************************)
(* What is chosen between two resets is stored at most once, however often *)
(* it is sent again after an answer was lost.                              *)
(***************************************************************************)
StoredOnce == \A b, c \in batches : b.run = c.run => b = c

(***************************************************************************)
(* The result on display is a batch of the file on display, sent since the *)
(* last reset, unless a cancelled parse or preview or a late template      *)
(* disturbed it.                                                           *)
(***************************************************************************)
ResultIsTheirs ==
    stage = "result" /\ ~upset => \E b \in batches : b.id = result /\ b.run = reference /\ b.file = file

(***************************************************************************)
(* A spreadsheet is stored once and its own result is shown for it.        *)
(***************************************************************************)
BatchOnce == StoredOnce /\ ResultIsTheirs
=============================================================================

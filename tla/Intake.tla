------------------------------- MODULE Intake -------------------------------
(***************************************************************************)
(* Suggestions from the public: the single form, the bulk commit with its  *)
(* preview, the review of what came in, its conversion to a candidate and  *)
(* the draft of a creator an approved candidate leaves.                    *)
(*                                                                         *)
(* A call is a sequence of database statements; calls of both Workers run  *)
(* interleaved, and any of them may fail between two statements.           *)
(***************************************************************************)
EXTENDS Naturals, FiniteSets, SequencesExt, Functions

CONSTANTS
    Files,      \* spreadsheets a client may send: sequences of rows
    Forms,      \* the rows that also come in by the single form
    Selections,    \* what clients send with a file: [selected, confirmed]
    Commits,    \* commit references made up by clients
    Singles,    \* identifiers of single submissions
    Legacy,     \* submissions older than the fingerprint column: id -> row
    Evidence,   \* names, handles and sources the Registry may come to know
    Workloads,  \* which routes are called, and how often: [routes, most]
    MaxItems,   \* how many handles, or sources, a row may have (10)
    Calls,
    None

Rows == Forms \cup UNION {ToSet(f) : f \in Files}

(* The identifier of a row of a commit is a digest of all three.           *)
RowIds == UNION {{<<k, i, f[i]>> : k \in Commits, i \in DOMAIN f} : f \in Files}

Ids == Singles \cup DOMAIN Legacy \cup RowIds

Statuses == {"pending", "under_review", "approved", "rejected"}

Active == {"pending", "under_review"}

Outcomes == {"invalid", "within_file", "existing", "possible", "ready"}

Verdicts == {"submitted", "invalid", "skipped_within_file_duplicate",
             "skipped_exact_duplicate", "excluded_possible_duplicate",
             "excluded_by_user"}

VARIABLES
    submissions, \* per id, None or [row, printed, status]
    batches,     \* per commit, None or [file, result]
    candidates,  \* per submission, the review status of its candidate or None
    drafts,      \* per name, how many pending creators carry it
    known,       \* what of Evidence the Registry knows by now
    pc, call,    \* where each call is, and what it carries
    load,        \* the workload of this behaviour
    calls,       \* how many calls were made
    answers,     \* results given to clients: <<commit, result>>
    standing,    \* rows active ever since the attempt of a commit began
    blind,       \* <<new, old>>: entered unconfirmed beside a standing row
    reopened     \* rows that were decided and became active again

storeVars == <<submissions, batches, candidates, drafts>>
historyVars == <<answers, standing, blind, reopened>>
vars == <<storeVars, known, pc, call, load, calls, historyVars>>

(***************************************************************************)
(* Rows.                                                                   *)
(***************************************************************************)
Wellformed(s) == Len(s) \in 1 .. MaxItems /\ None \notin ToSet(s) /\ IsInjective(s)

Valid(r) == r.name # None /\ Wellformed(r.handles) /\ Wellformed(r.sources)

(* What is on record, and what calls carry.                                *)
SubmissionRows == [row : Rows, printed : BOOLEAN, status : Statuses]

BatchRows == [file : Files, result : UNION {[DOMAIN f -> Verdicts] : f \in Files}]

CommitCalls ==
    [commit : Commits, file : Files,
     selected : {c.selected : c \in Selections}, confirmed : {c.confirmed : c \in Selections},
     attempt : {0, 1}, outcomes : {<<>>} \cup UNION {[DOMAIN f -> Outcomes] : f \in Files}]

(* Files have rows, old submissions were valid, no digest is the           *)
(* identifier of another submission, and None is none of it all.           *)
ConstantsOK ==
    /\ Files \subseteq Seq(Rows)
    /\ \A id \in DOMAIN Legacy : Legacy[id] \in Rows /\ Valid(Legacy[id])
    /\ (Singles \cup DOMAIN Legacy) \cap RowIds = {}
    /\ None \notin Ids \cup SubmissionRows
    /\ None \notin BatchRows
    /\ None \notin CommitCalls
    /\ None \notin [row : Rows]
    /\ None \notin [id : Ids]
    /\ IsFiniteSet(Calls)

(* The fingerprint is a digest of sorted sets: order does not count.       *)
Fingerprint == [r \in Rows |->
    [name |-> r.name, handles |-> ToSet(r.handles), sources |-> ToSet(r.sources)]]

(* The warnings look at the handles and at the first source only.          *)
Overlap(r, s) ==
    \/ r.name = s.name
    \/ ToSet(r.handles) \cap ToSet(s.handles) # {}
    \/ Head(r.sources) = Head(s.sources)

Reviewed(r) == ({r.name} \cup ToSet(r.handles) \cup ToSet(r.sources)) \cap known # {}

IsActive(id) == submissions[id] # None /\ submissions[id].status \in Active

ActiveIds == {id \in Ids : IsActive(id)}

ActiveRows == {submissions[id].row : id \in ActiveIds}

(* Mutant of ActivePrints: a row without a stored fingerprint is left out. *)
ActivePrintsStored ==
    {Fingerprint[submissions[id].row] : id \in {i \in ActiveIds : submissions[i].printed}}

ActivePrints == {Fingerprint[r] : r \in ActiveRows}

(* The unique index covers active rows with a stored fingerprint.          *)
Clashes(row, self) ==
    \E id \in ActiveIds \ {self} :
        submissions[id].printed /\ Fingerprint[submissions[id].row] = Fingerprint[row]

(***************************************************************************)
(* The preview: the first row of a kind in the file counts, selected or    *)
(* not; then what is active; then what looks alike.                        *)
(***************************************************************************)
RepeatsEarlier(f, i) ==
    \E j \in 1 .. (i - 1) : Valid(f[j]) /\ Fingerprint[f[j]] = Fingerprint[f[i]]

Outcome(f, i) ==
    IF ~Valid(f[i]) THEN "invalid"
    ELSE IF RepeatsEarlier(f, i) THEN "within_file"
    ELSE IF Fingerprint[f[i]] \in ActivePrints THEN "existing"
    ELSE IF Reviewed(f[i]) \/ \E s \in ActiveRows : Overlap(f[i], s) THEN "possible"
    ELSE "ready"

(* Mutant of Unconfirmed: the second attempt asks for no confirmation.     *)
UnconfirmedAtFirst(c, outcomes) ==
    c.attempt = 0 /\ \E i \in c.selected \ c.confirmed : outcomes[i] = "possible"

Unconfirmed(c, outcomes) ==
    \E i \in c.selected \ c.confirmed : outcomes[i] = "possible"

Verdict(c, i) ==
    IF c.outcomes[i] = "invalid" THEN "invalid"
    ELSE IF c.outcomes[i] = "within_file" THEN "skipped_within_file_duplicate"
    ELSE IF c.outcomes[i] = "existing" THEN "skipped_exact_duplicate"
    ELSE IF i \in c.selected THEN "submitted"
    ELSE IF c.outcomes[i] = "possible" THEN "excluded_possible_duplicate"
    ELSE "excluded_by_user"

Result(c) == [i \in DOMAIN c.file |-> Verdict(c, i)]

Inserts(c) == {<<c.commit, i, c.file[i]>> : i \in {j \in DOMAIN c.file : Verdict(c, j) = "submitted"}}

(***************************************************************************)
(* Calls.                                                                  *)
(***************************************************************************)
Points == {"idle", "list", "insert", "find", "preview", "batch", "refind",
           "candidate", "reopen", "match", "draft", "verdict"}

Goto(w, p, c) ==
    /\ pc' = [pc EXCEPT ![w] = p]
    /\ call' = [call EXCEPT ![w] = c]

Finish(w) == Goto(w, "idle", None)

Start(w, op, p, c) ==
    /\ op \in load.routes /\ pc[w] = "idle" /\ calls < load.most
    /\ calls' = calls + 1
    /\ Goto(w, p, c)
    /\ UNCHANGED <<storeVars, known, load, historyVars>>

At(w, p) == pc[w] = p /\ UNCHANGED <<load, calls>>

(* A statement fails, the Worker is stopped, or its time is up.            *)
Fail(w) ==
    /\ pc[w] # "idle"
    /\ Finish(w)
    /\ UNCHANGED <<storeVars, known, load, calls, historyVars>>

Learn ==
    /\ "learn" \in load.routes
    /\ known' \in SUBSET Evidence
    /\ UNCHANGED <<storeVars, pc, call, load, calls, historyVars>>

Init ==
    /\ \E s \in [DOMAIN Legacy -> {"pending", "rejected"}] :
          submissions = [id \in Ids |->
              IF id \in DOMAIN Legacy
              THEN [row |-> Legacy[id], printed |-> FALSE, status |-> s[id]] ELSE None]
    /\ batches = [k \in Commits |-> None]
    /\ \E c \in [DOMAIN Legacy -> {None, "pending"}] :
          candidates = [id \in Ids |-> IF id \in DOMAIN Legacy THEN c[id] ELSE None]
    /\ drafts = [n \in {r.name : r \in Rows} |-> 0]
    /\ known = {}
    /\ pc = [w \in Calls |-> "idle"]
    /\ call = [w \in Calls |-> None]
    /\ load \in Workloads
    /\ calls = 0
    /\ answers = {}
    /\ standing = [w \in Calls |-> {}]
    /\ blind = {}
    /\ reopened = {}

(***************************************************************************)
(* POST /submissions: what is active is read before the row is inserted;   *)
(* the index decides between two calls that both found nothing.            *)
(***************************************************************************)
StartCreate(w) == \E r \in Forms : Valid(r) /\ Start(w, "create", "list", [row |-> r])

ListActive(w) ==
    /\ At(w, "list")
    /\ IF Fingerprint[call[w].row] \in ActivePrints THEN Finish(w) ELSE Goto(w, "insert", call[w])
    /\ UNCHANGED <<storeVars, known, historyVars>>

Suggestion(r) == [row |-> r, printed |-> TRUE, status |-> "pending"]

Insert(w) ==
    /\ At(w, "insert")
    /\ IF Clashes(call[w].row, None) THEN UNCHANGED submissions
       ELSE \E id \in Singles :
               /\ submissions[id] = None
               /\ submissions' = [submissions EXCEPT ![id] = Suggestion(call[w].row)]
    /\ Finish(w)
    /\ UNCHANGED <<batches, candidates, drafts, known, historyVars>>

(***************************************************************************)
(* POST /submissions/bulk/commit, at most two attempts.                    *)
(***************************************************************************)
StartCommit(w) ==
    \E k \in Commits, f \in Files, c \in Selections :
        Start(w, "commit", "find",
              [commit |-> k, file |-> f, selected |-> c.selected, confirmed |-> c.confirmed,
               attempt |-> 0, outcomes |-> <<>>])

Wellchosen(c) == c.selected \subseteq DOMAIN c.file /\ c.confirmed \subseteq c.selected

(* The answer is what is on record, if it is for the same rows.            *)
Replay(w) ==
    /\ answers' = IF batches[call[w].commit].file = call[w].file
                  THEN answers \cup {<<call[w].commit, batches[call[w].commit].result>>}
                  ELSE answers
    /\ Finish(w)
    /\ UNCHANGED <<standing, blind, reopened>>

Attempt(w, n) ==
    /\ Goto(w, "preview", [call[w] EXCEPT !.attempt = n])
    /\ standing' = [standing EXCEPT ![w] = ActiveIds]
    /\ UNCHANGED <<answers, blind, reopened>>

Refuse(w) == Finish(w) /\ UNCHANGED historyVars

FindBatch(w) ==
    /\ At(w, "find")
    /\ IF batches[call[w].commit] # None THEN Replay(w)
       ELSE IF Wellchosen(call[w]) THEN Attempt(w, 0)
       ELSE Refuse(w)
    /\ UNCHANGED <<storeVars, known>>

(* The submissions and the reviewed evidence are read at once; the latter  *)
(* changes freely, so one instant stands for both.                         *)
Preview(w) ==
    LET c == call[w]
        outcomes == [i \in DOMAIN c.file |-> Outcome(c.file, i)]
    IN  /\ At(w, "preview")
        /\ IF \/ \E i \in c.selected : outcomes[i] = "invalid"
              \/ Unconfirmed(c, outcomes)
           THEN Finish(w)
           ELSE Goto(w, "batch", [c EXCEPT !.outcomes = outcomes])
        /\ UNCHANGED <<storeVars, known, historyVars>>

(* Mutant of Unused: the batch row is written with INSERT OR REPLACE.      *)
UnusedOrNot(k) == TRUE

Unused(k) == batches[k] = None

Beside(c, id) ==
    {old \in standing[c] : IsActive(old) /\ Overlap(id[3], submissions[old].row)}

CommitBatch(w) ==
    LET c == call[w]
        new == Inserts(c)
    IN  /\ At(w, "batch")
        /\ IF /\ Unused(c.commit)
              /\ \A id \in new : ~Clashes(id[3], None)
           THEN /\ batches' = [batches EXCEPT ![c.commit] = [file |-> c.file, result |-> Result(c)]]
                /\ submissions' = [id \in Ids |-> IF id \in new THEN Suggestion(id[3]) ELSE submissions[id]]
                /\ answers' = answers \cup {<<c.commit, Result(c)>>}
                /\ blind' = blind \cup UNION {{id} \X Beside(w, id) : id \in {n \in new : n[2] \notin c.confirmed}}
                /\ Finish(w)
           ELSE /\ Goto(w, "refind", c)
                /\ UNCHANGED <<batches, submissions, answers, blind>>
        /\ UNCHANGED <<candidates, drafts, known, standing, reopened>>

Refind(w) ==
    /\ At(w, "refind")
    /\ IF batches[call[w].commit] # None THEN Replay(w)
       ELSE IF call[w].attempt = 0 THEN Attempt(w, 1)
       ELSE Refuse(w)
    /\ UNCHANGED <<storeVars, known>>

(***************************************************************************)
(* Review.  The status is written whatever it is; becoming active again    *)
(* may meet the index.                                                     *)
(***************************************************************************)
SetStatus(id, s) ==
    /\ s \in Active /\ submissions[id].printed => ~Clashes(submissions[id].row, id)
    /\ submissions' = [submissions EXCEPT ![id].status = s]
    /\ reopened' = IF s \in Active /\ ~IsActive(id) THEN reopened \cup {id} ELSE reopened
    /\ standing' = IF s \in Active THEN standing ELSE [w \in Calls |-> standing[w] \ {id}]
    /\ UNCHANGED <<answers, blind>>

ReviewRoutes == [start_review |-> "under_review", approve |-> "approved", reject |-> "rejected"]

Review ==
    /\ \E id \in Ids, a \in load.routes \cap DOMAIN ReviewRoutes :
          submissions[id] # None /\ SetStatus(id, ReviewRoutes[a])
    /\ UNCHANGED <<batches, candidates, drafts, known, pc, call, load, calls>>

StartConvert(w) ==
    \E id \in Ids : submissions[id] # None /\ Start(w, "convert", "candidate", [id |-> id])

(* One candidate per submission: its source names the submission.          *)
CreateCandidate(w) ==
    LET id == call[w].id
    IN  /\ At(w, "candidate")
        /\ IF candidates[id] = None
           THEN /\ candidates' = [candidates EXCEPT ![id] = "pending"]
                /\ Goto(w, "reopen", call[w])
           ELSE Finish(w) /\ UNCHANGED candidates
        /\ UNCHANGED <<submissions, batches, drafts, known, historyVars>>

Reopen(w) ==
    /\ At(w, "reopen")
    /\ SetStatus(call[w].id, "under_review")
    /\ Finish(w)
    /\ UNCHANGED <<batches, candidates, drafts, known>>

(***************************************************************************)
(* Review of candidates.  No constraint keeps two creators apart that      *)
(* share a name: the match is all there is.                                *)
(***************************************************************************)
StartApprove(w) ==
    \E id \in Ids, p \in {"match", "verdict"} :
        candidates[id] # None /\ Start(w, "approve_candidate", p, [id |-> id])

NameOf(id) == submissions[id].row.name

(* Mutant of Matched: only approved creators count.                        *)
MatchedApproved(n) == n \in known

Matched(n) == n \in known \/ drafts[n] > 0

Match(w) ==
    /\ At(w, "match")
    /\ Goto(w, IF Matched(NameOf(call[w].id)) THEN "verdict" ELSE "draft", call[w])
    /\ UNCHANGED <<storeVars, known, historyVars>>

Draft(w) ==
    /\ At(w, "draft")
    /\ drafts' = [drafts EXCEPT ![NameOf(call[w].id)] = @ + 1]
    /\ Goto(w, "verdict", call[w])
    /\ UNCHANGED <<submissions, batches, candidates, known, historyVars>>

Judge(id, v) == candidates' = [candidates EXCEPT ![id] = v]

Approve(w) ==
    /\ At(w, "verdict")
    /\ Judge(call[w].id, "approved")
    /\ Finish(w)
    /\ UNCHANGED <<submissions, batches, drafts, known, historyVars>>

DecideRoutes == [reject_candidate |-> "rejected", request_review |-> "pending", merge |-> "merged"]

Decide ==
    /\ \E id \in Ids, a \in load.routes \cap DOMAIN DecideRoutes :
          candidates[id] # None /\ Judge(id, DecideRoutes[a])
    /\ UNCHANGED <<submissions, batches, drafts, known, pc, call, load, calls, historyVars>>

Next ==
    \/ Learn \/ Review \/ Decide
    \/ \E w \in Calls :
          \/ StartCreate(w) \/ ListActive(w) \/ Insert(w)
          \/ StartCommit(w) \/ FindBatch(w) \/ Preview(w) \/ CommitBatch(w) \/ Refind(w)
          \/ StartConvert(w) \/ CreateCandidate(w) \/ Reopen(w)
          \/ StartApprove(w) \/ Match(w) \/ Draft(w) \/ Approve(w)
          \/ Fail(w)

Spec == Init /\ [][Next]_vars

(***************************************************************************)
(* Properties.                                                             *)
(***************************************************************************)
SubmissionsOK ==
    \A id \in Ids :
        submissions[id] # None =>
            /\ Valid(submissions[id].row)
            /\ submissions[id].status \in Statuses
            /\ submissions[id].printed = (id \notin DOMAIN Legacy)

(* Every variable keeps its type; the rows on record are valid, a batch    *)
(* has a verdict for each row of its file and a submission for each row it *)
(* says was submitted, and candidates belong to submissions.               *)
TypeOK ==
    /\ SubmissionsOK
    /\ \A k \in Commits : batches[k] # None =>
          /\ batches[k].file \in Files
          /\ batches[k].result \in [DOMAIN batches[k].file -> Verdicts]
          /\ \A i \in DOMAIN batches[k].file :
                batches[k].result[i] = "submitted" <=>
                submissions[<<k, i, batches[k].file[i]>>] # None
    /\ \A id \in Ids : candidates[id] # None =>
          /\ submissions[id] # None
          /\ candidates[id] \in {"pending", "approved", "rejected", "merged"}
    /\ drafts \in [DOMAIN drafts -> Nat]
    /\ known \subseteq Evidence
    /\ pc \in [Calls -> Points]
    /\ \A w \in Calls : pc[w] = "idle" <=> call[w] = None

(***************************************************************************)
(* Two active suggestions of the same content: both are older than the     *)
(* fingerprint column, or one of them is and was decided and opened again. *)
(* Otherwise the reads before the insert and the index leave one.          *)
(***************************************************************************)
OneActivePerContent ==
    \A a, b \in ActiveIds :
        Fingerprint[submissions[a].row] = Fingerprint[submissions[b].row] =>
            \/ a = b
            \/ ~submissions[a].printed /\ ~submissions[b].printed
            \/ \E x \in {a, b} : x \in reopened /\ ~submissions[x].printed

(***************************************************************************)
(* A row that looks like one that was active all through the attempt is    *)
(* entered only if the client confirmed it, in the second attempt too.     *)
(***************************************************************************)
NoneBlind == blind = {}

(***************************************************************************)
(* Approvals of candidates with one name leave no more drafts of that name *)
(* than there were calls under way at once.                                *)
(***************************************************************************)
DraftsBounded ==
    \A n \in DOMAIN drafts : drafts[n] <= Cardinality(Calls)

(***************************************************************************)
(* However commits of one reference race, fail and are repeated, clients   *)
(* are told one result per reference, the one on record.                   *)
(***************************************************************************)
Contract == INSTANCE CommitOnce WITH
    stored <- batches, told <- answers,
    Results <- UNION {[DOMAIN f -> Verdicts] : f \in Files}

CommitContract == Contract!Spec
=============================================================================

------------------------------ MODULE Ingestion ------------------------------
(***************************************************************************)
(* Discovery of creators from an external source: runs of the ingestion    *)
(* orchestrator, their leases, checkpoints and candidates.                 *)
(*                                                                         *)
(* A job is one call of execute, by a route or by the scheduled handler of *)
(* the administration Worker.  A step of it is one D1 statement or one     *)
(* answer of the source with the code up to the next one, and other jobs   *)
(* run between two steps.  A step may fail (Fault), and a Worker may be    *)
(* stopped between two steps (Crash).                                      *)
(*                                                                         *)
(* Abstractions.  One source is modelled, with its scopes.  Its records    *)
(* are numbered in the order it lists them, what a record says is its      *)
(* version, and its raw checksum is that version.  The recommendation of a *)
(* matching creator is left out: nothing depends on it here.  Time is kept *)
(* as what is left of a lease and what has passed of a run.  The           *)
(* identifier of a run is taken again once no lock and no job holds it,    *)
(* and the rows of its run and outcomes stand for the last run that got    *)
(* it; of the outcomes only which records have one is kept.                *)
(***************************************************************************)
EXTENDS Integers, FiniteSets

CONSTANTS
    Jobs,          \* calls of execute that are served at the same time
    Scopes,        \* scope keys of the source
    Default,       \* the scope of scheduled runs
    Runs,          \* identifiers of runs
    Candidates,    \* identifiers of candidates
    Total,         \* how many records the source lists
    Malformed,     \* the records that mapRecord refuses
    PageSize,      \* configuration.batchSize
    MaxPages,      \* configuration.maximumPagesPerRun
    MaxRecords,    \* configuration.maximumRecordsPerRun
    MaxFailed,     \* maximum_failed_records of the scope configuration
    MaxDuration,   \* ticks after which a run asks for no further page
    Lease,         \* ticks of a lease: longer than MaxDuration
    Settings,      \* what an administrator may set the flags of the source to
    Operations,    \* what arrives: see Triggers and Interventions
    MaxVersion,    \* bound: the last version of a record
    NameOf,        \* the normalised name a record has in each version
    Faultless,     \* the points where no step fails and no Worker stops
    MaxFaults,     \* bound: how many faults and crashes happen
    None           \* no row, no value

Records       == 1 .. Total
Triggers      == {"start", "preview", "scheduled"}
Interventions == {"force release", "reset", "review", "configure"}
RunStatuses   == {"pending", "running", "completed", "completed_with_errors", "failed"}
ReviewStatuses == {"pending", "decided"}

Config     == [enabled : BOOLEAN, scheduled : BOOLEAN, writes : BOOLEAN]
Cursor     == 0 .. Total
Lock       == [run : Runs, left : 0 .. Lease]
Checkpoint == [cursor : Cursor \cup {None}, failures : Nat]
Candidate  == [record : Records, version : 0 .. MaxVersion, status : ReviewStatuses]
Provenance == [candidate : Candidates, version : 0 .. MaxVersion]

ASSUME IngestionConstants ==
    /\ Default \in Scopes
    /\ Total \in Nat /\ PageSize \in 1 .. 100 /\ MaxPages \in Nat \ {0}
    /\ MaxRecords \in Nat \ {0} /\ MaxFailed \in Nat
    /\ MaxDuration \in Nat \ {0} /\ Lease \in Nat /\ Lease > MaxDuration
    /\ Malformed \subseteq Records /\ Settings \subseteq Config
    /\ Operations \subseteq Triggers \cup Interventions
    /\ MaxVersion \in Nat /\ MaxFaults \in Nat
    /\ NameOf \in [0 .. MaxVersion -> Nat]
    /\ None \notin Nat \cup Runs \cup Candidates

VARIABLES
    remote,       \* the version of each record at the source
    config,       \* source_configurations: its flags
    locks,        \* source_run_locks, by scope
    checkpoints,  \* source_checkpoints, by scope
    candidates,   \* creator_candidates, by identifier
    provenance,   \* candidate_source_provenance, by record
    outcomes,     \* ingestion_record_outcomes: the records that have one, by status
    runs,         \* ingestion_runs: status, by identifier
    pc,           \* where each job stands, "idle" when it serves nothing
    job,          \* the local variables of each job
    faults,       \* how many faults and crashes there were
    late,         \* history: whether a run has outlived its lease
    withheld      \* history: candidates that were decided when their update came

rowVars == <<candidates, provenance, withheld>>
runVars == <<outcomes, runs>>
vars == <<remote, config, locks, checkpoints, rowVars, runVars, pc, job, faults, late>>

(***************************************************************************)
(* The local variables of a job: the checkpoint it carries from page to    *)
(* page, the page it is on and the position of the record it handles, the  *)
(* end of that page and the cursor that follows it, what the records       *)
(* said when it was fetched, and the candidate it is about.  "lease" is a  *)
(* history: what is left of the lease it got, whatever became of its lock. *)
(***************************************************************************)
Outcomes == {"created", "updated", "duplicate", "failed", "previewed"}
Outside  == {"idle", "configure", "acquire"}
Entering == {"confirm", "checkpoint", "create", "running"}
Handling == {"lookup", "load", "update", "insert", "save"}
Working  == {"page"} \cup Handling \cup {"outcome", "success", "threshold", "complete"}
Ending   == {"failure", "failed", "release"}
Job == [trigger : Triggers, scope : Scopes, run : Runs \cup {None}, dry : BOOLEAN,
        cursor : Cursor \cup {None}, page : 0 .. MaxPages, at : 0 .. Total + 1,
        end : Cursor, next : Cursor \cup {None}, complete : BOOLEAN,
        fetched : Nat, failures : Nat, elapsed : 0 .. MaxDuration,
        seen : [Records -> 0 .. MaxVersion], candidate : Candidates \cup {None},
        outcome : Outcomes \cup {None}, lease : 0 .. Lease]

ASSUME NoneIsNoRow == None \notin Lock \cup Checkpoint \cup Candidate \cup Provenance \cup Job

Writing == [enabled |-> TRUE, scheduled |-> TRUE, writes |-> TRUE]

Init ==
    /\ remote = [r \in Records |-> 0]
    /\ config = Writing
    /\ locks = [s \in Scopes |-> None]
    /\ checkpoints = [s \in Scopes |-> None]
    /\ candidates = [c \in Candidates |-> None]
    /\ provenance = [r \in Records |-> None]
    /\ outcomes = {}
    /\ runs = [r \in Runs |-> None]
    /\ pc = [w \in Jobs |-> "idle"]
    /\ job = [w \in Jobs |-> None]
    /\ faults = 0
    /\ late = FALSE
    /\ withheld = {}

Goto(w, p, j) ==
    /\ pc' = [pc EXCEPT ![w] = p]
    /\ job' = [job EXCEPT ![w] = j]

Finish(w) == Goto(w, "idle", None)

(* Mutant of Holds: release deletes the lock of the scope, whose ever it is. *)
HoldsAnyone(w) == locks[job[w].scope] # None

Holds(w) == locks[job[w].scope] # None /\ locks[job[w].scope].run = job[w].run

(***************************************************************************)
(* The environment: time, the source and the administrators.               *)
(***************************************************************************)
Smaller(a, b) == IF a < b THEN a ELSE b

(* Mutant of Sooner: time goes on below zero.                              *)
SoonerUnbounded(n) == n - 1

Sooner(n) == IF n = 0 THEN 0 ELSE n - 1

Busy(w) == pc[w] \in Working \cup Entering \cup Ending

Tick ==
    /\ locks' = [s \in Scopes |-> IF locks[s] = None THEN None
                                  ELSE [locks[s] EXCEPT !.left = Sooner(@)]]
    /\ late' = (late \/ \E w \in Jobs : Busy(w) /\ job[w].lease <= 1)
    /\ job' = [w \in Jobs |->
                  IF job[w] = None THEN None
                  ELSE [job[w] EXCEPT !.lease = Sooner(@),
                           !.elapsed = IF pc[w] \in Working
                                       THEN Smaller(MaxDuration, @ + 1) ELSE @]]
    /\ UNCHANGED <<remote, config, checkpoints, rowVars, runVars, pc, faults>>

SourceChanges ==
    /\ \E r \in Records :
          /\ remote[r] < MaxVersion
          /\ remote' = [remote EXCEPT ![r] = @ + 1]
    /\ UNCHANGED <<config, locks, checkpoints, rowVars, runVars, pc, job, faults, late>>

Configure ==
    /\ "configure" \in Operations
    /\ config' \in Settings
    /\ UNCHANGED <<remote, locks, checkpoints, rowVars, runVars, pc, job, faults, late>>

Unlock(s) == locks' = [locks EXCEPT ![s] = None]

ForceRelease ==
    /\ "force release" \in Operations
    /\ \E s \in Scopes : Unlock(s)
    /\ UNCHANGED <<remote, config, checkpoints, rowVars, runVars, pc, job, faults, late>>

Rewind(s) == checkpoints' = [checkpoints EXCEPT ![s] = [cursor |-> None, failures |-> 0]]

ResetCheckpoint ==
    /\ "reset" \in Operations
    /\ \E s \in Scopes : checkpoints[s] # None /\ Rewind(s)
    /\ UNCHANGED <<remote, config, locks, rowVars, runVars, pc, job, faults, late>>

(* A reviewer decides about a candidate, or requests its review again,     *)
(* whatever was decided before (module Intake).                            *)
Review ==
    /\ "review" \in Operations
    /\ \E c \in Candidates, status \in ReviewStatuses :
          /\ candidates[c] # None
          /\ candidates' = [candidates EXCEPT ![c].status = status]
    /\ UNCHANGED <<remote, config, locks, checkpoints, provenance, withheld, runVars,
                   pc, job, faults, late>>

(***************************************************************************)
(* Getting hold of the source: the configuration, the lease, the           *)
(* checkpoint and the row of the run.                                      *)
(***************************************************************************)
NewJob(trigger, s) ==
    [trigger |-> trigger, scope |-> s, run |-> None, dry |-> FALSE, cursor |-> None,
     page |-> 0, at |-> 0, end |-> 0, next |-> None, complete |-> FALSE, fetched |-> 0,
     failures |-> 0, elapsed |-> 0, seen |-> [r \in Records |-> 0],
     candidate |-> None, outcome |-> None, lease |-> 0]

(* The scheduled handler lists the sources that are enabled and scheduled. *)
ScheduledEnabled == config.enabled /\ config.scheduled

Arrive(w) ==
    /\ pc[w] = "idle"
    /\ \E trigger \in Triggers \cap Operations, s \in Scopes :
          /\ trigger = "scheduled" => s = Default /\ ScheduledEnabled
          /\ Goto(w, "configure", NewJob(trigger, s))
    /\ UNCHANGED <<remote, config, locks, checkpoints, rowVars, runVars, faults, late>>

(* validateConfiguration of the connector.                                 *)
Ready == config.enabled

ReadConfiguration(w) ==
    /\ pc[w] = "configure"
    /\ IF Ready
       THEN Goto(w, "acquire", [job[w] EXCEPT
                !.dry = job[w].trigger = "preview" \/ ~config.writes])
       ELSE Finish(w)
    /\ UNCHANGED <<remote, config, locks, checkpoints, rowVars, runVars, faults, late>>

(* Mutants of Free: acquire replaces any lock; it never replaces one.      *)
FreeAlways(s) == s \in Scopes
FreeUnlocked(s) == locks[s] = None

Free(s) == locks[s] # None => locks[s].left = 0

Unused(r) ==
    /\ r \notin {locks[s].run : s \in {x \in Scopes : locks[x] # None}}
    /\ r \notin {job[w].run : w \in {x \in Jobs : job[x] # None}}

TakeLock(s, r) == locks' = [locks EXCEPT ![s] = [run |-> r, left |-> Lease]]

Acquire(w) ==
    /\ pc[w] = "acquire"
    /\ LET s == job[w].scope IN
       IF Free(s)
       THEN \E r \in Runs :
               /\ Unused(r)
               /\ TakeLock(s, r)
               /\ Goto(w, "confirm", [job[w] EXCEPT !.run = r, !.lease = Lease])
       ELSE Finish(w) /\ UNCHANGED locks
    /\ UNCHANGED <<remote, config, checkpoints, rowVars, runVars, faults, late>>

(* acquire reads the row again and only asks whether there is one.         *)
Confirm(w) ==
    /\ pc[w] = "confirm"
    /\ IF locks[job[w].scope] = None THEN Finish(w) ELSE Goto(w, "checkpoint", job[w])
    /\ UNCHANGED <<remote, config, locks, checkpoints, rowVars, runVars, faults, late>>

CursorOf(s) == IF checkpoints[s] = None THEN None ELSE checkpoints[s].cursor

ReadCheckpoint(w) ==
    /\ pc[w] = "checkpoint"
    /\ Goto(w, "create", [job[w] EXCEPT !.cursor = CursorOf(job[w].scope)])
    /\ UNCHANGED <<remote, config, locks, checkpoints, rowVars, runVars, faults, late>>

SetRun(w, status) == runs' = [runs EXCEPT ![job[w].run] = status]

NewRun(w) == runs' = [runs EXCEPT ![job[w].run] = "pending"]

CreateRun(w) ==
    /\ pc[w] = "create"
    /\ NewRun(w)
    /\ Goto(w, "running", job[w])
    /\ UNCHANGED <<remote, config, locks, checkpoints, rowVars, outcomes, faults, late>>

MarkRunning(w) ==
    /\ pc[w] = "running"
    /\ SetRun(w, "running")
    /\ Goto(w, "page", job[w])
    /\ UNCHANGED <<remote, config, locks, checkpoints, rowVars, outcomes, faults, late>>

(***************************************************************************)
(* Pages.  The clock is read and the first page is asked for in one step,  *)
(* so that every run asks for a page.                                      *)
(***************************************************************************)
OffsetOf(cursor) == IF cursor = None THEN 0 ELSE cursor

Exhausted(j) ==
    \/ j.page = MaxPages
    \/ j.page > 0 /\ j.elapsed >= MaxDuration
    \/ j.fetched >= MaxRecords

(* The page that fetchPage returns: at most limit records after the offset *)
(* of the cursor, complete when there are fewer.                           *)
Fetched(j) ==
    LET limit  == Smaller(PageSize, MaxRecords - j.fetched)
        offset == OffsetOf(j.cursor)
        end    == Smaller(Total, offset + limit)
    IN  [j EXCEPT !.at = offset + 1, !.end = end, !.fetched = @ + (end - offset),
                  !.complete = end - offset < limit, !.seen = remote,
                  !.next = IF end - offset = limit THEN end ELSE None,
                  !.elapsed = IF j.page = 0 THEN 0 ELSE @]

AtRecord(j) == IF j.at <= j.end THEN "lookup" ELSE "success"

NextPage(w) ==
    /\ pc[w] = "page"
    /\ IF Exhausted(job[w]) THEN Goto(w, "complete", job[w])
       ELSE LET j == Fetched(job[w]) IN Goto(w, AtRecord(j), j)
    /\ UNCHANGED <<remote, config, locks, checkpoints, rowVars, runVars, faults, late>>

(***************************************************************************)
(* One record: what it maps to, the row that knows it, and what is written *)
(* of it.                                                                  *)
(***************************************************************************)
Seen(w) == job[w].seen[job[w].at]

With(j, outcome) == [j EXCEPT !.outcome = outcome]

FailRecord(w) ==
    Goto(w, "outcome", [job[w] EXCEPT !.outcome = "failed", !.failures = @ + 1])

(* What mapRecord cannot map: no identifier of an entity or no label.      *)
Refused(r) == r \in Malformed

(* mapRecord, findBySourceEntity, recommendMatch.                          *)
Lookup(w) ==
    LET r == job[w].at
        j == [job[w] EXCEPT !.candidate =
                 IF provenance[r] = None THEN None ELSE provenance[r].candidate]
    IN
    /\ pc[w] = "lookup"
    /\ \/ Refused(r) /\ FailRecord(w)
       \/ ~Refused(r) /\ job[w].dry /\ Goto(w, "outcome", With(j, "previewed"))
       \/ /\ ~Refused(r) /\ ~job[w].dry
          /\ IF provenance[r] = None THEN Goto(w, "insert", j)
             ELSE IF provenance[r].version = Seen(w)
             THEN Goto(w, "load", With(j, "duplicate"))
             ELSE Goto(w, "load", With(j, "updated"))
    /\ UNCHANGED <<remote, config, locks, checkpoints, rowVars, runVars, faults, late>>

LoadCandidate(w) ==
    /\ pc[w] = "load"
    /\ IF candidates[job[w].candidate] = None THEN FailRecord(w)
       ELSE Goto(w, IF job[w].outcome = "duplicate" THEN "save" ELSE "update", job[w])
    /\ UNCHANGED <<remote, config, locks, checkpoints, rowVars, runVars, faults, late>>

(* UNIQUE (normalized_name, discovery_source): the discovery source names  *)
(* the record, so it is two candidates of one record that may collide.     *)
Taken(r, v, others) ==
    \E c \in others :
        /\ candidates[c] # None /\ candidates[c].record = r
        /\ NameOf[candidates[c].version] = NameOf[v]

(* Mutants of Undecided: no look at the status; no update at all.          *)
UndecidedOrNot(c) == candidates[c] # None
UndecidedNever(c) == candidates[c] = None

(* updateDiscoveryData: only a candidate that is still pending.            *)
Undecided(c) == candidates[c].status = "pending"

(* What a decided candidate does not get to say, though the checksum moves *)
(* on: it stays withheld until a later change of the record.               *)
Missed(c, v) == candidates[c].status = "decided" /\ candidates[c].version < v

UpdateCandidate(w) ==
    LET c == job[w].candidate IN
    /\ pc[w] = "update"
    /\ \/ /\ ~Undecided(c)
          /\ withheld' = IF Missed(c, Seen(w)) THEN withheld \cup {c} ELSE withheld
          /\ Goto(w, "save", job[w]) /\ UNCHANGED candidates
       \/ /\ Undecided(c) /\ Taken(job[w].at, Seen(w), Candidates \ {c})
          /\ FailRecord(w) /\ UNCHANGED <<candidates, withheld>>
       \/ /\ Undecided(c) /\ ~Taken(job[w].at, Seen(w), Candidates \ {c})
          /\ candidates' = [candidates EXCEPT ![c].version = Seen(w)]
          /\ withheld' = withheld \ {c}
          /\ Goto(w, "save", job[w])
    /\ UNCHANGED <<remote, config, locks, checkpoints, provenance, runVars, faults, late>>

NewCandidate(r, v) == [record |-> r, version |-> v, status |-> "pending"]

CreateCandidate(w) ==
    LET r == job[w].at
        v == Seen(w)
    IN
    /\ pc[w] = "insert"
    /\ IF Taken(r, v, Candidates)
       THEN FailRecord(w) /\ UNCHANGED candidates
       ELSE \E c \in Candidates :
               /\ candidates[c] = None
               /\ candidates' = [candidates EXCEPT ![c] = NewCandidate(r, v)]
               /\ Goto(w, "save", [job[w] EXCEPT !.candidate = c, !.outcome = "created"])
    /\ UNCHANGED <<remote, config, locks, checkpoints, provenance, withheld, runVars, faults, late>>

Upsert(r, c, v) == provenance' = [provenance EXCEPT ![r] = [candidate |-> c, version |-> v]]

SaveProvenance(w) ==
    /\ pc[w] = "save"
    /\ Upsert(job[w].at, job[w].candidate, Seen(w))
    /\ Goto(w, "outcome", job[w])
    /\ UNCHANGED <<remote, config, locks, checkpoints, candidates, withheld, runVars, faults, late>>

(* Mutant of TooMany: the limit itself is too many.                        *)
TooManyAtLimit(j) == j.outcome = "failed" /\ j.failures >= MaxFailed

TooMany(j) == j.outcome = "failed" /\ j.failures > MaxFailed

(* Unreadable records of one page share a row, as they share an           *)
(* idempotency key; here it stands for each of them.                       *)
LogOutcome(r, status) == outcomes' = outcomes \cup {[record |-> r, status |-> status]}

AppendOutcome(w) ==
    LET j == [job[w] EXCEPT !.at = @ + 1, !.candidate = None, !.outcome = None] IN
    /\ pc[w] = "outcome"
    /\ LogOutcome(job[w].at, job[w].outcome)
    /\ Goto(w, IF TooMany(job[w]) THEN "threshold" ELSE AtRecord(j), j)
    /\ UNCHANGED <<remote, config, locks, checkpoints, rowVars, runs, faults, late>>

(***************************************************************************)
(* The end of a page and of a run.                                         *)
(***************************************************************************)
LastPage(j) == j.complete \/ j.next = None

Advance(s, cursor) ==
    checkpoints' = [checkpoints EXCEPT ![s] = [cursor |-> cursor, failures |-> 0]]

RecordSuccess(w) ==
    LET j == [job[w] EXCEPT !.cursor = job[w].next, !.page = @ + 1] IN
    /\ pc[w] = "success"
    /\ Advance(j.scope, j.next)
    /\ Goto(w, IF LastPage(j) THEN "complete" ELSE "page", j)
    /\ UNCHANGED <<remote, config, locks, rowVars, runVars, faults, late>>

(* recordFailure keeps the cursor; failures are counted up to two here.    *)
RecordFailure(s) ==
    checkpoints' = [checkpoints EXCEPT ![s] =
        IF checkpoints[s] = None THEN [cursor |-> None, failures |-> 1]
        ELSE [checkpoints[s] EXCEPT !.failures = Smaller(2, @ + 1)]]

ThresholdReached(w) ==
    /\ pc[w] = "threshold"
    /\ RecordFailure(job[w].scope)
    /\ Goto(w, "complete", job[w])
    /\ UNCHANGED <<remote, config, locks, rowVars, runVars, faults, late>>

Completed(j) == IF j.failures > 0 THEN "completed_with_errors" ELSE "completed"

MarkCompleted(w) ==
    /\ pc[w] = "complete"
    /\ SetRun(w, Completed(job[w]))
    /\ Goto(w, "release", job[w])
    /\ UNCHANGED <<remote, config, locks, checkpoints, rowVars, outcomes, faults, late>>

(* Mutant of RunFailure: a run that fails moves the cursor on.             *)
RunFailureAdvancing(w) ==
    /\ pc[w] = "failure"
    /\ checkpoints' = [checkpoints EXCEPT ![job[w].scope] =
          [cursor |-> job[w].next, failures |-> 1]]
    /\ Goto(w, "failed", job[w])
    /\ UNCHANGED <<remote, config, locks, rowVars, runVars, faults, late>>

RunFailure(w) ==
    /\ pc[w] = "failure"
    /\ RecordFailure(job[w].scope)
    /\ Goto(w, "failed", job[w])
    /\ UNCHANGED <<remote, config, locks, rowVars, runVars, faults, late>>

MarkFailed(w) ==
    /\ pc[w] = "failed"
    /\ SetRun(w, "failed")
    /\ Goto(w, "release", job[w])
    /\ UNCHANGED <<remote, config, locks, checkpoints, rowVars, outcomes, faults, late>>

(* The lock is deleted only when it is the one of this run.                *)
Release(w) ==
    /\ pc[w] = "release"
    /\ IF Holds(w) THEN Unlock(job[w].scope) ELSE UNCHANGED locks
    /\ Finish(w)
    /\ UNCHANGED <<remote, config, checkpoints, rowVars, runVars, faults, late>>

(***************************************************************************)
(* A step of a job fails: while a record is handled the record fails, in   *)
(* the rest of the try block the run does, in the catch block the lock is  *)
(* still released, and before the try block, or in the release itself, the *)
(* job ends and leaves its lock.  A write may also fail after it happened, *)
(* when the row is read back: the job has moved on in the model by then,   *)
(* and the second and third disjuncts are such failures of saving the      *)
(* provenance and of completing the run.                                   *)
(***************************************************************************)
Fault(w) ==
    /\ pc[w] \notin Faultless \cup {"idle"}
    /\ faults < MaxFaults
    /\ faults' = faults + 1
    /\ \/ pc[w] \in Handling /\ FailRecord(w)
       \/ /\ pc[w] = "outcome" /\ job[w].outcome \in {"created", "updated", "duplicate"}
          /\ FailRecord(w)
       \/ /\ pc[w] = "release"
          /\ runs[job[w].run] \in {"completed", "completed_with_errors"}
          /\ Goto(w, "failure", job[w])
       \/ pc[w] \in Working \ Handling /\ Goto(w, "failure", job[w])
       \/ pc[w] \in {"failure", "failed"} /\ Goto(w, "release", job[w])
       \/ pc[w] \in Outside \cup Entering \cup {"release"} /\ Finish(w)
    /\ UNCHANGED <<remote, config, locks, checkpoints, rowVars, runVars, late>>

Crash(w) ==
    /\ pc[w] \notin Faultless \cup {"idle"}
    /\ faults < MaxFaults
    /\ faults' = faults + 1
    /\ Finish(w)
    /\ UNCHANGED <<remote, config, locks, checkpoints, rowVars, runVars, late>>

Step(w) ==
    \/ ReadConfiguration(w) \/ Acquire(w) \/ Confirm(w) \/ ReadCheckpoint(w)
    \/ CreateRun(w) \/ MarkRunning(w) \/ NextPage(w)
    \/ Lookup(w) \/ LoadCandidate(w) \/ UpdateCandidate(w) \/ CreateCandidate(w)
    \/ SaveProvenance(w) \/ AppendOutcome(w)
    \/ RecordSuccess(w) \/ ThresholdReached(w) \/ MarkCompleted(w)
    \/ RunFailure(w) \/ MarkFailed(w) \/ Release(w)

Next ==
    \/ Tick \/ SourceChanges \/ Configure \/ ForceRelease \/ ResetCheckpoint \/ Review
    \/ \E w \in Jobs : Arrive(w) \/ Step(w) \/ Fault(w) \/ Crash(w)

Spec == Init /\ [][Next]_vars

(* A job goes on unless it crashes, time passes, and the source is tried   *)
(* again and again, by the schedule or by an administrator.                *)
Fairness ==
    /\ WF_vars(Tick)
    /\ \A w \in Jobs : WF_vars(Step(w)) /\ WF_vars(Arrive(w))

FairSpec == Spec /\ Fairness

(***************************************************************************)
(* Properties.                                                             *)
(***************************************************************************)
TypeOK ==
    /\ remote \in [Records -> 0 .. MaxVersion]
    /\ config \in Config
    /\ locks \in [Scopes -> Lock \cup {None}]
    /\ checkpoints \in [Scopes -> Checkpoint \cup {None}]
    /\ candidates \in [Candidates -> Candidate \cup {None}]
    /\ provenance \in [Records -> Provenance \cup {None}]
    /\ outcomes \subseteq [record : Records, status : Outcomes]
    /\ runs \in [Runs -> RunStatuses \cup {None}]
    /\ pc \in [Jobs -> Outside \cup Entering \cup Working \cup Ending]
    /\ job \in [Jobs -> Job \cup {None}]
    /\ faults \in 0 .. MaxFaults /\ late \in BOOLEAN /\ withheld \subseteq Candidates
    /\ \A w \in Jobs : job[w] = None <=> pc[w] = "idle"

(* Two runs never work on one scope both within the leases they got: a run *)
(* that has outlived its lease must neither keep its successor's lock      *)
(* alive nor, when it ends at last, take it away.                          *)
LeaseExclusive ==
    \A v, w \in Jobs :
        v # w /\ Busy(v) /\ Busy(w) /\ job[v].scope = job[w].scope =>
            job[v].lease = 0 \/ job[w].lease = 0

(* A candidate that a reviewer has decided about keeps what it says, also  *)
(* when the job read it while it was pending: "A reviewer decision is      *)
(* never overwritten" (INGESTION_ARCHITECTURE.md).  Only reviewers reopen  *)
(* one, in a step of no job, and that changes nothing but its status.      *)
DecidedCandidatesKept ==
    [][\A c \in Candidates :
          candidates[c] # None /\ candidates[c].status = "decided" =>
              \/ candidates'[c] = candidates[c]
              \/ pc' = pc /\ candidates'[c] = [candidates[c] EXCEPT !.status = "pending"]]_candidates

(* A record of the source has at most one candidate, also when it changes  *)
(* its name, while runs end within their leases and no step fails: the     *)
(* lease is all that keeps two runs from creating it twice.                *)
OneCandidatePerRecord ==
    ~late => \A c, d \in Candidates :
        candidates[c] # None /\ candidates[d] # None /\ c # d =>
            candidates[c].record # candidates[d].record

(* The checksum kept for a record never runs ahead of its candidate, which *)
(* says at least what the checksum stands for.  Where it is ahead, the     *)
(* next runs take the record for a duplicate and the candidate stays       *)
(* stale.  There are two ways to that: a run that has outlived its lease   *)
(* puts old evidence over new, and the last update of the candidate came   *)
(* while it was decided, whether or not its review was requested again.    *)
ChecksumNotAhead ==
    ~late => \A r \in Records :
        provenance[r] # None =>
            LET c == provenance[r].candidate IN
            /\ candidates[c] # None
            /\ candidates[c].record = r
            /\ c \notin withheld => candidates[c].version >= provenance[r].version

(* A checkpoint only moves past records that were handled: each one before *)
(* a stored cursor has its provenance, or an outcome that says it failed   *)
(* or was only previewed.  A page that was cut short, by the threshold, by *)
(* a failure or by a crash, must not advance it.                           *)
NothingSkipped ==
    \A s \in Scopes, r \in Records :
        checkpoints[s] # None /\ r <= OffsetOf(checkpoints[s].cursor) =>
            \/ provenance[r] # None
            \/ \E o \in outcomes : o.record = r /\ o.status \in {"failed", "previewed"}

(* No page is hopeless: wherever one begins, it holds no more malformed    *)
(* records than one run may fail.  A hopeless page stops every run with    *)
(* its cursor kept, and what lies behind it is never looked at again.      *)
PagesPass ==
    \A offset \in 0 .. Total :
        Cardinality(Malformed \cap (offset + 1 .. offset + PageSize)) <= MaxFailed

(* Every sound record of a source that is left enabled and writing becomes *)
(* known in the end, after crashes that leave a lock behind, failures of   *)
(* single steps, dry runs that moved the checkpoint on, runs that stop at  *)
(* their limits of pages and time, and runs that were cut short because    *)
(* too many of their records failed.  The exceptions are a source with a   *)
(* hopeless page, and a failure between a candidate and its provenance     *)
(* (RepeatsArrive).                                                        *)
EveryRecordArrives ==
    PagesPass /\ <>[](config = Writing) =>
        \A r \in Records \ Malformed : <>(provenance[r] # None)

(* "A repeat updates pending candidate evidence or records a duplicate     *)
(* checksum" (INGESTION_ARCHITECTURE.md): a sound record that already has  *)
(* a candidate gets its provenance in the end.  It does not once its run   *)
(* stopped between the two writes: every repeat then fails on the UNIQUE   *)
(* constraint of the candidates.                                           *)
RepeatsArrive ==
    \A r \in Records \ Malformed :
        (\E c \in Candidates : candidates[c] # None /\ candidates[c].record = r)
            ~> provenance[r] # None
=============================================================================

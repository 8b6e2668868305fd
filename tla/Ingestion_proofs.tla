---------------------------- MODULE Ingestion_proofs ----------------------------
(***************************************************************************)
(* What Ingestion guarantees for any number of jobs, scopes, records and   *)
(* pages, and for any lease.                                               *)
(***************************************************************************)
EXTENDS Ingestion, TLAPS

Points  == Outside \cup Entering \cup Working \cup Ending
Reading == Handling \cup {"outcome", "success"}

(* What a job that stands at p has in its local variables.                 *)
JobOK(j, p) ==
    /\ j \in Job
    /\ p \notin Outside => j.run \in Runs
    /\ p \in Handling \cup {"outcome"} => j.at \in Records /\ j.at <= j.end
    /\ p \in Reading => j.page < MaxPages /\ j.next \in {None, j.end}
    /\ p = "success" => j.at = j.end + 1
    /\ p \in {"load", "update", "save"} => j.candidate \in Candidates
    /\ p \in {"load", "update", "save", "outcome"} => j.outcome \in Outcomes

JobsOK == \A w \in Jobs : pc[w] # "idle" => JobOK(job[w], pc[w])

(* The candidate that is to be updated exists.                             *)
UpdatesFound == \A w \in Jobs : pc[w] = "update" => candidates[job[w].candidate] # None

Typed == TypeOK /\ JobsOK /\ UpdatesFound

CandidatesStay == \A c \in Candidates : candidates[c] # None => candidates'[c] # None

(* The parts of the type invariant that steps of jobs share.               *)
JobsTyped ==
    /\ pc \in [Jobs -> Points] /\ job \in [Jobs -> Job \cup {None}]
    /\ \A w \in Jobs : job[w] = None <=> pc[w] = "idle"

StoreOK ==
    /\ remote \in [Records -> 0 .. MaxVersion]
    /\ config \in Config
    /\ locks \in [Scopes -> Lock \cup {None}]
    /\ checkpoints \in [Scopes -> Checkpoint \cup {None}]
    /\ candidates \in [Candidates -> Candidate \cup {None}]
    /\ provenance \in [Records -> Provenance \cup {None}]
    /\ outcomes \subseteq [record : Records, status : Outcomes]
    /\ runs \in [Runs -> RunStatuses \cup {None}]
    /\ faults \in 0 .. MaxFaults /\ late \in BOOLEAN /\ withheld \subseteq Candidates

LEMMA TypeParts == TypeOK <=> StoreOK /\ JobsTyped
  BY DEF TypeOK, StoreOK, JobsTyped, Points

(***************************************************************************)
(* Steps that move one job.                                                *)
(***************************************************************************)
LEMMA MoveJob ==
    ASSUME Typed, NEW w \in Jobs, NEW p \in Points, NEW j,
           Goto(w, p, j), CandidatesStay,
           IF p = "idle" THEN j = None ELSE JobOK(j, p),
           p = "update" => candidates'[j.candidate] # None
    PROVE  /\ JobsTyped' /\ JobsOK' /\ UpdatesFound'
           /\ pc'[w] = p /\ job'[w] = j
           /\ \A v \in Jobs \ {w} : pc'[v] = pc[v] /\ job'[v] = job[v]
<1>1. JobsTyped
  BY TypeParts DEF Typed
<1>2. j \in Job \cup {None} /\ (j = None <=> p = "idle")
  BY NoneIsNoRow DEF JobOK
<1>3. /\ pc' \in [Jobs -> Points] /\ job' \in [Jobs -> Job \cup {None}]
      /\ pc'[w] = p /\ job'[w] = j
      /\ \A v \in Jobs \ {w} : pc'[v] = pc[v] /\ job'[v] = job[v]
  BY <1>1, <1>2 DEF Goto, JobsTyped
<1>4. JobsTyped'
  BY <1>1, <1>2, <1>3 DEF JobsTyped
<1>5. ASSUME NEW v \in Jobs, pc'[v] # "idle"
      PROVE  JobOK(job'[v], pc'[v])
  BY <1>3, <1>5 DEF Typed, JobsOK
<1>6. ASSUME NEW v \in Jobs, pc'[v] = "update"
      PROVE  candidates'[job'[v].candidate] # None
  <2>1. CASE v = w
    BY <1>3, <1>6, <2>1
  <2>2. CASE v # w
    <3>1. pc[v] = "update" /\ job'[v] = job[v]
      BY <1>3, <1>6, <2>2
    <3>2. candidates[job[v].candidate] # None /\ job[v].candidate \in Candidates
      BY <3>1 DEF Typed, UpdatesFound, JobsOK, JobOK
    <3>. QED  BY <3>1, <3>2 DEF CandidatesStay
  <2>. QED  BY <2>1, <2>2
<1>. QED  BY <1>3, <1>4, <1>5, <1>6 DEF JobsOK, UpdatesFound

LEMMA EndJob ==
    ASSUME Typed, NEW w \in Jobs, Finish(w), CandidatesStay
    PROVE  /\ JobsTyped' /\ JobsOK' /\ UpdatesFound'
           /\ pc'[w] = "idle" /\ job'[w] = None
           /\ \A v \in Jobs \ {w} : pc'[v] = pc[v] /\ job'[v] = job[v]
  BY MoveJob DEF Finish, Points, Outside

(* Steps that leave the candidates alone.                                  *)
LEMMA CandidatesKept ==
    ASSUME UNCHANGED candidates PROVE CandidatesStay
  BY DEF CandidatesStay

(***************************************************************************)
(* What the steps make of the local variables of a job.                    *)
(***************************************************************************)
LEMMA NewJobFields ==
    ASSUME NEW t \in Triggers, NEW s \in Scopes
    PROVE  /\ NewJob(t, s) \in Job
           /\ NewJob(t, s).scope = s /\ NewJob(t, s).cursor = None
           /\ NewJob(t, s).run = None /\ NewJob(t, s).lease = 0
  BY IngestionConstants DEF NewJob, Job, Cursor, Records, Outcomes

LEMMA DryFields ==
    ASSUME NEW j \in Job, NEW d \in BOOLEAN
    PROVE  /\ [j EXCEPT !.dry = d] \in Job
           /\ [j EXCEPT !.dry = d].scope = j.scope /\ [j EXCEPT !.dry = d].run = j.run
           /\ [j EXCEPT !.dry = d].lease = j.lease /\ [j EXCEPT !.dry = d].cursor = j.cursor
  BY DEF Job

LEMMA LeaseFields ==
    ASSUME NEW j \in Job, NEW r \in Runs
    PROVE  LET k == [j EXCEPT !.run = r, !.lease = Lease]
           IN  /\ k \in Job
               /\ k.scope = j.scope /\ k.cursor = j.cursor /\ k.run = r /\ k.lease = Lease
<1>. DEFINE n == Lease
<1>1. n \in 0 .. Lease
  BY IngestionConstants
<1>. HIDE DEF n
<1>2. LET k == [j EXCEPT !.run = r, !.lease = n]
      IN  /\ k \in Job
          /\ k.scope = j.scope /\ k.cursor = j.cursor /\ k.run = r /\ k.lease = n
  BY <1>1 DEF Job
<1>. QED  BY <1>2 DEF n

LEMMA CursorFields ==
    ASSUME NEW j \in Job, NEW c \in Cursor \cup {None}
    PROVE  /\ [j EXCEPT !.cursor = c] \in Job
           /\ [j EXCEPT !.cursor = c].scope = j.scope /\ [j EXCEPT !.cursor = c].run = j.run
           /\ [j EXCEPT !.cursor = c].lease = j.lease /\ [j EXCEPT !.cursor = c].cursor = c
  BY DEF Job

(* Of a page that is fetched, the records from at to end are ahead.        *)
LEMMA FetchedFields ==
    ASSUME NEW j \in Job, ~Exhausted(j), remote \in [Records -> 0 .. MaxVersion]
    PROVE  /\ Fetched(j) \in Job
           /\ Fetched(j).scope = j.scope /\ Fetched(j).run = j.run
           /\ Fetched(j).lease = j.lease /\ Fetched(j).cursor = j.cursor
           /\ Fetched(j).page = j.page /\ j.page < MaxPages
           /\ Fetched(j).at = OffsetOf(j.cursor) + 1
           /\ Fetched(j).at <= Fetched(j).end + 1
           /\ Fetched(j).next \in {None, Fetched(j).end}
           /\ Fetched(j).seen = remote
<1>. DEFINE limit  == Smaller(PageSize, MaxRecords - j.fetched)
            offset == OffsetOf(j.cursor)
            end    == Smaller(Total, offset + limit)
<1>1. j.fetched \in Nat /\ j.cursor \in Cursor \cup {None} /\ j.page \in 0 .. MaxPages
      /\ j.elapsed \in 0 .. MaxDuration
  BY DEF Job
<1>2. limit \in Nat
  BY <1>1, IngestionConstants DEF Smaller, Exhausted
<1>3. offset \in 0 .. Total
  BY <1>1, IngestionConstants DEF OffsetOf, Cursor
<1>4. end \in 0 .. Total /\ offset <= end /\ (end - offset) \in Nat
  BY <1>2, <1>3, IngestionConstants DEF Smaller
<1>5. j.page < MaxPages
  BY <1>1, IngestionConstants DEF Exhausted
<1>. DEFINE next == IF end - offset = limit THEN end ELSE None
            complete == end - offset < limit
            elapsed == IF j.page = 0 THEN 0 ELSE j.elapsed
            fetched == j.fetched + (end - offset)
<1>6. next \in Cursor \cup {None} /\ next \in {None, end}
  BY <1>4 DEF Cursor
<1>7. complete \in BOOLEAN /\ elapsed \in 0 .. MaxDuration /\ fetched \in Nat
  BY <1>1, <1>4, IngestionConstants
<1>8. offset + 1 \in 0 .. Total + 1 /\ offset + 1 <= end + 1 /\ end \in Cursor
  BY <1>3, <1>4, IngestionConstants DEF Cursor
<1>9. Fetched(j) = [j EXCEPT !.at = offset + 1, !.end = end, !.fetched = fetched,
                             !.complete = complete, !.seen = remote, !.next = next,
                             !.elapsed = elapsed]
  BY DEF Fetched, Job
<1>. HIDE DEF limit, offset, end, next, complete, elapsed, fetched
<1>10. PICK a \in 0 .. Total + 1, e \in Cursor, f \in Nat, c \in BOOLEAN,
            s \in [Records -> 0 .. MaxVersion], n \in Cursor \cup {None},
            t \in 0 .. MaxDuration :
          /\ a = offset + 1 /\ e = end /\ f = fetched /\ c = complete
          /\ s = remote /\ n = next /\ t = elapsed
  BY <1>6, <1>7, <1>8
<1>. DEFINE k == [j EXCEPT !.at = a, !.end = e, !.fetched = f, !.complete = c,
                           !.seen = s, !.next = n, !.elapsed = t]
<1>11. Fetched(j) = k
  BY <1>9, <1>10
<1>12. /\ k \in Job
       /\ k.scope = j.scope /\ k.run = j.run /\ k.lease = j.lease
       /\ k.cursor = j.cursor /\ k.page = j.page
       /\ k.at = a /\ k.end = e /\ k.next = n /\ k.seen = s
  <2>1. /\ a \in 0 .. Total + 1 /\ e \in Cursor /\ f \in Nat /\ c \in BOOLEAN
        /\ s \in [Records -> 0 .. MaxVersion] /\ n \in Cursor \cup {None}
        /\ t \in 0 .. MaxDuration
    BY <1>10
  <2>. QED  BY <2>1 DEF Job
<1>. HIDE DEF k
<1>. QED  BY <1>5, <1>6, <1>8, <1>10, <1>11, <1>12 DEF offset

(* While a record is handled, only its candidate and outcome are set, and  *)
(* failures are counted.                                                   *)
SameRecord(j, k) ==
    /\ k \in Job
    /\ k.scope = j.scope /\ k.run = j.run /\ k.lease = j.lease /\ k.cursor = j.cursor
    /\ k.page = j.page /\ k.at = j.at /\ k.end = j.end /\ k.next = j.next /\ k.seen = j.seen

LEMMA FailedFields ==
    ASSUME NEW j \in Job
    PROVE  LET k == [j EXCEPT !.outcome = "failed", !.failures = @ + 1]
           IN  SameRecord(j, k) /\ k.outcome = "failed"
<1>. DEFINE n == j.failures + 1
<1>1. n \in Nat
  BY DEF Job
<1>. HIDE DEF n
<1>2. LET k == [j EXCEPT !.outcome = "failed", !.failures = n]
      IN  SameRecord(j, k) /\ k.outcome = "failed"
  BY <1>1 DEF Job, SameRecord, Outcomes
<1>. QED  BY <1>2 DEF n

LEMMA CandidateFields ==
    ASSUME NEW j \in Job, NEW c \in Candidates \cup {None}
    PROVE  LET k == [j EXCEPT !.candidate = c]
           IN  SameRecord(j, k) /\ k.candidate = c /\ k.outcome = j.outcome
  BY DEF Job, SameRecord

LEMMA OutcomeFields ==
    ASSUME NEW j \in Job, NEW o \in Outcomes
    PROVE  LET k == [j EXCEPT !.outcome = o]
           IN  SameRecord(j, k) /\ k.candidate = j.candidate /\ k.outcome = o
  BY DEF Job, SameRecord

LEMMA CreatedFields ==
    ASSUME NEW j \in Job, NEW c \in Candidates
    PROVE  LET k == [j EXCEPT !.candidate = c, !.outcome = "created"]
           IN  SameRecord(j, k) /\ k.candidate = c /\ k.outcome = "created"
  BY DEF Job, SameRecord, Outcomes

LEMMA NextRecordFields ==
    ASSUME NEW j \in Job, j.at \in Records
    PROVE  LET k == [j EXCEPT !.at = @ + 1, !.candidate = None, !.outcome = None]
           IN  /\ k \in Job
               /\ k.scope = j.scope /\ k.run = j.run /\ k.lease = j.lease /\ k.cursor = j.cursor
               /\ k.page = j.page /\ k.end = j.end /\ k.next = j.next /\ k.seen = j.seen
               /\ k.at = j.at + 1
<1>. DEFINE n == j.at + 1
<1>1. n \in 0 .. Total + 1
  BY IngestionConstants DEF Records
<1>. HIDE DEF n
<1>2. LET k == [j EXCEPT !.at = n, !.candidate = None, !.outcome = None]
      IN  /\ k \in Job
          /\ k.scope = j.scope /\ k.run = j.run /\ k.lease = j.lease /\ k.cursor = j.cursor
          /\ k.page = j.page /\ k.end = j.end /\ k.next = j.next /\ k.seen = j.seen
          /\ k.at = n
  BY <1>1 DEF Job
<1>. QED  BY <1>2 DEF n

LEMMA NextPageFields ==
    ASSUME NEW j \in Job, j.page < MaxPages
    PROVE  LET k == [j EXCEPT !.cursor = j.next, !.page = @ + 1]
           IN  /\ k \in Job
               /\ k.scope = j.scope /\ k.run = j.run /\ k.lease = j.lease
               /\ k.next = j.next /\ k.cursor = j.next
<1>. DEFINE n == j.page + 1
<1>1. n \in 0 .. MaxPages
  BY IngestionConstants DEF Job
<1>. HIDE DEF n
<1>2. LET k == [j EXCEPT !.cursor = j.next, !.page = n]
      IN  /\ k \in Job
          /\ k.scope = j.scope /\ k.run = j.run /\ k.lease = j.lease
          /\ k.next = j.next /\ k.cursor = j.next
  BY <1>1 DEF Job
<1>. QED  BY <1>2 DEF n

(***************************************************************************)
(* Steps of jobs.  A step keeps the type invariant and leaves the other    *)
(* jobs where they are.  Most steps also keep what the job got from its    *)
(* lease and its checkpoint, and the record it is at.                      *)
(***************************************************************************)
Others(w) == \A v \in Jobs \ {w} : pc'[v] = pc[v] /\ job'[v] = job[v]

AtWork == Working \cup Entering \cup Ending

Keeps(w) ==
    pc'[w] # "idle" =>
        /\ pc[w] # "idle"
        /\ pc'[w] \in AtWork => pc[w] \in AtWork
        /\ job'[w].scope = job[w].scope /\ job'[w].run = job[w].run
        /\ job'[w].lease = job[w].lease /\ job'[w].cursor = job[w].cursor
        /\ pc'[w] \in Reading =>
              /\ pc[w] \in Reading
              /\ job'[w].at = job[w].at /\ job'[w].seen = job[w].seen

LEMMA StoreKept ==
    ASSUME StoreOK,
           UNCHANGED <<remote, config, locks, checkpoints, rowVars, runVars, faults, late>>
    PROVE  StoreOK'
  BY DEF StoreOK, rowVars, runVars

(* A job goes on with the same local variables, or with the same record.   *)
LEMMA GoOn ==
    ASSUME Typed, NEW w \in Jobs, NEW p \in Points \ {"idle"}, pc[w] # "idle",
           Goto(w, p, job[w]), CandidatesStay, JobOK(job[w], p), p # "update",
           p \in AtWork => pc[w] \in AtWork, p \in Reading => pc[w] \in Reading
    PROVE  JobsTyped' /\ JobsOK' /\ UpdatesFound' /\ Others(w) /\ Keeps(w)
           /\ pc'[w] = p /\ job'[w] = job[w]
<1>1. /\ JobsTyped' /\ JobsOK' /\ UpdatesFound' /\ pc'[w] = p /\ job'[w] = job[w]
      /\ Others(w)
  BY MoveJob DEF Others
<1>. QED  BY <1>1 DEF Keeps

LEMMA GoOnWithRecord ==
    ASSUME Typed, NEW w \in Jobs, NEW p \in {"insert", "load", "save", "outcome"}, NEW j,
           Goto(w, p, j), CandidatesStay, pc[w] \in Handling \cup {"outcome"},
           SameRecord(job[w], j),
           p \in {"load", "save"} => j.candidate \in Candidates,
           p # "insert" => j.outcome \in Outcomes
    PROVE  JobsTyped' /\ JobsOK' /\ UpdatesFound' /\ Others(w) /\ Keeps(w)
           /\ pc'[w] = p /\ job'[w] = j
<1>1. JobOK(job[w], pc[w]) /\ pc[w] # "idle" /\ pc[w] \in Reading \cap AtWork
  BY DEF Typed, JobsOK, Handling, Reading, AtWork, Working
<1>2. JobOK(j, p) /\ p \in Points \ {"idle"} /\ p # "update"
  BY <1>1 DEF JobOK, SameRecord, Handling, Reading, Outside, Points, Working
<1>3. /\ JobsTyped' /\ JobsOK' /\ UpdatesFound' /\ pc'[w] = p /\ job'[w] = j
      /\ Others(w)
  BY <1>2, MoveJob DEF Others
<1>. QED  BY <1>1, <1>3 DEF Keeps, SameRecord

LEMMA EndStep ==
    ASSUME Typed, NEW w \in Jobs, Finish(w), CandidatesStay
    PROVE  JobsTyped' /\ JobsOK' /\ UpdatesFound' /\ Others(w) /\ Keeps(w)
           /\ pc'[w] = "idle" /\ job'[w] = None
  BY EndJob DEF Others, Keeps

LEMMA FailStep ==
    ASSUME Typed, NEW w \in Jobs, FailRecord(w), CandidatesStay,
           pc[w] \in Handling \cup {"outcome"}
    PROVE  JobsTyped' /\ JobsOK' /\ UpdatesFound' /\ Others(w) /\ Keeps(w)
           /\ pc'[w] = "outcome" /\ job'[w].outcome = "failed"
<1>1. JobOK(job[w], pc[w])
  BY DEF Typed, JobsOK, Handling
<1>. DEFINE k == [job[w] EXCEPT !.outcome = "failed", !.failures = @ + 1]
<1>2. SameRecord(job[w], k) /\ k.outcome = "failed"
  BY <1>1, FailedFields DEF JobOK
<1>3. Goto(w, "outcome", k)
  BY DEF FailRecord
<1>. HIDE DEF k
<1>. QED  BY <1>2, <1>3, GoOnWithRecord DEF Outcomes

(* What any busy or waiting job has.                                       *)
LEMMA JobAt ==
    ASSUME Typed, NEW w \in Jobs, pc[w] # "idle"
    PROVE  /\ JobOK(job[w], pc[w]) /\ job[w] \in Job /\ job[w] # None
           /\ job[w].scope \in Scopes /\ pc[w] \in Points
  BY NoneIsNoRow DEF Typed, JobsOK, JobOK, Job, TypeOK, Points

LEMMA StoreAt ==
    ASSUME Typed PROVE StoreOK
  BY TypeParts DEF Typed

LEMMA TypedNext ==
    ASSUME StoreOK', JobsTyped', JobsOK', UpdatesFound'
    PROVE  Typed'
  BY DEF Typed, TypeOK, StoreOK, JobsTyped, Points

LEMMA ArriveStep ==
    ASSUME Typed, NEW w \in Jobs, Arrive(w)
    PROVE  Typed' /\ Others(w) /\ pc'[w] = "configure" /\ job'[w].cursor = None
<1>1. PICK t \in Triggers, s \in Scopes : Goto(w, "configure", NewJob(t, s))
  BY DEF Arrive
<1>2. JobOK(NewJob(t, s), "configure") /\ NewJob(t, s).cursor = None
  BY NewJobFields DEF JobOK, Outside, Reading, Handling
<1>3. CandidatesStay
  BY CandidatesKept DEF Arrive, rowVars
<1>4. /\ JobsTyped' /\ JobsOK' /\ UpdatesFound' /\ Others(w)
      /\ pc'[w] = "configure" /\ job'[w] = NewJob(t, s)
  BY <1>1, <1>2, <1>3, MoveJob DEF Others, Points, Outside
<1>5. StoreOK'
  BY StoreAt, StoreKept DEF Arrive
<1>. QED  BY <1>2, <1>4, <1>5, TypedNext

LEMMA ReadConfigurationStep ==
    ASSUME Typed, NEW w \in Jobs, ReadConfiguration(w)
    PROVE  Typed' /\ Others(w) /\ Keeps(w)
<1>1. pc[w] = "configure" /\ CandidatesStay
  BY CandidatesKept DEF ReadConfiguration, rowVars
<1>2. StoreOK'
  BY StoreAt, StoreKept DEF ReadConfiguration
<1>3. CASE Ready
  <2>. DEFINE d == job[w].trigger = "preview" \/ ~config.writes
              k == [job[w] EXCEPT !.dry = d]
  <2>1. d \in BOOLEAN
    OBVIOUS
  <2>2. Goto(w, "acquire", k)
    BY <1>1, <1>3 DEF ReadConfiguration
  <2>. HIDE DEF d
  <2>3. k \in Job /\ k.scope = job[w].scope /\ k.run = job[w].run
        /\ k.lease = job[w].lease /\ k.cursor = job[w].cursor
    BY <1>1, <2>1, JobAt, DryFields
  <2>. HIDE DEF k
  <2>4. JobOK(k, "acquire")
    BY <2>3 DEF JobOK, Outside, Reading, Handling
  <2>5. /\ JobsTyped' /\ JobsOK' /\ UpdatesFound' /\ Others(w)
        /\ pc'[w] = "acquire" /\ job'[w] = k
    BY <1>1, <2>2, <2>4, MoveJob DEF Others, Points, Outside
  <2>6. Keeps(w)
    BY <1>1, <2>3, <2>5 DEF Keeps, Reading, Handling, AtWork, Working, Entering, Ending
  <2>. QED  BY <1>2, <2>5, <2>6, TypedNext
<1>4. CASE ~Ready
  BY <1>1, <1>2, <1>4, EndStep, TypedNext DEF ReadConfiguration
<1>. QED  BY <1>3, <1>4

(* The lease is taken with an identifier that no lock and no job has.      *)
LEMMA AcquireStep ==
    ASSUME Typed, NEW w \in Jobs, Acquire(w)
    PROVE  /\ Typed' /\ Others(w)
           /\ \/ pc'[w] = "idle" /\ UNCHANGED locks
              \/ \E r \in Runs :
                    /\ Unused(r) /\ Free(job[w].scope) /\ TakeLock(job[w].scope, r)
                    /\ pc'[w] = "confirm" /\ pc[w] = "acquire"
                    /\ job'[w].scope = job[w].scope /\ job'[w].cursor = job[w].cursor
                    /\ job'[w].run = r /\ job'[w].lease = Lease
<1>1. pc[w] = "acquire" /\ CandidatesStay /\ StoreOK
  BY CandidatesKept, StoreAt DEF Acquire, rowVars
<1>2. CASE Free(job[w].scope)
  <2>1. PICK r \in Runs :
           /\ Unused(r) /\ TakeLock(job[w].scope, r)
           /\ Goto(w, "confirm", [job[w] EXCEPT !.run = r, !.lease = Lease])
    BY <1>2 DEF Acquire
  <2>. DEFINE k == [job[w] EXCEPT !.run = r, !.lease = Lease]
  <2>2. k \in Job /\ k.scope = job[w].scope /\ k.cursor = job[w].cursor
        /\ k.run = r /\ k.lease = Lease
    BY <1>1, JobAt, LeaseFields
  <2>3. Goto(w, "confirm", k)
    BY <2>1
  <2>. HIDE DEF k
  <2>4. JobOK(k, "confirm")
    BY <2>2 DEF JobOK, Reading, Handling
  <2>5. /\ JobsTyped' /\ JobsOK' /\ UpdatesFound' /\ Others(w)
        /\ pc'[w] = "confirm" /\ job'[w] = k
    BY <1>1, <2>3, <2>4, MoveJob DEF Others, Points, Entering
  <2>6. [run |-> r, left |-> Lease] \in Lock
    BY IngestionConstants DEF Lock
  <2>7. locks' \in [Scopes -> Lock \cup {None}]
    BY <1>1, <2>1, <2>6 DEF TakeLock, StoreOK
  <2>8. StoreOK'
    BY <1>1, <2>7 DEF Acquire, StoreOK, rowVars, runVars
  <2>. QED  BY <1>1, <1>2, <2>1, <2>2, <2>5, <2>8, TypedNext
<1>3. CASE ~Free(job[w].scope)
  <2>1. Finish(w) /\ UNCHANGED locks
    BY <1>3 DEF Acquire
  <2>2. StoreOK'
    BY <1>1, <2>1, StoreKept DEF Acquire
  <2>. QED  BY <1>1, <2>1, <2>2, EndStep, TypedNext
<1>. QED  BY <1>2, <1>3

LEMMA ConfirmStep ==
    ASSUME Typed, NEW w \in Jobs, Confirm(w)
    PROVE  Typed' /\ Others(w) /\ Keeps(w)
<1>1. /\ pc[w] = "confirm" /\ CandidatesStay /\ StoreOK'
      /\ Finish(w) \/ Goto(w, "checkpoint", job[w])
  BY CandidatesKept, StoreAt, StoreKept DEF Confirm, rowVars
<1>2. CASE Finish(w)
  BY <1>1, <1>2, EndStep, TypedNext
<1>3. CASE Goto(w, "checkpoint", job[w])
  <2>1. JobOK(job[w], "checkpoint")
    BY <1>1, JobAt DEF JobOK, Outside, Reading, Handling
  <2>2. "checkpoint" \in Points \ {"idle"} /\ "checkpoint" \notin Reading
        /\ "confirm" \in AtWork
    BY DEF Points, Entering, Reading, Handling, AtWork
  <2>. QED  BY <1>1, <1>3, <2>1, <2>2, GoOn, TypedNext
<1>. QED  BY <1>1, <1>2, <1>3

LEMMA ReadCheckpointStep ==
    ASSUME Typed, NEW w \in Jobs, ReadCheckpoint(w)
    PROVE  /\ Typed' /\ Others(w) /\ pc[w] = "checkpoint" /\ pc'[w] = "create"
           /\ job'[w].scope = job[w].scope /\ job'[w].run = job[w].run
           /\ job'[w].lease = job[w].lease /\ job'[w].cursor = CursorOf(job[w].scope)
<1>1. pc[w] = "checkpoint" /\ CandidatesStay /\ StoreOK /\ StoreOK'
  BY CandidatesKept, StoreAt, StoreKept DEF ReadCheckpoint, rowVars
<1>. DEFINE c == CursorOf(job[w].scope)
            k == [job[w] EXCEPT !.cursor = c]
<1>2. Goto(w, "create", k)
  BY DEF ReadCheckpoint
<1>3. c \in Cursor \cup {None}
  BY <1>1, JobAt DEF CursorOf, StoreOK, Checkpoint
<1>. HIDE DEF c
<1>4. k \in Job /\ k.scope = job[w].scope /\ k.run = job[w].run
      /\ k.lease = job[w].lease /\ k.cursor = c
  BY <1>1, <1>3, JobAt, CursorFields
<1>. HIDE DEF k
<1>5. JobOK(k, "create")
  BY <1>1, <1>4, JobAt DEF JobOK, Outside, Reading, Handling
<1>6. /\ JobsTyped' /\ JobsOK' /\ UpdatesFound' /\ Others(w)
      /\ pc'[w] = "create" /\ job'[w] = k
  BY <1>1, <1>2, <1>5, MoveJob DEF Others, Points, Entering
<1>. QED  BY <1>1, <1>4, <1>6, TypedNext DEF c

(* A run gets a status; the job goes on.                                   *)
LEMMA RunStep ==
    ASSUME Typed, NEW w \in Jobs, NEW p \in {"running", "page", "release"},
           NEW status \in RunStatuses,
           SetRun(w, status), Goto(w, p, job[w]), pc[w] \in AtWork, pc[w] \notin Outside,
           UNCHANGED <<remote, config, locks, checkpoints, rowVars, outcomes, faults, late>>
    PROVE  Typed' /\ Others(w) /\ Keeps(w)
<1>1. pc[w] # "idle" /\ CandidatesStay /\ StoreOK
  BY CandidatesKept, StoreAt DEF rowVars, Outside
<1>2. job[w].run \in Runs
  BY <1>1, JobAt DEF JobOK
<1>3. StoreOK'
  BY <1>1, <1>2 DEF SetRun, StoreOK, rowVars
<1>4. JobOK(job[w], p) /\ p \in Points \ {"idle"} /\ p \notin Reading /\ p # "update"
  BY <1>1, <1>2, JobAt
     DEF JobOK, Outside, Reading, Handling, Points, Entering, Working, Ending
<1>. QED  BY <1>1, <1>3, <1>4, GoOn, TypedNext

LEMMA CreateRunStep ==
    ASSUME Typed, NEW w \in Jobs, CreateRun(w)
    PROVE  Typed' /\ Others(w) /\ Keeps(w)
<1>1. SetRun(w, "pending") /\ pc[w] = "create" /\ Goto(w, "running", job[w])
  BY DEF CreateRun, NewRun, SetRun
<1>. QED  BY <1>1, RunStep DEF CreateRun, RunStatuses, AtWork, Entering, Outside

LEMMA MarkRunningStep ==
    ASSUME Typed, NEW w \in Jobs, MarkRunning(w)
    PROVE  Typed' /\ Others(w) /\ Keeps(w)
<1>1. SetRun(w, "running") /\ pc[w] = "running" /\ Goto(w, "page", job[w])
  BY DEF MarkRunning
<1>. QED  BY <1>1, RunStep DEF MarkRunning, RunStatuses, AtWork, Entering, Outside

LEMMA MarkCompletedStep ==
    ASSUME Typed, NEW w \in Jobs, MarkCompleted(w)
    PROVE  Typed' /\ Others(w) /\ Keeps(w)
<1>1. /\ SetRun(w, Completed(job[w])) /\ pc[w] = "complete" /\ Goto(w, "release", job[w])
      /\ Completed(job[w]) \in RunStatuses
  BY DEF MarkCompleted, Completed, RunStatuses
<1>. QED  BY <1>1, RunStep DEF MarkCompleted, AtWork, Working, Outside

LEMMA MarkFailedStep ==
    ASSUME Typed, NEW w \in Jobs, MarkFailed(w)
    PROVE  Typed' /\ Others(w) /\ Keeps(w)
<1>1. SetRun(w, "failed") /\ pc[w] = "failed" /\ Goto(w, "release", job[w])
  BY DEF MarkFailed
<1>. QED  BY <1>1, RunStep DEF MarkFailed, RunStatuses, AtWork, Ending, Outside

(* The job stands at the first record of the page, or after its last one.  *)
LEMMA AtRecordOK ==
    ASSUME NEW j \in Job, j.run \in Runs, j.page < MaxPages,
           j.next \in {None, j.end}, j.at <= j.end + 1, j.at >= 1
    PROVE  JobOK(j, AtRecord(j)) /\ AtRecord(j) \in {"lookup", "success"}
<1>1. j.at \in 0 .. Total + 1 /\ j.end \in 0 .. Total
  BY DEF Job, Cursor
<1>2. CASE j.at <= j.end
  BY <1>1, <1>2, IngestionConstants
     DEF AtRecord, JobOK, Outside, Reading, Handling, Records
<1>3. CASE ~(j.at <= j.end)
  BY <1>1, <1>3, IngestionConstants DEF AtRecord, JobOK, Outside, Reading, Handling
<1>. QED  BY <1>2, <1>3

LEMMA NextPageStep ==
    ASSUME Typed, NEW w \in Jobs, NextPage(w)
    PROVE  /\ Typed' /\ Others(w) /\ pc[w] = "page"
           /\ job'[w].scope = job[w].scope /\ job'[w].run = job[w].run
           /\ job'[w].lease = job[w].lease /\ job'[w].cursor = job[w].cursor
           /\ \/ pc'[w] = "complete"
              \/ /\ pc'[w] \in {"lookup", "success"}
                 /\ job'[w].at = OffsetOf(job[w].cursor) + 1 /\ job'[w].seen = remote
<1>1. pc[w] = "page" /\ CandidatesStay /\ StoreOK /\ StoreOK'
  BY CandidatesKept, StoreAt, StoreKept DEF NextPage, rowVars
<1>2. JobOK(job[w], "page") /\ job[w] \in Job /\ job[w].run \in Runs
  BY <1>1, JobAt DEF JobOK, Outside
<1>3. CASE Exhausted(job[w])
  <2>1. Goto(w, "complete", job[w])
    BY <1>3 DEF NextPage
  <2>2. JobOK(job[w], "complete") /\ "complete" \in Points \ {"idle"}
        /\ "complete" \notin Reading /\ "page" \in AtWork
    BY <1>2 DEF JobOK, Outside, Reading, Handling, Points, Working, AtWork
  <2>. QED  BY <1>1, <2>1, <2>2, GoOn, TypedNext
<1>4. CASE ~Exhausted(job[w])
  <2>. DEFINE k == Fetched(job[w])
  <2>1. Goto(w, AtRecord(k), k)
    BY <1>4 DEF NextPage
  <2>2. /\ k \in Job /\ k.scope = job[w].scope /\ k.run = job[w].run
        /\ k.lease = job[w].lease /\ k.cursor = job[w].cursor /\ k.page < MaxPages
        /\ k.at = OffsetOf(job[w].cursor) + 1 /\ k.at <= k.end + 1
        /\ k.next \in {None, k.end} /\ k.seen = remote
    BY <1>1, <1>2, <1>4, FetchedFields DEF StoreOK
  <2>3. OffsetOf(job[w].cursor) \in Nat
    BY <1>2, IngestionConstants DEF OffsetOf, Job, Cursor
  <2>. HIDE DEF k
  <2>4. JobOK(k, AtRecord(k)) /\ AtRecord(k) \in {"lookup", "success"}
    BY <1>2, <2>2, <2>3, AtRecordOK
  <2>5. /\ JobsTyped' /\ JobsOK' /\ UpdatesFound' /\ Others(w)
        /\ pc'[w] = AtRecord(k) /\ job'[w] = k
    BY <1>1, <2>1, <2>4, MoveJob DEF Others, Points, Working, Handling
  <2>. QED  BY <1>1, <2>2, <2>4, <2>5, TypedNext
<1>. QED  BY <1>3, <1>4

(* A record is looked up: it fails, it is previewed, it is new, or it is   *)
(* known and its candidate is read next.                                   *)
LEMMA LookupStep ==
    ASSUME Typed, NEW w \in Jobs, Lookup(w)
    PROVE  /\ Typed' /\ Others(w) /\ Keeps(w) /\ pc[w] = "lookup"
           /\ \/ pc'[w] = "outcome" /\ job'[w].outcome \in {"failed", "previewed"}
              \/ pc'[w] = "insert" /\ provenance[job[w].at] = None
              \/ /\ pc'[w] = "load" /\ provenance[job[w].at] # None
                 /\ job'[w].candidate = provenance[job[w].at].candidate
                 /\ job'[w].outcome = "duplicate" =>
                       provenance[job[w].at].version = job[w].seen[job[w].at]
<1>. DEFINE r == job[w].at
            c == IF provenance[r] = None THEN None ELSE provenance[r].candidate
            k == [job[w] EXCEPT !.candidate = c]
<1>1. pc[w] = "lookup" /\ CandidatesStay /\ StoreOK /\ StoreOK' /\ pc[w] \in Handling
  BY CandidatesKept, StoreAt, StoreKept DEF Lookup, rowVars, Handling
<1>2. job[w] \in Job /\ r \in Records
  BY <1>1, JobAt DEF JobOK
<1>3. /\ c \in Candidates \cup {None}
      /\ provenance[r] # None => c = provenance[r].candidate /\ c \in Candidates
  BY <1>1, <1>2 DEF StoreOK, Provenance
<1>4. \/ FailRecord(w)
      \/ Goto(w, "outcome", With(k, "previewed"))
      \/ provenance[r] = None /\ Goto(w, "insert", k)
      \/ /\ provenance[r] # None /\ provenance[r].version = Seen(w)
         /\ Goto(w, "load", With(k, "duplicate"))
      \/ provenance[r] # None /\ Goto(w, "load", With(k, "updated"))
  BY DEF Lookup
<1>. HIDE DEF c
<1>5. SameRecord(job[w], k) /\ k.candidate = c
  BY <1>2, <1>3, CandidateFields
<1>. HIDE DEF k
<1>6. ASSUME NEW o \in Outcomes
      PROVE  SameRecord(job[w], With(k, o)) /\ With(k, o).candidate = c
             /\ With(k, o).outcome = o
  <2>1. SameRecord(k, With(k, o)) /\ With(k, o).candidate = c /\ With(k, o).outcome = o
    BY <1>5, OutcomeFields DEF SameRecord, With
  <2>. QED  BY <1>5, <2>1 DEF SameRecord
<1>7. CASE FailRecord(w)
  BY <1>1, <1>7, FailStep, TypedNext
<1>8. CASE Goto(w, "outcome", With(k, "previewed"))
  <2>1. "previewed" \in Outcomes
    BY DEF Outcomes
  <2>. QED  BY <1>1, <1>6, <1>8, <2>1, GoOnWithRecord, TypedNext
<1>9. CASE provenance[r] = None /\ Goto(w, "insert", k)
  BY <1>1, <1>5, <1>9, GoOnWithRecord, TypedNext
<1>10. CASE /\ provenance[r] # None /\ provenance[r].version = Seen(w)
            /\ Goto(w, "load", With(k, "duplicate"))
  <2>1. "duplicate" \in Outcomes
    BY DEF Outcomes
  <2>. QED  BY <1>1, <1>3, <1>6, <1>10, <2>1, GoOnWithRecord, TypedNext DEF Seen
<1>11. CASE provenance[r] # None /\ Goto(w, "load", With(k, "updated"))
  <2>1. "updated" \in Outcomes
    BY DEF Outcomes
  <2>. QED  BY <1>1, <1>3, <1>6, <1>11, <2>1, GoOnWithRecord, TypedNext
<1>. QED  BY <1>4, <1>7, <1>8, <1>9, <1>10, <1>11

LEMMA LoadCandidateStep ==
    ASSUME Typed, NEW w \in Jobs, LoadCandidate(w)
    PROVE  /\ Typed' /\ Others(w) /\ Keeps(w) /\ pc[w] = "load"
           /\ \/ pc'[w] = "outcome" /\ job'[w].outcome = "failed"
              \/ /\ pc'[w] = "save" /\ job'[w] = job[w] /\ job[w].outcome = "duplicate"
                 /\ candidates[job[w].candidate] # None
              \/ /\ pc'[w] = "update" /\ job'[w] = job[w]
<1>1. pc[w] = "load" /\ CandidatesStay /\ StoreOK /\ StoreOK' /\ pc[w] \in Handling
      /\ UNCHANGED candidates
  BY CandidatesKept, StoreAt, StoreKept DEF LoadCandidate, rowVars, Handling
<1>2. JobOK(job[w], "load")
  BY <1>1, JobAt
<1>3. CASE FailRecord(w)
  BY <1>1, <1>3, FailStep, TypedNext
<1>4. CASE /\ candidates[job[w].candidate] # None /\ job[w].outcome = "duplicate"
           /\ Goto(w, "save", job[w])
  <2>1. /\ SameRecord(job[w], job[w]) /\ job[w].candidate \in Candidates
        /\ job[w].outcome \in Outcomes
    BY <1>2 DEF SameRecord, JobOK
  <2>. QED  BY <1>1, <1>4, <2>1, GoOnWithRecord, TypedNext
<1>5. CASE candidates[job[w].candidate] # None /\ Goto(w, "update", job[w])
  <2>1. JobOK(job[w], "update") /\ "update" \in Points
    BY <1>2 DEF JobOK, Outside, Reading, Handling, Points, Working
  <2>2. candidates'[job[w].candidate] # None
    BY <1>1, <1>5
  <2>3. /\ JobsTyped' /\ JobsOK' /\ UpdatesFound' /\ Others(w)
        /\ pc'[w] = "update" /\ job'[w] = job[w]
    BY <1>1, <1>5, <2>1, <2>2, MoveJob DEF Others
  <2>4. Keeps(w)
    BY <1>1, <2>3 DEF Keeps, AtWork, Working, Reading, Handling
  <2>. QED  BY <1>1, <2>3, <2>4, TypedNext
<1>. QED  BY <1>1, <1>3, <1>4, <1>5 DEF LoadCandidate

LEMMA VersionFields ==
    ASSUME NEW c \in Candidate, NEW v \in 0 .. MaxVersion
    PROVE  LET k == [c EXCEPT !.version = v]
           IN  k \in Candidate /\ k.record = c.record /\ k.status = c.status /\ k.version = v
  BY DEF Candidate

LEMMA UpdateCandidateStep ==
    ASSUME Typed, NEW w \in Jobs, UpdateCandidate(w)
    PROVE  LET c == job[w].candidate IN
           /\ Typed' /\ Others(w) /\ Keeps(w) /\ CandidatesStay /\ pc[w] = "update"
           /\ c \in Candidates /\ candidates[c] # None
           /\ \/ /\ pc'[w] = "outcome" /\ job'[w].outcome = "failed"
                 /\ UNCHANGED <<candidates, withheld>>
              \/ /\ pc'[w] = "save" /\ job'[w] = job[w]
                 /\ ~Undecided(c) /\ UNCHANGED candidates
                 /\ withheld' = IF Missed(c, Seen(w)) THEN withheld \cup {c} ELSE withheld
              \/ /\ pc'[w] = "save" /\ job'[w] = job[w] /\ Undecided(c)
                 /\ candidates' = [candidates EXCEPT ![c] =
                                     [candidates[c] EXCEPT !.version = Seen(w)]]
                 /\ withheld' = withheld \ {c}
<1>. DEFINE c == job[w].candidate
<1>1. pc[w] = "update" /\ StoreOK /\ pc[w] \in Handling
  BY StoreAt DEF UpdateCandidate, Handling
<1>2. JobOK(job[w], "update") /\ c \in Candidates /\ candidates[c] # None
      /\ job[w].at \in Records /\ Seen(w) \in 0 .. MaxVersion
  BY <1>1, JobAt DEF JobOK, Typed, UpdatesFound, Seen, Job, Handling
<1>3. SameRecord(job[w], job[w]) /\ job[w].outcome \in Outcomes
  BY <1>2 DEF SameRecord, JobOK
<1>4. CASE FailRecord(w) /\ UNCHANGED <<candidates, withheld>>
  <2>1. StoreOK' /\ CandidatesStay
    BY <1>1, <1>4, StoreKept, CandidatesKept DEF UpdateCandidate, rowVars
  <2>. QED  BY <1>1, <1>2, <1>4, <2>1, FailStep, TypedNext
<1>5. CASE /\ ~Undecided(c) /\ Goto(w, "save", job[w]) /\ UNCHANGED candidates
           /\ withheld' = IF Missed(c, Seen(w)) THEN withheld \cup {c} ELSE withheld
  <2>1. withheld' \subseteq Candidates /\ CandidatesStay
    BY <1>1, <1>2, <1>5, CandidatesKept DEF StoreOK
  <2>2. StoreOK'
    BY <1>1, <1>5, <2>1 DEF UpdateCandidate, StoreOK, runVars
  <2>. QED  BY <1>1, <1>2, <1>3, <1>5, <2>1, <2>2, GoOnWithRecord, TypedNext
<1>6. CASE /\ Undecided(c) /\ Goto(w, "save", job[w]) /\ withheld' = withheld \ {c}
           /\ candidates' = [candidates EXCEPT ![c].version = Seen(w)]
  <2>. DEFINE k == [candidates[c] EXCEPT !.version = Seen(w)]
  <2>1. k \in Candidate
    BY <1>1, <1>2, VersionFields DEF StoreOK
  <2>2. candidates' = [candidates EXCEPT ![c] = k]
    BY <1>6
  <2>. HIDE DEF k
  <2>3. candidates' \in [Candidates -> Candidate \cup {None}] /\ CandidatesStay
    BY <1>1, <1>2, <2>1, <2>2, NoneIsNoRow DEF StoreOK, CandidatesStay
  <2>4. StoreOK'
    BY <1>1, <1>6, <2>3 DEF UpdateCandidate, StoreOK, runVars
  <2>5. Typed' /\ Others(w) /\ Keeps(w) /\ pc'[w] = "save" /\ job'[w] = job[w]
    BY <1>1, <1>2, <1>3, <1>6, <2>3, <2>4, GoOnWithRecord, TypedNext
  <2>. QED  BY <1>1, <1>2, <1>6, <2>2, <2>3, <2>5 DEF k
<1>7. \/ FailRecord(w) /\ UNCHANGED <<candidates, withheld>>
      \/ /\ ~Undecided(c) /\ Goto(w, "save", job[w]) /\ UNCHANGED candidates
         /\ withheld' = IF Missed(c, Seen(w)) THEN withheld \cup {c} ELSE withheld
      \/ /\ Undecided(c) /\ Goto(w, "save", job[w]) /\ withheld' = withheld \ {c}
         /\ candidates' = [candidates EXCEPT ![c].version = Seen(w)]
  BY DEF UpdateCandidate
<1>. QED  BY <1>4, <1>5, <1>6, <1>7

LEMMA CreateCandidateStep ==
    ASSUME Typed, NEW w \in Jobs, CreateCandidate(w)
    PROVE  /\ Typed' /\ Others(w) /\ Keeps(w) /\ CandidatesStay /\ pc[w] = "insert"
           /\ \/ pc'[w] = "outcome" /\ job'[w].outcome = "failed" /\ UNCHANGED candidates
              \/ \E c \in Candidates :
                    /\ candidates[c] = None /\ pc'[w] = "save" /\ job'[w].candidate = c
                    /\ candidates' = [candidates EXCEPT ![c] =
                                        NewCandidate(job[w].at, Seen(w))]
<1>1. pc[w] = "insert" /\ StoreOK /\ pc[w] \in Handling
  BY StoreAt DEF CreateCandidate, Handling
<1>2. /\ JobOK(job[w], "insert") /\ job[w] \in Job
      /\ job[w].at \in Records /\ Seen(w) \in 0 .. MaxVersion
  BY <1>1, JobAt DEF JobOK, Seen, Job, Handling
<1>3. ASSUME NEW c \in Candidates, candidates[c] = None,
             candidates' = [candidates EXCEPT ![c] = NewCandidate(job[w].at, Seen(w))],
             Goto(w, "save", [job[w] EXCEPT !.candidate = c, !.outcome = "created"])
      PROVE  /\ Typed' /\ Others(w) /\ Keeps(w) /\ CandidatesStay
             /\ pc'[w] = "save" /\ job'[w].candidate = c
  <2>. DEFINE k == [job[w] EXCEPT !.candidate = c, !.outcome = "created"]
              n == NewCandidate(job[w].at, Seen(w))
  <2>1. SameRecord(job[w], k) /\ k.candidate = c /\ k.outcome \in Outcomes
    BY <1>2, CreatedFields DEF Outcomes
  <2>2. n \in Candidate
    BY <1>2 DEF NewCandidate, Candidate, ReviewStatuses
  <2>3. candidates' = [candidates EXCEPT ![c] = n] /\ Goto(w, "save", k)
    BY <1>3
  <2>. HIDE DEF k, n
  <2>4. candidates' \in [Candidates -> Candidate \cup {None}] /\ CandidatesStay
    BY <1>1, <2>2, <2>3, NoneIsNoRow DEF StoreOK, CandidatesStay
  <2>5. StoreOK'
    BY <1>1, <2>4 DEF CreateCandidate, StoreOK, runVars
  <2>. QED  BY <1>1, <2>1, <2>3, <2>4, <2>5, GoOnWithRecord, TypedNext
<1>4. \/ FailRecord(w) /\ UNCHANGED candidates
      \/ \E c \in Candidates :
            /\ candidates[c] = None
            /\ candidates' = [candidates EXCEPT ![c] = NewCandidate(job[w].at, Seen(w))]
            /\ Goto(w, "save", [job[w] EXCEPT !.candidate = c, !.outcome = "created"])
  BY DEF CreateCandidate
<1>5. CASE \E c \in Candidates :
            /\ candidates[c] = None
            /\ candidates' = [candidates EXCEPT ![c] = NewCandidate(job[w].at, Seen(w))]
            /\ Goto(w, "save", [job[w] EXCEPT !.candidate = c, !.outcome = "created"])
  <2>1. PICK c \in Candidates :
            /\ candidates[c] = None
            /\ candidates' = [candidates EXCEPT ![c] = NewCandidate(job[w].at, Seen(w))]
            /\ Goto(w, "save", [job[w] EXCEPT !.candidate = c, !.outcome = "created"])
    BY <1>5
  <2>. QED  BY <1>1, <1>3, <2>1
<1>6. CASE FailRecord(w) /\ UNCHANGED candidates
  <2>1. StoreOK' /\ CandidatesStay
    BY <1>1, <1>6, StoreKept, CandidatesKept DEF CreateCandidate, rowVars
  <2>. QED  BY <1>1, <1>6, <2>1, FailStep, TypedNext
<1>. QED  BY <1>4, <1>5, <1>6

LEMMA SaveProvenanceStep ==
    ASSUME Typed, NEW w \in Jobs, SaveProvenance(w)
    PROVE  /\ Typed' /\ Others(w) /\ Keeps(w) /\ pc[w] = "save"
           /\ pc'[w] = "outcome" /\ job'[w] = job[w]
           /\ job[w].at \in Records /\ job[w].candidate \in Candidates
           /\ Upsert(job[w].at, job[w].candidate, Seen(w))
           /\ provenance'[job[w].at] # None
           /\ \A r \in Records : provenance[r] # None => provenance'[r] # None
<1>1. pc[w] = "save" /\ StoreOK /\ pc[w] \in Handling /\ CandidatesStay
  BY StoreAt, CandidatesKept DEF SaveProvenance, Handling
<1>2. /\ JobOK(job[w], "save") /\ job[w] \in Job /\ job[w].candidate \in Candidates
      /\ job[w].at \in Records /\ Seen(w) \in 0 .. MaxVersion
  BY <1>1, JobAt DEF JobOK, Seen, Job, Handling
<1>. DEFINE n == [candidate |-> job[w].candidate, version |-> Seen(w)]
<1>3. provenance' = [provenance EXCEPT ![job[w].at] = n] /\ Goto(w, "outcome", job[w])
  BY DEF SaveProvenance, Upsert
<1>4. n \in Provenance
  BY <1>2 DEF Provenance
<1>. HIDE DEF n
<1>5. /\ provenance' \in [Records -> Provenance \cup {None}]
      /\ provenance'[job[w].at] # None
      /\ \A r \in Records : provenance[r] # None => provenance'[r] # None
  BY <1>1, <1>2, <1>3, <1>4, NoneIsNoRow DEF StoreOK
<1>6. StoreOK'
  BY <1>1, <1>5 DEF SaveProvenance, StoreOK, runVars
<1>7. SameRecord(job[w], job[w]) /\ job[w].outcome \in Outcomes
  BY <1>2 DEF SameRecord, JobOK
<1>8. /\ JobsTyped' /\ JobsOK' /\ UpdatesFound' /\ Others(w) /\ Keeps(w)
      /\ pc'[w] = "outcome" /\ job'[w] = job[w]
  BY <1>1, <1>3, <1>7, GoOnWithRecord
<1>. QED  BY <1>1, <1>2, <1>5, <1>6, <1>8, TypedNext DEF SaveProvenance

(* After the outcome of a record the next one is taken up, unless too many *)
(* have failed.                                                            *)
LEMMA AppendOutcomeStep ==
    ASSUME Typed, NEW w \in Jobs, AppendOutcome(w)
    PROVE  /\ Typed' /\ Others(w) /\ pc[w] = "outcome" /\ job[w].at \in Records
           /\ pc'[w] \in {"threshold", "lookup", "success"}
           /\ job'[w].scope = job[w].scope /\ job'[w].run = job[w].run
           /\ job'[w].lease = job[w].lease /\ job'[w].cursor = job[w].cursor
           /\ job'[w].at = job[w].at + 1 /\ job'[w].seen = job[w].seen
           /\ LogOutcome(job[w].at, job[w].outcome)
<1>. DEFINE k == [job[w] EXCEPT !.at = @ + 1, !.candidate = None, !.outcome = None]
<1>1. pc[w] = "outcome" /\ CandidatesStay /\ StoreOK
  BY CandidatesKept, StoreAt DEF AppendOutcome, rowVars
<1>2. JobOK(job[w], "outcome") /\ job[w] \in Job /\ job[w].at \in Records
      /\ job[w].at <= job[w].end
  BY <1>1, JobAt DEF JobOK
<1>3. [record |-> job[w].at, status |-> job[w].outcome] \in [record : Records, status : Outcomes]
  BY <1>2 DEF JobOK
<1>4. StoreOK'
  BY <1>1, <1>3 DEF AppendOutcome, LogOutcome, StoreOK, rowVars
<1>5. Goto(w, IF TooMany(job[w]) THEN "threshold" ELSE AtRecord(k), k)
  BY DEF AppendOutcome
<1>6. /\ k \in Job
      /\ k.scope = job[w].scope /\ k.run = job[w].run /\ k.lease = job[w].lease
      /\ k.cursor = job[w].cursor /\ k.page = job[w].page /\ k.end = job[w].end
      /\ k.next = job[w].next /\ k.seen = job[w].seen /\ k.at = job[w].at + 1
  BY <1>2, NextRecordFields
<1>. HIDE DEF k
<1>7. job[w].at \in Int /\ job[w].at >= 1 /\ job[w].end \in Int
  BY <1>2, IngestionConstants DEF Records, Job, Cursor
<1>8. k.at >= 1 /\ k.at <= k.end + 1
  BY <1>2, <1>6, <1>7
<1>9. /\ JobOK(k, AtRecord(k)) /\ AtRecord(k) \in {"lookup", "success"}
  BY <1>2, <1>6, <1>8, AtRecordOK DEF JobOK, Reading, Outside
<1>10. JobOK(k, "threshold")
  BY <1>2, <1>6 DEF JobOK, Outside, Reading, Handling
<1>11. PICK p \in {"threshold", "lookup", "success"} : Goto(w, p, k) /\ JobOK(k, p)
  BY <1>5, <1>9, <1>10
<1>12. /\ JobsTyped' /\ JobsOK' /\ UpdatesFound' /\ Others(w)
       /\ pc'[w] = p /\ job'[w] = k
  BY <1>1, <1>11, MoveJob DEF Others, Points, Working, Handling
<1>. QED  BY <1>1, <1>2, <1>4, <1>6, <1>12, TypedNext DEF AppendOutcome

(* The page is done: the checkpoint and the job move on to the next one.   *)
LEMMA RecordSuccessStep ==
    ASSUME Typed, NEW w \in Jobs, RecordSuccess(w)
    PROVE  /\ Typed' /\ Others(w) /\ pc[w] = "success" /\ pc'[w] \in {"complete", "page"}
           /\ job'[w].scope = job[w].scope /\ job'[w].run = job[w].run
           /\ job'[w].lease = job[w].lease /\ job'[w].cursor = job[w].next
           /\ Advance(job[w].scope, job[w].next)
           /\ job[w].next \in {None, job[w].end} /\ job[w].at = job[w].end + 1
<1>. DEFINE k == [job[w] EXCEPT !.cursor = job[w].next, !.page = @ + 1]
<1>1. pc[w] = "success" /\ CandidatesStay /\ StoreOK
  BY CandidatesKept, StoreAt DEF RecordSuccess, rowVars
<1>2. /\ JobOK(job[w], "success") /\ job[w] \in Job /\ job[w].scope \in Scopes
      /\ job[w].page < MaxPages /\ job[w].next \in {None, job[w].end}
      /\ job[w].at = job[w].end + 1 /\ job[w].next \in Cursor \cup {None}
  BY <1>1, JobAt DEF JobOK, Reading, Job
<1>3. /\ k \in Job
      /\ k.scope = job[w].scope /\ k.run = job[w].run /\ k.lease = job[w].lease
      /\ k.next = job[w].next /\ k.cursor = job[w].next
  BY <1>2, NextPageFields
<1>4. PICK p \in {"complete", "page"} : Goto(w, p, k)
  BY DEF RecordSuccess
<1>5. Advance(job[w].scope, job[w].next)
  BY <1>3 DEF RecordSuccess
<1>. HIDE DEF k
<1>6. JobOK(k, p)
  BY <1>2, <1>3 DEF JobOK, Outside, Reading, Handling
<1>7. /\ JobsTyped' /\ JobsOK' /\ UpdatesFound' /\ Others(w)
      /\ pc'[w] = p /\ job'[w] = k
  BY <1>1, <1>4, <1>6, MoveJob DEF Others, Points, Working
<1>8. [cursor |-> job[w].next, failures |-> 0] \in Checkpoint
  BY <1>2 DEF Checkpoint
<1>9. checkpoints' \in [Scopes -> Checkpoint \cup {None}]
  BY <1>1, <1>2, <1>5, <1>8 DEF StoreOK, Advance
<1>10. StoreOK'
  BY <1>1, <1>9 DEF RecordSuccess, StoreOK, rowVars, runVars
<1>. QED  BY <1>1, <1>2, <1>3, <1>5, <1>7, <1>10, TypedNext

(* A checkpoint stays, is deleted, or is set back to the start: no cursor  *)
(* moves on.                                                               *)
CursorsKept ==
    \A x \in Scopes :
        checkpoints'[x] # None /\ checkpoints'[x].cursor # None =>
            checkpoints[x] # None /\ checkpoints[x].cursor = checkpoints'[x].cursor

LEMMA RecordFailureKeeps ==
    ASSUME StoreOK, NEW s \in Scopes, RecordFailure(s)
    PROVE  checkpoints' \in [Scopes -> Checkpoint \cup {None}] /\ CursorsKept
<1>1. checkpoints \in [Scopes -> Checkpoint \cup {None}]
  BY DEF StoreOK
<1>2. CASE checkpoints[s] = None
  <2>1. [cursor |-> None, failures |-> 1] \in Checkpoint
    BY DEF Checkpoint
  <2>. QED  BY <1>1, <1>2, <2>1 DEF RecordFailure, CursorsKept
<1>3. CASE checkpoints[s] # None
  <2>. DEFINE n == Smaller(2, checkpoints[s].failures + 1)
              k == [checkpoints[s] EXCEPT !.failures = n]
  <2>1. checkpoints[s] \in Checkpoint /\ checkpoints[s].failures \in Nat
    BY <1>1, <1>3 DEF Checkpoint
  <2>2. n \in Nat
    BY <2>1 DEF Smaller
  <2>3. checkpoints' = [checkpoints EXCEPT ![s] = k]
    BY <1>3, <2>1 DEF RecordFailure, Checkpoint
  <2>. HIDE DEF n
  <2>4. k \in Checkpoint /\ k.cursor = checkpoints[s].cursor
    BY <2>1, <2>2 DEF Checkpoint
  <2>. HIDE DEF k
  <2>. QED  BY <1>1, <1>3, <2>3, <2>4 DEF CursorsKept
<1>. QED  BY <1>2, <1>3

LEMMA FailureStep ==
    ASSUME Typed, NEW w \in Jobs, NEW p \in {"complete", "failed"},
           pc[w] \in {"threshold", "failure"}, RecordFailure(job[w].scope), Goto(w, p, job[w]),
           UNCHANGED <<remote, config, locks, rowVars, runVars, faults, late>>
    PROVE  Typed' /\ Others(w) /\ Keeps(w) /\ CursorsKept
<1>1. /\ pc[w] # "idle" /\ pc[w] \notin Outside /\ pc[w] \in AtWork
      /\ CandidatesStay /\ StoreOK
  BY CandidatesKept, StoreAt DEF rowVars, Outside, AtWork, Working, Ending
<1>2. job[w].run \in Runs /\ job[w] \in Job /\ job[w].scope \in Scopes
  BY <1>1, JobAt DEF JobOK
<1>3. StoreOK'
  BY <1>1, <1>2, RecordFailureKeeps DEF StoreOK, rowVars, runVars
<1>4. JobOK(job[w], p) /\ p \in Points \ {"idle"} /\ p \notin Reading /\ p # "update"
  BY <1>2 DEF JobOK, Outside, Reading, Handling, Points, Working, Ending
<1>. QED  BY <1>1, <1>2, <1>3, <1>4, RecordFailureKeeps, GoOn, TypedNext

LEMMA ThresholdReachedStep ==
    ASSUME Typed, NEW w \in Jobs, ThresholdReached(w)
    PROVE  Typed' /\ Others(w) /\ Keeps(w) /\ CursorsKept
  BY FailureStep DEF ThresholdReached

LEMMA RunFailureStep ==
    ASSUME Typed, NEW w \in Jobs, RunFailure(w)
    PROVE  Typed' /\ Others(w) /\ Keeps(w) /\ CursorsKept
  BY FailureStep DEF RunFailure

LEMMA ReleaseStep ==
    ASSUME Typed, NEW w \in Jobs, Release(w)
    PROVE  /\ Typed' /\ Others(w) /\ Keeps(w) /\ pc[w] = "release" /\ pc'[w] = "idle"
           /\ IF Holds(w) THEN Unlock(job[w].scope) ELSE UNCHANGED locks
<1>1. pc[w] = "release" /\ CandidatesStay /\ StoreOK
  BY CandidatesKept, StoreAt DEF Release, rowVars
<1>2. locks' \in [Scopes -> Lock \cup {None}]
  BY <1>1 DEF Release, Unlock, StoreOK
<1>3. StoreOK'
  BY <1>1, <1>2 DEF Release, StoreOK, rowVars, runVars
<1>. QED  BY <1>1, <1>3, EndStep, TypedNext DEF Release

LEMMA FaultCounted ==
    ASSUME StoreOK, faults < MaxFaults, faults' = faults + 1,
           UNCHANGED <<remote, config, locks, checkpoints, rowVars, runVars, late>>
    PROVE  StoreOK'
  BY IngestionConstants DEF StoreOK, rowVars, runVars

(* A failed record has its outcome next; a failed run is ended.            *)
LEMMA FaultStep ==
    ASSUME Typed, NEW w \in Jobs, Fault(w)
    PROVE  /\ Typed' /\ Others(w) /\ Keeps(w) /\ pc[w] \notin Faultless
           /\ pc'[w] \in {"outcome", "failure", "release", "idle"}
           /\ pc'[w] = "outcome" => job'[w].outcome = "failed"
<1>1. pc[w] # "idle" /\ CandidatesStay /\ StoreOK /\ pc[w] \notin Faultless
  BY CandidatesKept, StoreAt DEF Fault, rowVars
<1>2. StoreOK'
  BY <1>1, FaultCounted DEF Fault
<1>3. CASE pc[w] \in Handling \cup {"outcome"} /\ FailRecord(w)
  BY <1>1, <1>2, <1>3, FailStep, TypedNext
<1>4. CASE Finish(w)
  BY <1>1, <1>2, <1>4, EndStep, TypedNext
<1>5. ASSUME NEW p \in {"failure", "release"}, Goto(w, p, job[w]),
             pc[w] \in Working \cup Ending
      PROVE  Typed' /\ Others(w) /\ Keeps(w) /\ pc'[w] = p
  <2>1. pc[w] \notin Outside /\ pc[w] \in AtWork
    BY <1>5 DEF Outside, AtWork, Working, Handling, Ending
  <2>2. JobOK(job[w], p) /\ p \in Points \ {"idle"} /\ p \notin Reading /\ p # "update"
    BY <1>1, <2>1, JobAt DEF JobOK, Outside, Reading, Handling, Points, Ending
  <2>. QED  BY <1>1, <1>2, <1>5, <2>1, <2>2, GoOn, TypedNext
<1>6. \/ pc[w] \in Handling \cup {"outcome"} /\ FailRecord(w)
      \/ Finish(w)
      \/ pc[w] \in Working \cup Ending /\ Goto(w, "failure", job[w])
      \/ pc[w] \in Working \cup Ending /\ Goto(w, "release", job[w])
  BY DEF Fault, Ending
<1>7. CASE pc[w] \in Working \cup Ending /\ Goto(w, "failure", job[w])
  BY <1>1, <1>5, <1>7
<1>8. CASE pc[w] \in Working \cup Ending /\ Goto(w, "release", job[w])
  BY <1>1, <1>5, <1>8
<1>. QED  BY <1>3, <1>4, <1>6, <1>7, <1>8

LEMMA CrashStep ==
    ASSUME Typed, NEW w \in Jobs, Crash(w)
    PROVE  Typed' /\ Others(w) /\ Keeps(w) /\ pc[w] \notin Faultless /\ pc'[w] = "idle"
<1>1. CandidatesStay /\ StoreOK /\ pc[w] \notin Faultless
  BY CandidatesKept, StoreAt DEF Crash, rowVars
<1>2. StoreOK'
  BY <1>1, FaultCounted DEF Crash
<1>. QED  BY <1>1, <1>2, EndStep, TypedNext DEF Crash

(***************************************************************************)
(* Steps of the environment.                                               *)
(***************************************************************************)
LEMMA SoonerLess ==
    ASSUME NEW n \in Nat, NEW m \in Nat, n <= m
    PROVE  Sooner(n) \in 0 .. m /\ (n > 1 => Sooner(n) > 0) /\ (n <= 1 => Sooner(n) = 0)
  BY DEF Sooner

(* Time shortens the leases of locks and of jobs alike.                    *)
LEMMA TickStep ==
    ASSUME Typed, Tick
    PROVE  /\ Typed'
           /\ \A w \in Jobs : pc[w] # "idle" =>
                 /\ job[w] \in Job /\ job[w].lease \in Nat
                 /\ job'[w].lease = Sooner(job[w].lease)
                 /\ job'[w].scope = job[w].scope /\ job'[w].run = job[w].run
                 /\ job'[w].cursor = job[w].cursor /\ job'[w].at = job[w].at
                 /\ job'[w].seen = job[w].seen /\ job'[w].candidate = job[w].candidate
                 /\ job'[w].outcome = job[w].outcome
           /\ \A s \in Scopes :
                 /\ locks'[s] = None <=> locks[s] = None
                 /\ locks[s] # None => /\ locks'[s].run = locks[s].run
                                       /\ locks'[s].left = Sooner(locks[s].left)
<1>1. StoreOK /\ JobsTyped /\ UNCHANGED <<pc, candidates>>
  BY StoreAt, TypeParts DEF Typed, Tick, rowVars
<1>2. ASSUME NEW w \in Jobs, pc[w] # "idle"
      PROVE  /\ JobOK(job'[w], pc[w]) /\ job'[w] # None
             /\ job[w] \in Job /\ job[w].lease \in Nat
             /\ job'[w].lease = Sooner(job[w].lease)
             /\ job'[w].scope = job[w].scope /\ job'[w].run = job[w].run
             /\ job'[w].cursor = job[w].cursor /\ job'[w].at = job[w].at
             /\ job'[w].seen = job[w].seen /\ job'[w].candidate = job[w].candidate
             /\ job'[w].outcome = job[w].outcome
  <2>1. JobOK(job[w], pc[w]) /\ job[w] \in Job /\ job[w] # None
        /\ job[w].lease \in Nat /\ job[w].lease <= Lease /\ job[w].elapsed \in 0 .. MaxDuration
    BY <1>2, JobAt, IngestionConstants DEF Job
  <2>. DEFINE n == Sooner(job[w].lease)
              t == IF pc[w] \in Working THEN Smaller(MaxDuration, job[w].elapsed + 1)
                   ELSE job[w].elapsed
              k == [job[w] EXCEPT !.lease = n, !.elapsed = t]
  <2>2. n \in 0 .. Lease
    BY <2>1, SoonerLess, IngestionConstants
  <2>3. t \in 0 .. MaxDuration
    BY <2>1, IngestionConstants DEF Smaller
  <2>4. job'[w] = k
    BY <2>1 DEF Tick
  <2>. HIDE DEF n, t
  <2>5. /\ k \in Job /\ k.lease = n
        /\ k.scope = job[w].scope /\ k.run = job[w].run /\ k.cursor = job[w].cursor
        /\ k.page = job[w].page /\ k.at = job[w].at /\ k.end = job[w].end
        /\ k.next = job[w].next /\ k.seen = job[w].seen
        /\ k.candidate = job[w].candidate /\ k.outcome = job[w].outcome
    BY <2>1, <2>2, <2>3 DEF Job
  <2>. HIDE DEF k
  <2>6. JobOK(k, pc[w]) /\ k # None
    BY <2>1, <2>5, NoneIsNoRow DEF JobOK
  <2>. QED  BY <2>1, <2>4, <2>5, <2>6 DEF n
<1>3. ASSUME NEW w \in Jobs, pc[w] = "idle"
      PROVE  job'[w] = None
  BY <1>1, <1>3 DEF Tick, JobsTyped
<1>4. DOMAIN job' = Jobs /\ job' = [w \in Jobs |-> job'[w]]
  BY DEF Tick
<1>5. JobsTyped' /\ JobsOK'
  BY <1>1, <1>2, <1>3, <1>4 DEF JobsTyped, JobsOK, JobOK
<1>6. UpdatesFound'
  BY <1>1, <1>2 DEF Typed, UpdatesFound
<1>7. ASSUME NEW s \in Scopes
      PROVE  /\ locks'[s] \in Lock \cup {None}
             /\ locks'[s] = None <=> locks[s] = None
             /\ locks[s] # None => /\ locks'[s].run = locks[s].run
                                   /\ locks'[s].left = Sooner(locks[s].left)
  <2>1. CASE locks[s] = None
    BY <2>1 DEF Tick
  <2>2. CASE locks[s] # None
    <3>. DEFINE n == Sooner(locks[s].left)
                k == [locks[s] EXCEPT !.left = n]
    <3>1. locks[s] \in Lock /\ locks[s].left \in Nat /\ locks[s].left <= Lease
      BY <1>1, <2>2, IngestionConstants DEF StoreOK, Lock
    <3>2. n \in 0 .. Lease
      BY <3>1, SoonerLess, IngestionConstants
    <3>3. locks'[s] = k
      BY <2>2 DEF Tick
    <3>. HIDE DEF n
    <3>4. k \in Lock /\ k.run = locks[s].run /\ k.left = n
      BY <3>1, <3>2 DEF Lock
    <3>. HIDE DEF k
    <3>. QED  BY <2>2, <3>3, <3>4, NoneIsNoRow DEF n
  <2>. QED  BY <2>1, <2>2
<1>8. locks' \in [Scopes -> Lock \cup {None}]
  BY <1>7 DEF Tick
<1>9. late' \in BOOLEAN
  BY <1>1 DEF Tick, StoreOK
<1>10. StoreOK'
  BY <1>1, <1>8, <1>9 DEF Tick, StoreOK, rowVars, runVars
<1>. QED  BY <1>2, <1>5, <1>6, <1>7, <1>10, TypedNext

(* No job moves.                                                           *)
LEMMA StandStill ==
    ASSUME Typed, StoreOK', UNCHANGED <<pc, job>>, CandidatesStay
    PROVE  Typed'
<1>1. JobsTyped' /\ JobsOK'
  BY TypeParts DEF Typed, JobsTyped, JobsOK, JobOK
<1>2. ASSUME NEW w \in Jobs, pc'[w] = "update"
      PROVE  candidates'[job'[w].candidate] # None
  <2>1. job[w].candidate \in Candidates /\ candidates[job[w].candidate] # None
    BY <1>2 DEF Typed, UpdatesFound, JobsOK, JobOK
  <2>. QED  BY <2>1 DEF CandidatesStay
<1>. QED  BY <1>1, <1>2, TypedNext DEF UpdatesFound

LEMMA SourceChangesStep ==
    ASSUME Typed, SourceChanges
    PROVE  Typed' /\ \A r \in Records : remote'[r] >= remote[r]
<1>1. StoreOK /\ CandidatesStay
  BY StoreAt, CandidatesKept DEF SourceChanges, rowVars
<1>2. PICK r \in Records : remote[r] < MaxVersion /\ remote' = [remote EXCEPT ![r] = @ + 1]
  BY DEF SourceChanges
<1>. DEFINE n == remote[r] + 1
<1>3. n \in 0 .. MaxVersion
  BY <1>1, <1>2, IngestionConstants DEF StoreOK
<1>4. remote' = [remote EXCEPT ![r] = n] /\ n >= remote[r]
  BY <1>1, <1>2, IngestionConstants DEF StoreOK
<1>. HIDE DEF n
<1>5. remote' \in [Records -> 0 .. MaxVersion] /\ \A x \in Records : remote'[x] >= remote[x]
  BY <1>1, <1>3, <1>4, IngestionConstants DEF StoreOK
<1>6. StoreOK'
  BY <1>1, <1>5 DEF SourceChanges, StoreOK, rowVars, runVars
<1>. QED  BY <1>1, <1>5, <1>6, StandStill DEF SourceChanges

LEMMA ConfigureStep ==
    ASSUME Typed, Configure
    PROVE  Typed'
<1>1. StoreOK /\ CandidatesStay
  BY StoreAt, CandidatesKept DEF Configure, rowVars
<1>2. StoreOK'
  BY <1>1, IngestionConstants DEF Configure, StoreOK, rowVars, runVars
<1>. QED  BY <1>1, <1>2, StandStill DEF Configure

LEMMA ForceReleaseStep ==
    ASSUME Typed, ForceRelease
    PROVE  Typed'
<1>1. StoreOK /\ CandidatesStay
  BY StoreAt, CandidatesKept DEF ForceRelease, rowVars
<1>2. locks' \in [Scopes -> Lock \cup {None}]
  BY <1>1 DEF ForceRelease, Unlock, StoreOK
<1>3. StoreOK'
  BY <1>1, <1>2 DEF ForceRelease, StoreOK, rowVars, runVars
<1>. QED  BY <1>1, <1>3, StandStill DEF ForceRelease

LEMMA ResetCheckpointStep ==
    ASSUME Typed, ResetCheckpoint
    PROVE  Typed' /\ CursorsKept
<1>1. StoreOK /\ CandidatesStay
  BY StoreAt, CandidatesKept DEF ResetCheckpoint, rowVars
<1>2. PICK s \in Scopes : Rewind(s)
  BY DEF ResetCheckpoint
<1>3. [cursor |-> None, failures |-> 0] \in Checkpoint
  BY DEF Checkpoint
<1>4. checkpoints' \in [Scopes -> Checkpoint \cup {None}] /\ CursorsKept
  BY <1>1, <1>2, <1>3 DEF Rewind, StoreOK, CursorsKept
<1>5. StoreOK'
  BY <1>1, <1>4 DEF ResetCheckpoint, StoreOK, rowVars, runVars
<1>. QED  BY <1>1, <1>4, <1>5, StandStill DEF ResetCheckpoint

LEMMA ReviewStep ==
    ASSUME Typed, Review
    PROVE  /\ Typed' /\ CandidatesStay
           /\ \E c \in Candidates, status \in ReviewStatuses :
                 /\ candidates[c] # None
                 /\ candidates' = [candidates EXCEPT ![c] =
                                     [candidates[c] EXCEPT !.status = status]]
                 /\ candidates'[c].record = candidates[c].record
                 /\ candidates'[c].version = candidates[c].version
                 /\ candidates'[c].status = status
<1>1. StoreOK
  BY StoreAt
<1>2. PICK c \in Candidates, status \in ReviewStatuses :
         candidates[c] # None /\ candidates' = [candidates EXCEPT ![c].status = status]
  BY DEF Review
<1>. DEFINE k == [candidates[c] EXCEPT !.status = status]
<1>3. k \in Candidate /\ k.record = candidates[c].record
      /\ k.version = candidates[c].version /\ k.status = status
  BY <1>1, <1>2 DEF StoreOK, Candidate
<1>4. candidates' = [candidates EXCEPT ![c] = k]
  BY <1>2
<1>. HIDE DEF k
<1>5. candidates' \in [Candidates -> Candidate \cup {None}] /\ CandidatesStay
      /\ candidates'[c] = k
  BY <1>1, <1>2, <1>3, <1>4, NoneIsNoRow DEF StoreOK, CandidatesStay
<1>6. StoreOK'
  BY <1>1, <1>5 DEF Review, StoreOK, runVars
<1>7. Typed'
  BY <1>5, <1>6, StandStill DEF Review
<1>. QED  BY <1>2, <1>3, <1>4, <1>5, <1>7 DEF k

LEMMA StutterStep ==
    ASSUME Typed, UNCHANGED vars
    PROVE  Typed'
<1>1. StoreOK' /\ CandidatesStay
  BY StoreAt, StoreKept, CandidatesKept DEF vars, rowVars
<1>. QED  BY <1>1, StandStill DEF vars

LEMMA TypedInit == Init => Typed
<1>. SUFFICES ASSUME Init PROVE Typed
  OBVIOUS
<1>1. remote \in [Records -> 0 .. MaxVersion] /\ config \in Config /\ faults \in 0 .. MaxFaults
  BY IngestionConstants DEF Init, Config, Writing
<1>2. StoreOK
  BY <1>1 DEF Init, StoreOK
<1>3. JobsTyped /\ JobsOK /\ UpdatesFound
  BY DEF Init, JobsTyped, JobsOK, UpdatesFound, Points, Outside
<1>. QED  BY <1>2, <1>3, TypeParts DEF Typed

LEMMA TypedStep == Typed /\ [Next]_vars => Typed'
<1>. SUFFICES ASSUME Typed, [Next]_vars PROVE Typed'
  OBVIOUS
<1>1. ASSUME NEW w \in Jobs, Step(w)
      PROVE  Typed'
  BY <1>1, ReadConfigurationStep, AcquireStep, ConfirmStep, ReadCheckpointStep,
     CreateRunStep, MarkRunningStep, NextPageStep, LookupStep, LoadCandidateStep,
     UpdateCandidateStep, CreateCandidateStep, SaveProvenanceStep, AppendOutcomeStep,
     RecordSuccessStep, ThresholdReachedStep, MarkCompletedStep, RunFailureStep,
     MarkFailedStep, ReleaseStep DEF Step
<1>2. ASSUME NEW w \in Jobs, Arrive(w) \/ Fault(w) \/ Crash(w)
      PROVE  Typed'
  BY <1>2, ArriveStep, FaultStep, CrashStep
<1>3. CASE Tick \/ SourceChanges \/ Configure \/ ForceRelease \/ ResetCheckpoint \/ Review
  BY <1>3, TickStep, SourceChangesStep, ConfigureStep, ForceReleaseStep,
     ResetCheckpointStep, ReviewStep
<1>4. CASE UNCHANGED vars
  BY <1>4, StutterStep
<1>. QED  BY <1>1, <1>2, <1>3, <1>4 DEF Next

(* Rows, leases and jobs keep their types, and a job that stands at a      *)
(* point has the local variables that its next step reads: the run once    *)
(* there is a lease, the record within its page, and the candidate that a  *)
(* loaded, updated or saved record is about, which for an update exists.   *)
THEOREM TypeCorrect == Spec => []TypeOK
<1>1. Init => Typed
  BY TypedInit
<1>2. Typed /\ [Next]_vars => Typed'
  BY TypedStep
<1>3. Typed => TypeOK
  BY DEF Typed
<1>. QED  BY <1>1, <1>2, <1>3, PTL DEF Spec

(***************************************************************************)
(* Decisions of reviewers.                                                 *)
(***************************************************************************)
DecidedKept ==
    \A c \in Candidates :
        candidates[c] # None /\ candidates[c].status = "decided" =>
            \/ candidates'[c] = candidates[c]
            \/ pc' = pc /\ candidates'[c] = [candidates[c] EXCEPT !.status = "pending"]

(* Only three steps write candidates.                                      *)
LEMMA CandidatesWritten ==
    ASSUME Typed, [Next]_vars
    PROVE  \/ UNCHANGED candidates
           \/ Review
           \/ \E w \in Jobs : UpdateCandidate(w) \/ CreateCandidate(w)
<1>1. ASSUME NEW w \in Jobs, Step(w)
      PROVE  UNCHANGED candidates \/ UpdateCandidate(w) \/ CreateCandidate(w)
  BY <1>1 DEF Step, ReadConfiguration, Acquire, Confirm, ReadCheckpoint, CreateRun,
     MarkRunning, NextPage, Lookup, LoadCandidate, SaveProvenance, AppendOutcome,
     RecordSuccess, ThresholdReached, MarkCompleted, RunFailure, MarkFailed, Release, rowVars
<1>2. ASSUME NEW w \in Jobs, Arrive(w) \/ Fault(w) \/ Crash(w)
      PROVE  UNCHANGED candidates
  BY <1>2 DEF Arrive, Fault, Crash, rowVars
<1>3. CASE Tick \/ SourceChanges \/ Configure \/ ForceRelease \/ ResetCheckpoint
  BY <1>3 DEF Tick, SourceChanges, Configure, ForceRelease, ResetCheckpoint, rowVars
<1>4. CASE UNCHANGED vars
  BY <1>4 DEF vars, rowVars
<1>. QED  BY <1>1, <1>2, <1>3, <1>4 DEF Next

LEMMA DecidedStep == Typed /\ [Next]_vars => DecidedKept
<1>. SUFFICES ASSUME Typed, [Next]_vars PROVE DecidedKept
  OBVIOUS
<1>1. candidates \in [Candidates -> Candidate \cup {None}]
  BY StoreAt DEF StoreOK
<1>2. CASE UNCHANGED candidates
  BY <1>2 DEF DecidedKept
<1>3. CASE Review
  <2>1. PICK c \in Candidates, status \in ReviewStatuses :
           candidates[c] # None /\ candidates' = [candidates EXCEPT ![c].status = status]
    BY <1>3 DEF Review
  <2>2. candidates[c] \in Candidate /\ pc' = pc
    BY <1>1, <1>3, <2>1 DEF Review
  <2>3. candidates[c].status = "decided" =>
           \/ candidates'[c] = candidates[c]
           \/ candidates'[c] = [candidates[c] EXCEPT !.status = "pending"]
    BY <1>1, <2>1, <2>2 DEF Candidate, ReviewStatuses
  <2>. QED  BY <1>1, <2>1, <2>2, <2>3 DEF DecidedKept
<1>4. ASSUME NEW w \in Jobs, UpdateCandidate(w)
      PROVE  DecidedKept
  BY <1>1, <1>4, UpdateCandidateStep DEF DecidedKept, Undecided
<1>5. ASSUME NEW w \in Jobs, CreateCandidate(w)
      PROVE  DecidedKept
  BY <1>1, <1>5, CreateCandidateStep DEF DecidedKept
<1>. QED  BY <1>2, <1>3, <1>4, <1>5, CandidatesWritten

(* What a reviewer has decided about, the ingestion never writes, also when *)
(* a job had read the candidate while it was pending: the guard of         *)
(* updateDiscoveryData is in the statement that writes.  Only a reviewer's *)
(* own request for a new review opens the candidate again.                 *)
THEOREM ReviewDecisionsKept == Spec => DecidedCandidatesKept
<1>1. Typed /\ [Next]_vars => [DecidedKept]_candidates
  BY DecidedStep
<1>2. Init => Typed
  BY TypedInit
<1>3. Typed /\ [Next]_vars => Typed'
  BY TypedStep
<1>4. DecidedCandidatesKept <=> [][DecidedKept]_candidates
  BY PTL DEF DecidedCandidatesKept, DecidedKept
<1>. QED  BY <1>1, <1>2, <1>3, <1>4, PTL DEF Spec

(***************************************************************************)
(* Checkpoints.                                                            *)
(***************************************************************************)
Handled(r) ==
    \/ provenance[r] # None
    \/ \E o \in outcomes : o.record = r /\ o.status \in {"failed", "previewed"}

(* The records before the cursor of a job and, on its page, those before   *)
(* the one it is at were handled.                                          *)
HandledBefore ==
    \A w \in Jobs, r \in Records : pc[w] # "idle" =>
        /\ r <= OffsetOf(job[w].cursor) => Handled(r)
        /\ pc[w] \in Reading /\ r < job[w].at => Handled(r)

(* What is logged next was failed, previewed, or saved.                    *)
OutcomeBacked ==
    \A w \in Jobs : pc[w] = "outcome" =>
        job[w].outcome \in {"failed", "previewed"} \/ provenance[job[w].at] # None

Progress == HandledBefore /\ OutcomeBacked /\ NothingSkipped

HandledStays ==
    /\ \A r \in Records : provenance[r] # None => provenance'[r] # None
    /\ outcomes \subseteq outcomes'

LEMMA StaysHandled ==
    ASSUME HandledStays, NEW r \in Records, Handled(r)
    PROVE  Handled(r)'
  BY DEF HandledStays, Handled

LEMMA CheckpointsBacked ==
    ASSUME NothingSkipped, HandledStays, CursorsKept
    PROVE  NothingSkipped'
<1>1. ASSUME NEW s \in Scopes, NEW r \in Records, checkpoints'[s] # None,
             r <= OffsetOf(checkpoints'[s].cursor)
      PROVE  Handled(r)'
  <2>1. checkpoints'[s].cursor # None
    <3>1. r \in Int /\ ~(r <= 0)
      BY IngestionConstants DEF Records
    <3>. QED  BY <1>1, <3>1 DEF OffsetOf
  <2>2. checkpoints[s] # None /\ checkpoints[s].cursor = checkpoints'[s].cursor
    BY <1>1, <2>1 DEF CursorsKept
  <2>3. Handled(r)
    BY <1>1, <2>2 DEF NothingSkipped, Handled, OffsetOf
  <2>. QED  BY <2>3, StaysHandled
<1>. QED  BY <1>1 DEF NothingSkipped, Handled

(* Steps that only move one job keep the progress when the job keeps its   *)
(* place, and so do those that set no cursor forward.                      *)
LEMMA ProgressKept ==
    ASSUME Progress, HandledStays, NEW w \in Jobs, Others(w), Keeps(w), CursorsKept,
           pc'[w] = "outcome" =>
              \/ job'[w].outcome \in {"failed", "previewed"}
              \/ provenance'[job'[w].at] # None,
           \A v \in Jobs : pc[v] = "outcome" => job[v].at \in Records
    PROVE  Progress'
<1>1. HandledBefore'
  BY StaysHandled DEF Progress, HandledBefore, Others, Keeps
<1>2. OutcomeBacked'
  BY DEF Progress, OutcomeBacked, Others, HandledStays
<1>3. NothingSkipped'
  BY CheckpointsBacked DEF Progress
<1>. QED  BY <1>1, <1>2, <1>3 DEF Progress

LEMMA OutcomesAtRecords ==
    ASSUME Typed
    PROVE  \A v \in Jobs : pc[v] = "outcome" => job[v].at \in Records
  BY JobAt DEF JobOK

LEMMA NothingWritten ==
    ASSUME UNCHANGED <<provenance, outcomes>> PROVE HandledStays
  BY DEF HandledStays

LEMMA CursorsStay ==
    ASSUME UNCHANGED checkpoints PROVE CursorsKept
  BY DEF CursorsKept

(* Steps between the pages.                                                *)
LEMMA ProgressOutside ==
    ASSUME Typed, Progress, NEW w \in Jobs, Others(w), Keeps(w), pc[w] \notin Reading,
           UNCHANGED <<provenance, outcomes>>, CursorsKept
    PROVE  Progress'
<1>1. pc'[w] # "outcome"
  BY DEF Keeps, Reading
<1>. QED  BY <1>1, ProgressKept, OutcomesAtRecords, NothingWritten

(* Steps of time and of others.                                            *)
LEMMA ProgressStill ==
    ASSUME Typed, Progress, UNCHANGED <<pc, provenance, outcomes>>, CursorsKept,
           \A v \in Jobs : pc[v] # "idle" =>
              /\ job'[v].cursor = job[v].cursor /\ job'[v].at = job[v].at
              /\ job'[v].outcome = job[v].outcome
    PROVE  Progress'
<1>1. HandledBefore' /\ OutcomeBacked'
  BY DEF Progress, HandledBefore, OutcomeBacked, Handled, Reading
<1>. QED  BY <1>1, CheckpointsBacked, NothingWritten DEF Progress

(* A job moves to another place: what is before it must have been handled. *)
LEMMA ProgressMoved ==
    ASSUME Typed, Progress, HandledStays, NothingSkipped', NEW w \in Jobs, Others(w),
           pc'[w] # "outcome",
           \A r \in Records :
              /\ r <= OffsetOf(job'[w].cursor) => Handled(r)'
              /\ pc'[w] \in Reading /\ r < job'[w].at => Handled(r)'
    PROVE  Progress'
<1>1. HandledBefore'
  BY StaysHandled DEF Progress, HandledBefore, Others
<1>2. OutcomeBacked'
  BY OutcomesAtRecords DEF Progress, OutcomeBacked, Others, HandledStays
<1>. QED  BY <1>1, <1>2 DEF Progress

LEMMA NothingBeforeTheFirst ==
    ASSUME NEW r \in Records PROVE ~(r <= OffsetOf(None)) /\ r \in Int
  BY IngestionConstants DEF OffsetOf, Records

LEMMA ProgressArrive ==
    ASSUME Typed, Progress, NEW w \in Jobs, Arrive(w)
    PROVE  Progress'
<1>1. HandledStays /\ NothingSkipped'
  BY NothingWritten, CursorsStay, CheckpointsBacked DEF Arrive, rowVars, runVars, Progress
<1>. QED  BY <1>1, ArriveStep, NothingBeforeTheFirst, ProgressMoved DEF Reading, Handling

LEMMA ProgressAcquire ==
    ASSUME Typed, Progress, NEW w \in Jobs, Acquire(w)
    PROVE  Progress'
<1>1. HandledStays /\ NothingSkipped' /\ CursorsKept /\ pc[w] = "acquire"
      /\ UNCHANGED <<provenance, outcomes>>
  BY NothingWritten, CursorsStay, CheckpointsBacked DEF Acquire, rowVars, runVars, Progress
<1>2. CASE pc'[w] = "idle"
  BY <1>1, <1>2, AcquireStep, ProgressOutside DEF Keeps, Reading, Handling
<1>3. CASE pc'[w] = "confirm" /\ job'[w].cursor = job[w].cursor
  <2>1. \A r \in Records : r <= OffsetOf(job'[w].cursor) => Handled(r)'
    BY <1>1, <1>3, StaysHandled DEF Progress, HandledBefore
  <2>. QED  BY <1>1, <1>3, <2>1, AcquireStep, ProgressMoved DEF Reading, Handling
<1>. QED  BY <1>2, <1>3, AcquireStep

LEMMA ProgressReadCheckpoint ==
    ASSUME Typed, Progress, NEW w \in Jobs, ReadCheckpoint(w)
    PROVE  Progress'
<1>1. HandledStays /\ NothingSkipped' /\ pc[w] = "checkpoint"
  BY NothingWritten, CursorsStay, CheckpointsBacked
     DEF ReadCheckpoint, rowVars, runVars, Progress
<1>2. job[w].scope \in Scopes
  BY <1>1, JobAt
<1>3. ASSUME NEW r \in Records, r <= OffsetOf(job'[w].cursor)
      PROVE  Handled(r)'
  <2>1. r <= OffsetOf(CursorOf(job[w].scope))
    BY <1>3, ReadCheckpointStep
  <2>2. checkpoints[job[w].scope] # None
        /\ r <= OffsetOf(checkpoints[job[w].scope].cursor)
    BY <2>1, NothingBeforeTheFirst DEF CursorOf
  <2>. QED  BY <1>1, <1>2, <2>2, StaysHandled DEF Progress, NothingSkipped, Handled
<1>. QED  BY <1>1, <1>3, ReadCheckpointStep, ProgressMoved DEF Reading, Handling

LEMMA ProgressNextPage ==
    ASSUME Typed, Progress, NEW w \in Jobs, NextPage(w)
    PROVE  Progress'
<1>1. HandledStays /\ NothingSkipped' /\ pc[w] = "page"
  BY NothingWritten, CursorsStay, CheckpointsBacked DEF NextPage, rowVars, runVars, Progress
<1>2. ASSUME NEW r \in Records, r <= OffsetOf(job[w].cursor)
      PROVE  Handled(r)'
  BY <1>1, <1>2, StaysHandled DEF Progress, HandledBefore
<1>3. ASSUME NEW r \in Records, pc'[w] \in Reading, r < job'[w].at
      PROVE  Handled(r)'
  <2>1. job'[w].at = OffsetOf(job[w].cursor) + 1
    BY <1>3, NextPageStep DEF Reading, Handling
  <2>2. OffsetOf(job[w].cursor) \in Int /\ r \in Int
    BY <1>1, JobAt, NothingBeforeTheFirst, IngestionConstants DEF OffsetOf, Job, Cursor
  <2>. QED  BY <1>2, <1>3, <2>1, <2>2
<1>. QED  BY <1>1, <1>2, <1>3, NextPageStep, ProgressMoved

LEMMA ProgressAppendOutcome ==
    ASSUME Typed, Progress, NEW w \in Jobs, AppendOutcome(w)
    PROVE  Progress'
<1>1. pc[w] = "outcome" /\ CursorsKept /\ HandledStays
      /\ LogOutcome(job[w].at, job[w].outcome) /\ UNCHANGED provenance
  BY CursorsStay DEF AppendOutcome, rowVars, HandledStays, LogOutcome
<1>2. NothingSkipped'
  BY <1>1, CheckpointsBacked DEF Progress
<1>3. job[w].at \in Records /\ job'[w].at = job[w].at + 1 /\ job'[w].cursor = job[w].cursor
  BY AppendOutcomeStep
<1>4. PICK x \in Records : x = job[w].at
  BY <1>3
<1>5. Handled(x)'
  <2>1. CASE provenance[x] # None
    BY <1>1, <2>1 DEF Handled, HandledStays
  <2>2. CASE job[w].outcome \in {"failed", "previewed"}
    <3>. DEFINE o == [record |-> x, status |-> job[w].outcome]
    <3>1. o \in outcomes' /\ o.record = x /\ o.status \in {"failed", "previewed"}
      BY <1>1, <1>4, <2>2 DEF LogOutcome
    <3>. QED  BY <3>1 DEF Handled
  <2>. QED  BY <1>1, <1>4, <2>1, <2>2 DEF Progress, OutcomeBacked
<1>6. ASSUME NEW r \in Records, r < job'[w].at
      PROVE  Handled(r)'
  <2>1. r = x \/ r < job[w].at
    BY <1>3, <1>4, <1>6, NothingBeforeTheFirst
  <2>2. r < job[w].at => Handled(r)
    BY <1>1 DEF Progress, HandledBefore, Reading
  <2>. QED  BY <1>1, <1>5, <2>1, <2>2, StaysHandled
<1>7. ASSUME NEW r \in Records, r <= OffsetOf(job'[w].cursor)
      PROVE  Handled(r)'
  BY <1>1, <1>3, <1>7, StaysHandled DEF Progress, HandledBefore
<1>. QED  BY <1>1, <1>2, <1>6, <1>7, AppendOutcomeStep, ProgressMoved

LEMMA ProgressRecordSuccess ==
    ASSUME Typed, Progress, NEW w \in Jobs, RecordSuccess(w)
    PROVE  Progress'
<1>1. pc[w] = "success" /\ HandledStays
  BY NothingWritten DEF RecordSuccess, rowVars, runVars
<1>2. /\ Advance(job[w].scope, job[w].next) /\ job'[w].cursor = job[w].next
      /\ job[w].next \in {None, job[w].end} /\ job[w].at = job[w].end + 1
      /\ pc'[w] \in {"complete", "page"} /\ Others(w) /\ job[w].scope \in Scopes
      /\ job[w].end \in Int
  BY <1>1, RecordSuccessStep, JobAt, IngestionConstants DEF Job, Cursor
<1>3. ASSUME NEW r \in Records, r <= OffsetOf(job[w].next)
      PROVE  Handled(r)'
  <2>1. r < job[w].at
    BY <1>2, <1>3, NothingBeforeTheFirst DEF OffsetOf
  <2>. QED  BY <1>1, <2>1, StaysHandled DEF Progress, HandledBefore, Reading
<1>4. ASSUME NEW s \in Scopes, NEW r \in Records, checkpoints'[s] # None,
             r <= OffsetOf(checkpoints'[s].cursor)
      PROVE  Handled(r)'
  <2>1. CASE s = job[w].scope
    <3>1. checkpoints'[s].cursor = job[w].next
      BY <1>2, <2>1, StoreAt DEF Advance, StoreOK
    <3>. QED  BY <1>3, <1>4, <3>1
  <2>2. CASE s # job[w].scope
    <3>1. checkpoints'[s] = checkpoints[s]
      BY <1>2, <2>2, StoreAt DEF Advance, StoreOK
    <3>. QED  BY <1>1, <1>4, <3>1, StaysHandled DEF Progress, NothingSkipped, Handled
  <2>. QED  BY <2>1, <2>2
<1>5. NothingSkipped'
  BY <1>4 DEF NothingSkipped, Handled
<1>. QED  BY <1>1, <1>2, <1>3, <1>5, ProgressMoved DEF Reading, Handling

(* While a record is handled, an outcome is reached by a failure, by a     *)
(* preview, or from the provenance that was saved.                         *)
LEMMA ProgressHandling ==
    ASSUME Typed, Progress, NEW w \in Jobs,
           Lookup(w) \/ LoadCandidate(w) \/ UpdateCandidate(w) \/ CreateCandidate(w)
    PROVE  Progress'
<1>1. HandledStays /\ CursorsKept
  BY NothingWritten, CursorsStay
     DEF Lookup, LoadCandidate, UpdateCandidate, CreateCandidate, rowVars, runVars
<1>2. /\ Others(w) /\ Keeps(w)
      /\ pc'[w] = "outcome" => job'[w].outcome \in {"failed", "previewed"}
  BY LookupStep, LoadCandidateStep, UpdateCandidateStep, CreateCandidateStep
<1>. QED  BY <1>1, <1>2, OutcomesAtRecords, ProgressKept

LEMMA ProgressSaveProvenance ==
    ASSUME Typed, Progress, NEW w \in Jobs, SaveProvenance(w)
    PROVE  Progress'
<1>1. HandledStays /\ CursorsKept
  BY SaveProvenanceStep, CursorsStay DEF SaveProvenance, HandledStays, runVars
<1>. QED  BY <1>1, SaveProvenanceStep, OutcomesAtRecords, ProgressKept

LEMMA ProgressFault ==
    ASSUME Typed, Progress, NEW w \in Jobs, Fault(w) \/ Crash(w)
    PROVE  Progress'
<1>1. HandledStays /\ CursorsKept
  BY NothingWritten, CursorsStay DEF Fault, Crash, rowVars, runVars
<1>2. /\ Others(w) /\ Keeps(w)
      /\ pc'[w] = "outcome" => job'[w].outcome \in {"failed", "previewed"}
  BY FaultStep, CrashStep
<1>. QED  BY <1>1, <1>2, OutcomesAtRecords, ProgressKept

LEMMA ProgressElsewhere ==
    ASSUME Typed, Progress, NEW w \in Jobs,
           \/ ReadConfiguration(w) \/ Confirm(w) \/ CreateRun(w) \/ MarkRunning(w)
           \/ ThresholdReached(w) \/ MarkCompleted(w)
           \/ RunFailure(w) \/ MarkFailed(w) \/ Release(w)
    PROVE  Progress'
<1>1. UNCHANGED <<provenance, outcomes>> /\ pc[w] \notin Reading
  BY DEF ReadConfiguration, Confirm, CreateRun, MarkRunning, ThresholdReached,
     MarkCompleted, RunFailure, MarkFailed, Release, rowVars, runVars, Reading, Handling
<1>2. CASE ThresholdReached(w) \/ RunFailure(w)
  BY <1>1, <1>2, ThresholdReachedStep, RunFailureStep, ProgressOutside
<1>3. CASE \/ ReadConfiguration(w) \/ Confirm(w) \/ CreateRun(w) \/ MarkRunning(w)
           \/ MarkCompleted(w) \/ MarkFailed(w) \/ Release(w)
  <2>1. CursorsKept
    BY <1>3, CursorsStay
       DEF ReadConfiguration, Confirm, CreateRun, MarkRunning, MarkCompleted, MarkFailed, Release
  <2>2. Others(w) /\ Keeps(w)
    BY <1>3, ReadConfigurationStep, ConfirmStep, CreateRunStep, MarkRunningStep,
       MarkCompletedStep, MarkFailedStep, ReleaseStep
  <2>. QED  BY <1>1, <2>1, <2>2, ProgressOutside
<1>. QED  BY <1>2, <1>3

LEMMA ProgressEnvironment ==
    ASSUME Typed, Progress,
           \/ Tick \/ SourceChanges \/ Configure \/ ForceRelease
           \/ ResetCheckpoint \/ Review \/ UNCHANGED vars
    PROVE  Progress'
<1>1. UNCHANGED <<pc, provenance, outcomes>>
  BY DEF Tick, SourceChanges, Configure, ForceRelease, ResetCheckpoint, Review, vars,
     rowVars, runVars
<1>2. CursorsKept
  BY ResetCheckpointStep, CursorsStay
     DEF Tick, SourceChanges, Configure, ForceRelease, Review, vars
<1>3. ASSUME NEW v \in Jobs, pc[v] # "idle"
      PROVE  /\ job'[v].cursor = job[v].cursor /\ job'[v].at = job[v].at
             /\ job'[v].outcome = job[v].outcome
  BY <1>3, TickStep DEF SourceChanges, Configure, ForceRelease, ResetCheckpoint, Review, vars
<1>. QED  BY <1>1, <1>2, <1>3, ProgressStill

LEMMA ProgressStep == Typed /\ Progress /\ [Next]_vars => Progress'
<1>. SUFFICES ASSUME Typed, Progress, [Next]_vars PROVE Progress'
  OBVIOUS
<1>1. ASSUME NEW w \in Jobs, Step(w)
      PROVE  Progress'
  BY <1>1, ProgressAcquire, ProgressReadCheckpoint, ProgressNextPage, ProgressHandling,
     ProgressSaveProvenance, ProgressAppendOutcome, ProgressRecordSuccess,
     ProgressElsewhere DEF Step
<1>2. ASSUME NEW w \in Jobs, Arrive(w) \/ Fault(w) \/ Crash(w)
      PROVE  Progress'
  BY <1>2, ProgressArrive, ProgressFault
<1>. QED  BY <1>1, <1>2, ProgressEnvironment DEF Next

LEMMA ProgressInit == Init => Progress
  BY DEF Init, Progress, HandledBefore, OutcomeBacked, NothingSkipped

(* A checkpoint moves past handled records only, whatever fails, stops or  *)
(* runs beside it, with any number of jobs and scopes: recordSuccess is    *)
(* reached only from the end of a page on which every record has its       *)
(* outcome, and no later step takes a provenance or an outcome back.       *)
THEOREM CheckpointsSkipNothing == Spec => []NothingSkipped
<1>1. Init => Typed /\ Progress
  BY TypedInit, ProgressInit
<1>2. Typed /\ Progress /\ [Next]_vars => Typed' /\ Progress'
  BY TypedStep, ProgressStep
<1>3. Progress => NothingSkipped
  BY DEF Progress
<1>. QED  BY <1>1, <1>2, <1>3, PTL DEF Spec

(***************************************************************************)
(* Leases.  A run within its lease holds the lock of its scope, with as    *)
(* much of the lease left in the row, and no two runs at work have the     *)
(* same identifier; so a lock is neither replaced nor deleted under a run  *)
(* that is within its lease, unless an administrator does it.              *)
(***************************************************************************)
NoForce == "force release" \notin Operations

LeaseHeld ==
    \A w \in Jobs : Busy(w) /\ job[w].lease > 0 =>
        /\ locks[job[w].scope] # None
        /\ locks[job[w].scope].run = job[w].run
        /\ locks[job[w].scope].left = job[w].lease

RunsDistinct ==
    \A v, w \in Jobs : v # w /\ Busy(v) /\ Busy(w) => job[v].run # job[w].run

InTime == ~late => \A w \in Jobs : Busy(w) => job[w].lease > 0

Leased == LeaseHeld /\ RunsDistinct /\ InTime

LEMMA BusyAtWork ==
    ASSUME NEW w \in Jobs
    PROVE  /\ Busy(w) <=> pc[w] \in AtWork
           /\ Busy(w) => pc[w] # "idle" /\ pc[w] \notin Outside
  BY DEF Busy, AtWork, Working, Handling, Entering, Ending, Outside

LEMMA LeasedKept ==
    ASSUME Leased, NEW w \in Jobs, Others(w), Keeps(w), UNCHANGED <<locks, late>>
    PROVE  Leased'
<1>1. ASSUME NEW v \in Jobs, Busy(v)'
      PROVE  /\ Busy(v) /\ job'[v].scope = job[v].scope
             /\ job'[v].run = job[v].run /\ job'[v].lease = job[v].lease
  BY <1>1, BusyAtWork DEF Others, Keeps, Busy, AtWork, Working, Handling, Entering, Ending
<1>2. LeaseHeld'
  BY <1>1 DEF Leased, LeaseHeld
<1>3. RunsDistinct'
  BY <1>1 DEF Leased, RunsDistinct
<1>4. InTime'
  BY <1>1 DEF Leased, InTime
<1>. QED  BY <1>2, <1>3, <1>4 DEF Leased

LEMMA LeasedStill ==
    ASSUME Leased, UNCHANGED <<pc, job, locks, late>>
    PROVE  Leased'
  BY DEF Leased, LeaseHeld, RunsDistinct, InTime, Busy

LEMMA LeasedAcquire ==
    ASSUME Typed, Leased, NEW w \in Jobs, Acquire(w)
    PROVE  Leased'
<1>1. pc[w] = "acquire" /\ UNCHANGED late /\ Others(w)
  BY AcquireStep DEF Acquire
<1>2. job[w].scope \in Scopes /\ locks \in [Scopes -> Lock \cup {None}] /\ ~Busy(w)
  BY <1>1, JobAt, StoreAt DEF StoreOK, Busy, Working, Handling, Entering, Ending
<1>3. CASE pc'[w] = "idle" /\ UNCHANGED locks
  BY <1>1, <1>3, LeasedKept DEF Keeps
<1>4. ASSUME NEW r \in Runs, Unused(r), Free(job[w].scope), TakeLock(job[w].scope, r),
             job'[w].scope = job[w].scope, job'[w].run = r, job'[w].lease = Lease
      PROVE  Leased'
  <2>1. ASSUME NEW v \in Jobs, v # w, Busy(v)'
        PROVE  /\ Busy(v) /\ job'[v] = job[v] /\ job[v].run # r
               /\ job[v].lease > 0 => job[v].scope # job[w].scope
    <3>1. Busy(v) /\ job'[v] = job[v]
      BY <1>1, <2>1 DEF Others, Busy
    <3>2. job[v] # None /\ job[v].scope \in Scopes /\ job[v].lease \in Nat
      BY <3>1, BusyAtWork, JobAt, IngestionConstants DEF Job
    <3>3. job[v].run # r
      BY <1>4, <3>2 DEF Unused
    <3>4. ASSUME job[v].lease > 0 PROVE job[v].scope # job[w].scope
      BY <1>4, <3>1, <3>2, <3>4 DEF Leased, LeaseHeld, Free
    <3>. QED  BY <3>1, <3>3, <3>4
  <2>2. locks'[job[w].scope] = [run |-> r, left |-> Lease]
        /\ \A s \in Scopes : s # job[w].scope => locks'[s] = locks[s]
    BY <1>2, <1>4 DEF TakeLock
  <2>3. [run |-> r, left |-> Lease] # None
    <3>1. [run |-> r, left |-> Lease] \in Lock
      BY IngestionConstants DEF Lock
    <3>. QED  BY <3>1, NoneIsNoRow
  <2>4. LeaseHeld'
    <3>1. ASSUME NEW v \in Jobs, Busy(v)', job'[v].lease > 0
          PROVE  /\ locks'[job'[v].scope] # None
                 /\ locks'[job'[v].scope].run = job'[v].run
                 /\ locks'[job'[v].scope].left = job'[v].lease
      <4>1. CASE v = w
        BY <1>4, <2>2, <2>3, <4>1
      <4>2. CASE v # w
        <5>1. job[v].scope \in Scopes
          BY <2>1, <3>1, <4>2, BusyAtWork, JobAt
        <5>. QED  BY <2>1, <2>2, <3>1, <4>2, <5>1 DEF Leased, LeaseHeld
      <4>. QED  BY <4>1, <4>2
    <3>. QED  BY <3>1 DEF LeaseHeld
  <2>5. RunsDistinct'
    BY <1>4, <2>1 DEF Leased, RunsDistinct
  <2>6. InTime'
    BY <1>1, <1>4, <2>1, IngestionConstants DEF Leased, InTime
  <2>. QED  BY <2>4, <2>5, <2>6 DEF Leased
<1>. QED  BY <1>3, <1>4, AcquireStep

LEMMA LeasedRelease ==
    ASSUME Typed, Leased, NEW w \in Jobs, Release(w)
    PROVE  Leased'
<1>1. /\ pc[w] = "release" /\ pc'[w] = "idle" /\ UNCHANGED late /\ Others(w) /\ Busy(w)
      /\ IF Holds(w) THEN Unlock(job[w].scope) ELSE UNCHANGED locks
  BY ReleaseStep DEF Release, Busy, Ending
<1>2. job[w].scope \in Scopes /\ locks \in [Scopes -> Lock \cup {None}]
  BY <1>1, JobAt, StoreAt DEF StoreOK
<1>3. ASSUME NEW v \in Jobs, Busy(v)'
      PROVE  v # w /\ Busy(v) /\ job'[v] = job[v] /\ job[v].scope \in Scopes
  BY <1>1, <1>3, BusyAtWork, JobAt DEF Others, Busy, Working, Handling, Entering, Ending
<1>4. ASSUME NEW v \in Jobs, Busy(v)', job[v].lease > 0
      PROVE  locks'[job[v].scope] = locks[job[v].scope]
  <2>1. CASE ~Holds(w)
    BY <1>1, <2>1
  <2>2. CASE Holds(w)
    <3>1. v # w /\ Busy(v) /\ job[v].scope \in Scopes
      BY <1>3, <1>4
    <3>2. job[v].run # job[w].run
      BY <1>1, <3>1 DEF Leased, RunsDistinct
    <3>3. locks[job[v].scope].run = job[v].run
      BY <1>4, <3>1 DEF Leased, LeaseHeld
    <3>4. job[v].scope # job[w].scope
      BY <2>2, <3>2, <3>3 DEF Holds
    <3>. QED  BY <1>1, <1>2, <2>2, <3>1, <3>4 DEF Unlock
  <2>. QED  BY <2>1, <2>2
<1>5. LeaseHeld'
  BY <1>3, <1>4 DEF Leased, LeaseHeld
<1>6. RunsDistinct'
  BY <1>3 DEF Leased, RunsDistinct
<1>7. InTime'
  BY <1>1, <1>3 DEF Leased, InTime
<1>. QED  BY <1>5, <1>6, <1>7 DEF Leased

LEMMA LeasedTick ==
    ASSUME Typed, Leased, Tick
    PROVE  Leased'
<1>1. ASSUME NEW v \in Jobs
      PROVE  /\ Busy(v)' <=> Busy(v)
             /\ Busy(v) => /\ job[v].lease \in Nat /\ job[v].scope \in Scopes
                           /\ job'[v].lease = Sooner(job[v].lease)
                           /\ job'[v].scope = job[v].scope /\ job'[v].run = job[v].run
  BY TickStep, BusyAtWork, JobAt DEF Tick, Busy
<1>2. LeaseHeld'
  <2>1. ASSUME NEW v \in Jobs, Busy(v), job'[v].lease > 0
        PROVE  /\ locks'[job[v].scope] # None
               /\ locks'[job[v].scope].run = job[v].run
               /\ locks'[job[v].scope].left = job'[v].lease
    <3>1. job[v].lease > 0
      BY <1>1, <2>1 DEF Sooner
    <3>2. /\ locks[job[v].scope] # None /\ locks[job[v].scope].run = job[v].run
          /\ locks[job[v].scope].left = job[v].lease
      BY <2>1, <3>1 DEF Leased, LeaseHeld
    <3>. QED  BY <1>1, <2>1, <3>2, TickStep
  <2>. QED  BY <1>1, <2>1 DEF LeaseHeld
<1>3. RunsDistinct'
  BY <1>1 DEF Leased, RunsDistinct
<1>4. InTime'
  <2>1. ASSUME ~late', NEW v \in Jobs, Busy(v)
        PROVE  job'[v].lease > 0
    <3>1. ~(job[v].lease <= 1) /\ ~late
      BY <2>1 DEF Tick
    <3>. QED  BY <1>1, <2>1, <3>1 DEF Sooner
  <2>. QED  BY <1>1, <2>1 DEF InTime
<1>. QED  BY <1>2, <1>3, <1>4 DEF Leased

LEMMA LeasedStep ==
    ASSUME NoForce, Typed, Leased, [Next]_vars
    PROVE  Leased'
<1>1. ASSUME NEW w \in Jobs, Step(w), ~Acquire(w), ~Release(w)
      PROVE  Leased'
  <2>1. UNCHANGED <<locks, late>>
    BY <1>1 DEF Step, ReadConfiguration, Confirm, ReadCheckpoint, CreateRun, MarkRunning,
       NextPage, Lookup, LoadCandidate, UpdateCandidate, CreateCandidate, SaveProvenance,
       AppendOutcome, RecordSuccess, ThresholdReached, MarkCompleted, RunFailure, MarkFailed
  <2>2. CASE \/ ReadConfiguration(w) \/ Confirm(w) \/ CreateRun(w) \/ MarkRunning(w)
             \/ Lookup(w) \/ LoadCandidate(w) \/ UpdateCandidate(w) \/ CreateCandidate(w)
             \/ SaveProvenance(w) \/ ThresholdReached(w) \/ MarkCompleted(w)
             \/ RunFailure(w) \/ MarkFailed(w)
    <3>1. Others(w) /\ Keeps(w)
      BY <2>2, ReadConfigurationStep, ConfirmStep, CreateRunStep, MarkRunningStep,
         LookupStep, LoadCandidateStep, UpdateCandidateStep, CreateCandidateStep,
         SaveProvenanceStep, ThresholdReachedStep, MarkCompletedStep, RunFailureStep,
         MarkFailedStep
    <3>. QED  BY <2>1, <3>1, LeasedKept
  <2>3. CASE ReadCheckpoint(w) \/ NextPage(w) \/ AppendOutcome(w) \/ RecordSuccess(w)
    <3>1. /\ Others(w) /\ Busy(w) /\ job'[w].scope = job[w].scope
          /\ job'[w].run = job[w].run /\ job'[w].lease = job[w].lease
      BY <2>3, ReadCheckpointStep, NextPageStep, AppendOutcomeStep, RecordSuccessStep
         DEF Busy, Working, Entering
    <3>2. ASSUME NEW v \in Jobs, Busy(v)'
          PROVE  /\ Busy(v) /\ job'[v].scope = job[v].scope
                 /\ job'[v].run = job[v].run /\ job'[v].lease = job[v].lease
      BY <3>1, <3>2 DEF Others, Busy
    <3>. QED  BY <2>1, <3>2 DEF Leased, LeaseHeld, RunsDistinct, InTime
  <2>. QED  BY <1>1, <2>2, <2>3 DEF Step
<1>2. ASSUME NEW w \in Jobs, Arrive(w)
      PROVE  Leased'
  <2>1. ASSUME NEW v \in Jobs, Busy(v)'
        PROVE  Busy(v) /\ job'[v] = job[v]
    BY <1>2, <2>1, ArriveStep DEF Others, Busy, Working, Handling, Entering, Ending
  <2>. QED  BY <1>2, <2>1 DEF Arrive, Leased, LeaseHeld, RunsDistinct, InTime
<1>3. ASSUME NEW w \in Jobs, Fault(w) \/ Crash(w)
      PROVE  Leased'
  <2>1. Others(w) /\ Keeps(w) /\ UNCHANGED <<locks, late>>
    BY <1>3, FaultStep, CrashStep DEF Fault, Crash
  <2>. QED  BY <2>1, LeasedKept
<1>4. CASE SourceChanges \/ Configure \/ ResetCheckpoint \/ Review \/ UNCHANGED vars
  BY <1>4, LeasedStill DEF SourceChanges, Configure, ResetCheckpoint, Review, vars
<1>5. ~ForceRelease
  BY DEF ForceRelease, NoForce
<1>6. ASSUME NEW w \in Jobs, Acquire(w) \/ Release(w)
      PROVE  Leased'
  BY <1>6, LeasedAcquire, LeasedRelease
<1>. QED  BY <1>1, <1>2, <1>3, <1>4, <1>5, <1>6, LeasedTick DEF Next

LEMMA LeasedInit == Init => Leased
  BY DEF Init, Leased, LeaseHeld, RunsDistinct, InTime, Busy, Working, Handling, Entering, Ending

LEMMA AtMostOne ==
    ASSUME Typed, Leased PROVE LeaseExclusive
<1>1. ASSUME NEW v \in Jobs, NEW w \in Jobs, v # w, Busy(v), Busy(w),
             job[v].scope = job[w].scope, job[v].lease > 0, job[w].lease > 0
      PROVE  FALSE
  BY <1>1 DEF Leased, LeaseHeld, RunsDistinct
<1>2. ASSUME NEW v \in Jobs, Busy(v), ~(job[v].lease > 0)
      PROVE  job[v].lease = 0
  BY <1>2, BusyAtWork, JobAt, IngestionConstants DEF Job
<1>. QED  BY <1>1, <1>2 DEF LeaseExclusive

(* Of two runs on one scope one at most is within its lease, for any       *)
(* number of jobs and scopes and any lease, unless an administrator        *)
(* releases a lock by force: a lock is taken only when its lease is over,  *)
(* and a run deletes only the lock that bears its own identifier.          *)
THEOREM LeasesExclude ==
    ASSUME "force release" \notin Operations
    PROVE  Spec => []LeaseExclusive
<1>. NoForce
  BY DEF NoForce
<1>1. Init => Typed /\ Leased
  BY TypedInit, LeasedInit
<1>2. Typed /\ Leased /\ [Next]_vars => Typed' /\ Leased'
  BY TypedStep, LeasedStep
<1>3. Typed /\ Leased => LeaseExclusive
  BY AtMostOne
<1>. QED  BY <1>1, <1>2, <1>3, PTL DEF Spec

(***************************************************************************)
(* What is known of a record.  While every run is within its lease, one    *)
(* job at most is at work on the only scope.                               *)
(***************************************************************************)
OneScope == Scopes = {Default}

LEMMA OneAtWork ==
    ASSUME OneScope, Typed, Leased, ~late,
           NEW v \in Jobs, NEW w \in Jobs, pc[v] \in AtWork, pc[w] \in AtWork
    PROVE  v = w
<1>1. Busy(v) /\ Busy(w) /\ job[v].scope = Default /\ job[w].scope = Default
  BY BusyAtWork, JobAt DEF OneScope
<1>2. job[v].lease > 0 /\ job[w].lease > 0
  BY <1>1 DEF Leased, InTime
<1>. QED  BY <1>1, <1>2 DEF Leased, LeaseHeld, RunsDistinct

CandidateOf(r, c) == candidates[c] # None /\ candidates[c].record = r

(* The exception is a candidate whose last update came while it was        *)
(* decided.                                                                *)
NotAhead(c, v) == c \notin withheld => candidates[c].version >= v

RecordKnown(r) ==
    provenance[r] # None =>
        /\ CandidateOf(r, provenance[r].candidate)
        /\ NotAhead(provenance[r].candidate, provenance[r].version)
        /\ provenance[r].version <= remote[r]

(* What a job knows of the records it read and of the one it is at.        *)
JobKnows(w) ==
    LET j == job[w]
        r == job[w].at
    IN
    /\ pc[w] \in Reading =>
          \A x \in Records :
             /\ j.seen[x] <= remote[x]
             /\ provenance[x] # None => provenance[x].version <= j.seen[x]
    /\ pc[w] \in {"load", "update"} =>
          provenance[r] # None /\ provenance[r].candidate = j.candidate
    /\ pc[w] = "load" /\ j.outcome = "duplicate" => provenance[r].version = j.seen[r]
    /\ pc[w] = "insert" => provenance[r] = None
    /\ pc[w] = "save" =>
          /\ CandidateOf(r, j.candidate) /\ NotAhead(j.candidate, j.seen[r])
          /\ provenance[r] # None => provenance[r].candidate = j.candidate

Evidence ==
    ~late => /\ \A r \in Records : RecordKnown(r)
             /\ \A w \in Jobs : JobKnows(w)

Deciding == {"load", "update", "insert", "save"}

LEMMA DecidingReads == Deciding \subseteq Reading /\ Reading \subseteq AtWork
  BY DEF Deciding, Reading, Handling, AtWork, Working

(* A job that leaves the page, or stays on it without deciding about its   *)
(* candidate.                                                              *)
LEMMA EvidenceKept ==
    ASSUME Evidence, NEW w \in Jobs, Others(w), pc'[w] \notin Deciding,
           pc'[w] \in Reading => pc[w] \in Reading /\ job'[w].seen = job[w].seen,
           UNCHANGED <<remote, candidates, withheld, provenance, late>>
    PROVE  Evidence'
<1>. SUFFICES ASSUME ~late PROVE Evidence'
  BY DEF Evidence
<1>1. ASSUME NEW r \in Records PROVE RecordKnown(r)'
  BY DEF Evidence, RecordKnown, CandidateOf, NotAhead
<1>2. ASSUME NEW v \in Jobs, v # w PROVE JobKnows(v)'
  <2>1. pc'[v] = pc[v] /\ job'[v] = job[v] /\ JobKnows(v)
    BY <1>2 DEF Others, Evidence
  <2>. QED  BY <2>1 DEF JobKnows, CandidateOf, NotAhead
<1>3. JobKnows(w)'
  <2>1. JobKnows(w)
    BY DEF Evidence
  <2>. QED  BY <2>1 DEF JobKnows, Deciding
<1>. QED  BY <1>1, <1>2, <1>3 DEF Evidence

(* Beside a job at work no other one knows anything.                       *)
LEMMA OthersKnowNothing ==
    ASSUME OneScope, Typed, Leased, ~late, NEW w \in Jobs, pc[w] \in Reading, Others(w),
           NEW v \in Jobs, v # w
    PROVE  JobKnows(v)'
<1>1. pc'[v] \notin Reading
  BY OneAtWork, DecidingReads DEF Others
<1>. QED  BY <1>1, DecidingReads DEF JobKnows, Deciding

(* What a job knew when it had looked the record up still holds.           *)
LEMMA EvidenceLookup ==
    ASSUME OneScope, Typed, Leased, Evidence, NEW w \in Jobs, Lookup(w)
    PROVE  Evidence'
<1>. SUFFICES ASSUME ~late PROVE Evidence'
  BY DEF Lookup, Evidence
<1>1. /\ pc[w] = "lookup" /\ pc[w] \in Reading /\ Others(w) /\ Keeps(w)
      /\ UNCHANGED <<remote, candidates, withheld, provenance, late>>
  BY LookupStep DEF Lookup, Reading, Handling, rowVars
<1>2. CASE pc'[w] = "outcome"
  BY <1>1, <1>2, EvidenceKept DEF Deciding, Keeps
<1>3. CASE pc'[w] \in {"insert", "load"}
  <2>1. job'[w].at = job[w].at /\ job'[w].seen = job[w].seen /\ JobKnows(w)
    BY <1>1, <1>3 DEF Keeps, Reading, Handling, Evidence
  <2>2. JobKnows(w)'
    BY <1>1, <1>3, <2>1, LookupStep DEF JobKnows
  <2>3. ASSUME NEW r \in Records PROVE RecordKnown(r)'
    BY <1>1 DEF Evidence, RecordKnown, CandidateOf, NotAhead
  <2>. QED  BY <1>1, <2>2, <2>3, OthersKnowNothing DEF Evidence
<1>. QED  BY <1>2, <1>3, LookupStep

LEMMA EvidenceLoadCandidate ==
    ASSUME OneScope, Typed, Leased, Evidence, NEW w \in Jobs, LoadCandidate(w)
    PROVE  Evidence'
<1>. SUFFICES ASSUME ~late PROVE Evidence'
  BY DEF LoadCandidate, Evidence
<1>1. /\ pc[w] = "load" /\ pc[w] \in Reading /\ Others(w) /\ Keeps(w)
      /\ UNCHANGED <<remote, candidates, withheld, provenance, late>>
  BY LoadCandidateStep DEF LoadCandidate, Reading, Handling, rowVars
<1>2. CASE pc'[w] = "outcome"
  BY <1>1, <1>2, EvidenceKept DEF Deciding, Keeps
<1>3. ASSUME pc'[w] \in {"save", "update"}, job'[w] = job[w],
             pc'[w] = "save" => job[w].outcome = "duplicate"
      PROVE  Evidence'
  <2>1. JobKnows(w) /\ job[w].at \in Records /\ RecordKnown(job[w].at)
    BY <1>1, JobAt DEF Evidence, JobOK, Handling
  <2>2. CandidateOf(job[w].at, job[w].candidate)
        /\ (job[w].outcome = "duplicate" =>
               NotAhead(job[w].candidate, job[w].seen[job[w].at]))
    BY <1>1, <2>1 DEF JobKnows, RecordKnown
  <2>3. JobKnows(w)'
    BY <1>1, <1>3, <2>1, <2>2 DEF JobKnows, CandidateOf, NotAhead, Reading, Handling
  <2>4. ASSUME NEW r \in Records PROVE RecordKnown(r)'
    BY <1>1 DEF Evidence, RecordKnown, CandidateOf, NotAhead
  <2>. QED  BY <1>1, <2>3, <2>4, OthersKnowNothing DEF Evidence
<1>. QED  BY <1>2, <1>3, LoadCandidateStep

LEMMA EvidenceUpdateCandidate ==
    ASSUME OneScope, Typed, Leased, Evidence, NEW w \in Jobs, UpdateCandidate(w)
    PROVE  Evidence'
<1>. SUFFICES ASSUME ~late PROVE Evidence'
  BY DEF UpdateCandidate, Evidence
<1>. DEFINE c == job[w].candidate
            at == job[w].at
<1>1. /\ pc[w] = "update" /\ pc[w] \in Reading /\ Others(w) /\ Keeps(w)
      /\ UNCHANGED <<remote, provenance, late>>
      /\ c \in Candidates /\ candidates[c] # None
      /\ candidates \in [Candidates -> Candidate \cup {None}]
  BY UpdateCandidateStep, StoreAt DEF UpdateCandidate, Reading, Handling, StoreOK
<1>2. CASE pc'[w] = "outcome" /\ UNCHANGED <<candidates, withheld>>
  BY <1>1, <1>2, EvidenceKept DEF Deciding, Keeps
<1>3. /\ JobKnows(w) /\ at \in Records /\ RecordKnown(at)
      /\ provenance[at] # None /\ provenance[at].candidate = c /\ CandidateOf(at, c)
      /\ provenance[at].version <= job[w].seen[at]
      /\ job[w].seen[at] \in 0 .. MaxVersion
  BY <1>1, JobAt DEF Evidence, JobOK, Handling, JobKnows, RecordKnown, Job
<1>4. ASSUME pc'[w] = "save", job'[w] = job[w], ~Undecided(c), UNCHANGED candidates,
             withheld' = IF Missed(c, Seen(w)) THEN withheld \cup {c} ELSE withheld
      PROVE  Evidence'
  <2>1. NotAhead(c, job[w].seen[at])'
    <3>1. candidates[c] \in Candidate /\ candidates[c].status = "decided"
      BY <1>1, <1>4 DEF Undecided, Candidate, ReviewStatuses
    <3>2. candidates[c].version \in Int /\ job[w].seen[at] \in Int
      BY <1>3, <3>1, IngestionConstants DEF Candidate
    <3>3. CASE Missed(c, Seen(w))
      BY <1>4, <3>3 DEF NotAhead
    <3>4. CASE ~Missed(c, Seen(w))
      BY <1>4, <3>1, <3>2, <3>4 DEF NotAhead, Missed, Seen
    <3>. QED  BY <3>3, <3>4
  <2>2. JobKnows(w)'
    <3>1. candidates'[c] # None /\ candidates'[c].record = at
      BY <1>3, <1>4 DEF CandidateOf
    <3>2. \A x \in Records :
             /\ job[w].seen[x] <= remote[x]
             /\ provenance[x] # None => provenance[x].version <= job[w].seen[x]
      BY <1>1, <1>3 DEF JobKnows
    <3>. QED  BY <1>1, <1>3, <1>4, <2>1, <3>1, <3>2 DEF JobKnows, CandidateOf
  <2>3. withheld \subseteq withheld'
    BY <1>4
  <2>4. ASSUME NEW r \in Records PROVE RecordKnown(r)'
    BY <1>1, <1>4, <2>3 DEF Evidence, RecordKnown, CandidateOf, NotAhead
  <2>. QED  BY <1>1, <2>2, <2>4, OthersKnowNothing DEF Evidence
<1>5. ASSUME pc'[w] = "save", job'[w] = job[w], withheld' = withheld \ {c},
             candidates' = [candidates EXCEPT ![c] = [candidates[c] EXCEPT !.version = Seen(w)]]
      PROVE  Evidence'
  <2>. DEFINE k == [candidates[c] EXCEPT !.version = Seen(w)]
  <2>1. k \in Candidate /\ k.record = at /\ k.version = job[w].seen[at]
    BY <1>1, <1>3, VersionFields DEF Seen, CandidateOf
  <2>2. candidates' = [candidates EXCEPT ![c] = k]
    BY <1>5
  <2>. HIDE DEF k
  <2>3. candidates'[c] = k /\ k # None /\ \A d \in Candidates : d # c => candidates'[d] = candidates[d]
    BY <1>1, <2>1, <2>2, NoneIsNoRow
  <2>4. JobKnows(w)'
    <3>1. candidates'[c].version >= job[w].seen[at]
      BY <1>3, <2>1, <2>3, IngestionConstants
    <3>2. candidates'[c] # None /\ candidates'[c].record = at
      BY <2>1, <2>3
    <3>3. \A x \in Records :
             /\ job[w].seen[x] <= remote[x]
             /\ provenance[x] # None => provenance[x].version <= job[w].seen[x]
      BY <1>1, <1>3 DEF JobKnows
    <3>. HIDE DEF c, at
    <3>. QED  BY <1>1, <1>3, <1>5, <3>1, <3>2, <3>3 DEF JobKnows, CandidateOf, NotAhead, c, at
  <2>5. ASSUME NEW r \in Records PROVE RecordKnown(r)'
    <3>1. CASE provenance[r] = None
      BY <1>1, <3>1 DEF RecordKnown
    <3>2. CASE provenance[r] # None /\ provenance[r].candidate = c
      <4>1. r = at
        BY <1>3, <3>2 DEF Evidence, RecordKnown, CandidateOf
      <4>. QED  BY <1>1, <1>3, <2>1, <2>3, <3>2, <4>1
              DEF Evidence, RecordKnown, CandidateOf, NotAhead
    <3>3. CASE provenance[r] # None /\ provenance[r].candidate # c
      <4>1. provenance[r].candidate \in Candidates
        BY <3>3, StoreAt DEF StoreOK, Provenance
      <4>. QED  BY <1>1, <1>5, <2>3, <3>3, <4>1 DEF Evidence, RecordKnown, CandidateOf, NotAhead
    <3>. QED  BY <3>1, <3>2, <3>3
  <2>. QED  BY <1>1, <2>4, <2>5, OthersKnowNothing DEF Evidence
<1>. QED  BY <1>2, <1>4, <1>5, UpdateCandidateStep

LEMMA EvidenceCreateCandidate ==
    ASSUME OneScope, Typed, Leased, Evidence, NEW w \in Jobs, CreateCandidate(w)
    PROVE  Evidence'
<1>. SUFFICES ASSUME ~late PROVE Evidence'
  BY DEF CreateCandidate, Evidence
<1>. DEFINE at == job[w].at
<1>1. /\ pc[w] = "insert" /\ pc[w] \in Reading /\ Others(w) /\ Keeps(w)
      /\ UNCHANGED <<remote, withheld, provenance, late>>
      /\ candidates \in [Candidates -> Candidate \cup {None}]
  BY CreateCandidateStep, StoreAt DEF CreateCandidate, Reading, Handling, StoreOK
<1>2. CASE pc'[w] = "outcome" /\ UNCHANGED candidates
  BY <1>1, <1>2, EvidenceKept DEF Deciding, Keeps
<1>3. /\ JobKnows(w) /\ at \in Records /\ provenance[at] = None
      /\ job[w].seen[at] \in 0 .. MaxVersion
  BY <1>1, JobAt DEF Evidence, JobOK, Handling, JobKnows, Job
<1>4. ASSUME NEW c \in Candidates, candidates[c] = None, pc'[w] = "save",
             job'[w].candidate = c,
             candidates' = [candidates EXCEPT ![c] = NewCandidate(at, Seen(w))]
      PROVE  Evidence'
  <2>. DEFINE k == NewCandidate(at, Seen(w))
  <2>1. k \in Candidate /\ k.record = at /\ k.version = job[w].seen[at]
    BY <1>3 DEF NewCandidate, Candidate, ReviewStatuses, Seen
  <2>2. candidates' = [candidates EXCEPT ![c] = k]
    BY <1>4
  <2>. HIDE DEF k
  <2>3. /\ candidates'[c] = k /\ k # None
        /\ \A d \in Candidates : d # c => candidates'[d] = candidates[d]
    BY <1>1, <2>1, <2>2, NoneIsNoRow
  <2>4. job'[w].at = at /\ job'[w].seen = job[w].seen
    BY <1>1, <1>4 DEF Keeps, Reading, Handling
  <2>5. JobKnows(w)'
    <3>1. candidates'[c].version >= job[w].seen[at]
      BY <1>3, <2>1, <2>3, IngestionConstants
    <3>2. candidates'[c] # None /\ candidates'[c].record = at
      BY <2>1, <2>3
    <3>3. \A x \in Records :
             /\ job[w].seen[x] <= remote[x]
             /\ provenance[x] # None => provenance[x].version <= job[w].seen[x]
      BY <1>1, <1>3 DEF JobKnows
    <3>. HIDE DEF at
    <3>. QED  BY <1>1, <1>3, <1>4, <2>4, <3>1, <3>2, <3>3 DEF JobKnows, CandidateOf, NotAhead
  <2>6. ASSUME NEW r \in Records PROVE RecordKnown(r)'
    <3>1. CASE provenance[r] = None
      BY <1>1, <3>1 DEF RecordKnown
    <3>2. CASE provenance[r] # None
      <4>1. provenance[r].candidate \in Candidates /\ provenance[r].candidate # c
        BY <1>4, <3>2, StoreAt DEF StoreOK, Provenance, Evidence, RecordKnown, CandidateOf
      <4>. QED  BY <1>1, <2>3, <3>2, <4>1 DEF Evidence, RecordKnown, CandidateOf, NotAhead
    <3>. QED  BY <3>1, <3>2
  <2>. QED  BY <1>1, <2>5, <2>6, OthersKnowNothing DEF Evidence
<1>. QED  BY <1>2, <1>4, CreateCandidateStep

LEMMA EvidenceSaveProvenance ==
    ASSUME OneScope, Typed, Leased, Evidence, NEW w \in Jobs, SaveProvenance(w)
    PROVE  Evidence'
<1>. SUFFICES ASSUME ~late PROVE Evidence'
  BY DEF SaveProvenance, Evidence
<1>. DEFINE at == job[w].at
            v  == job[w].seen[at]
            p  == [candidate |-> job[w].candidate, version |-> v]
<1>1. /\ pc[w] = "save" /\ pc[w] \in Reading /\ Others(w) /\ pc'[w] = "outcome"
      /\ job'[w] = job[w] /\ UNCHANGED <<remote, candidates, withheld, late>>
      /\ at \in Records /\ job[w].candidate \in Candidates
      /\ provenance \in [Records -> Provenance \cup {None}]
  BY SaveProvenanceStep, StoreAt DEF SaveProvenance, Reading, Handling, StoreOK
<1>2. provenance' = [provenance EXCEPT ![at] = p]
  BY SaveProvenanceStep DEF Upsert, Seen
<1>3. JobKnows(w) /\ v \in 0 .. MaxVersion
  BY <1>1, JobAt DEF Evidence, Job
<1>4. /\ CandidateOf(at, job[w].candidate) /\ NotAhead(job[w].candidate, v)
      /\ \A x \in Records :
            /\ job[w].seen[x] <= remote[x]
            /\ provenance[x] # None => provenance[x].version <= job[w].seen[x]
  BY <1>1, <1>3 DEF JobKnows
<1>5. /\ provenance'[at] = p /\ p.candidate = job[w].candidate /\ p.version = v
      /\ \A x \in Records : x # at => provenance'[x] = provenance[x]
  BY <1>1, <1>2
<1>. HIDE DEF p, v
<1>6. ASSUME NEW r \in Records PROVE RecordKnown(r)'
  <2>1. CASE r = at
    BY <1>1, <1>4, <1>5, <2>1 DEF RecordKnown, CandidateOf, NotAhead, v
  <2>2. CASE r # at
    BY <1>1, <1>5, <2>2 DEF Evidence, RecordKnown, CandidateOf, NotAhead
  <2>. QED  BY <2>1, <2>2
<1>7. JobKnows(w)'
  <2>1. ASSUME NEW x \in Records, provenance'[x] # None
        PROVE  provenance'[x].version <= job[w].seen[x]
    BY <1>1, <1>3, <1>4, <1>5, <2>1, IngestionConstants DEF v
  <2>. QED  BY <1>1, <1>4, <2>1 DEF JobKnows
<1>. QED  BY <1>1, <1>6, <1>7, OthersKnowNothing DEF Evidence

(* A page says what the source said when it was fetched.                   *)
LEMMA EvidenceNextPage ==
    ASSUME OneScope, Typed, Leased, Evidence, NEW w \in Jobs, NextPage(w)
    PROVE  Evidence'
<1>. SUFFICES ASSUME ~late PROVE Evidence'
  BY DEF NextPage, Evidence
<1>1. /\ pc[w] = "page" /\ Others(w) /\ UNCHANGED <<remote, candidates, withheld, provenance, late>>
      /\ remote \in [Records -> 0 .. MaxVersion]
  BY NextPageStep, StoreAt DEF NextPage, rowVars, StoreOK
<1>2. CASE pc'[w] = "complete"
  BY <1>1, <1>2, EvidenceKept DEF Deciding, Reading, Handling
<1>3. CASE pc'[w] \in {"lookup", "success"} /\ job'[w].seen = remote
  <2>1. ASSUME NEW r \in Records
        PROVE  /\ RecordKnown(r) /\ remote[r] <= remote[r]
               /\ provenance[r] # None => provenance[r].version <= remote[r]
    BY <1>1, IngestionConstants DEF Evidence, RecordKnown
  <2>2. JobKnows(w)'
    BY <1>1, <1>3, <2>1 DEF JobKnows
  <2>3. ASSUME NEW r \in Records PROVE RecordKnown(r)'
    BY <1>1, <2>1 DEF RecordKnown, CandidateOf, NotAhead
  <2>4. ASSUME NEW v \in Jobs, v # w PROVE JobKnows(v)'
    <3>1. pc'[v] \notin Reading
      BY <1>1, <2>4, OneAtWork, DecidingReads DEF Others, AtWork, Working
    <3>. QED  BY <3>1, DecidingReads DEF JobKnows, Deciding
  <2>. QED  BY <2>2, <2>3, <2>4 DEF Evidence
<1>. QED  BY <1>2, <1>3, NextPageStep

LEMMA EvidenceElsewhere ==
    ASSUME Typed, Evidence, NEW w \in Jobs,
           \/ Arrive(w) \/ ReadConfiguration(w) \/ Acquire(w) \/ Confirm(w)
           \/ ReadCheckpoint(w) \/ CreateRun(w) \/ MarkRunning(w)
           \/ AppendOutcome(w) \/ RecordSuccess(w) \/ ThresholdReached(w)
           \/ MarkCompleted(w) \/ RunFailure(w) \/ MarkFailed(w) \/ Release(w)
           \/ Fault(w) \/ Crash(w)
    PROVE  Evidence'
<1>1. UNCHANGED <<remote, candidates, withheld, provenance, late>>
  BY DEF Arrive, ReadConfiguration, Acquire, Confirm, ReadCheckpoint, CreateRun,
     MarkRunning, AppendOutcome, RecordSuccess, ThresholdReached, MarkCompleted,
     RunFailure, MarkFailed, Release, Fault, Crash, rowVars
<1>2. CASE \/ ReadConfiguration(w) \/ Confirm(w) \/ CreateRun(w) \/ MarkRunning(w)
           \/ ThresholdReached(w) \/ MarkCompleted(w)
           \/ RunFailure(w) \/ MarkFailed(w) \/ Release(w)
  <2>1. pc[w] \notin Reading
    BY <1>2 DEF ReadConfiguration, Confirm, CreateRun, MarkRunning, ThresholdReached,
       MarkCompleted, RunFailure, MarkFailed, Release, Reading, Handling
  <2>2. Others(w) /\ Keeps(w)
    BY <1>2, ReadConfigurationStep, ConfirmStep, CreateRunStep, MarkRunningStep,
       ThresholdReachedStep, MarkCompletedStep, RunFailureStep, MarkFailedStep, ReleaseStep
  <2>3. pc'[w] \notin Reading
    BY <2>1, <2>2 DEF Keeps, Reading, Handling
  <2>. QED  BY <1>1, <2>2, <2>3, EvidenceKept, DecidingReads
<1>3. CASE Arrive(w) \/ Acquire(w) \/ ReadCheckpoint(w) \/ RecordSuccess(w)
  <2>1. Others(w) /\ pc'[w] \notin Reading
    BY <1>3, ArriveStep, AcquireStep, ReadCheckpointStep, RecordSuccessStep
       DEF Reading, Handling
  <2>. QED  BY <1>1, <2>1, EvidenceKept, DecidingReads
<1>4. CASE AppendOutcome(w)
  BY <1>1, <1>4, AppendOutcomeStep, EvidenceKept DEF Deciding, Reading, Handling
<1>5. CASE Fault(w) \/ Crash(w)
  <2>1. Others(w) /\ Keeps(w) /\ pc'[w] \in {"outcome", "failure", "release", "idle"}
    BY <1>5, FaultStep, CrashStep
  <2>. QED  BY <1>1, <2>1, EvidenceKept DEF Keeps, Deciding, Reading, Handling
<1>. QED  BY <1>2, <1>3, <1>4, <1>5

LEMMA EvidenceTick ==
    ASSUME Typed, Evidence, Tick
    PROVE  Evidence'
<1>. SUFFICES ASSUME ~late' PROVE Evidence'
  BY DEF Evidence
<1>1. ~late /\ UNCHANGED <<remote, candidates, withheld, provenance, pc>>
  BY DEF Tick, rowVars
<1>2. ASSUME NEW r \in Records PROVE RecordKnown(r)'
  BY <1>1 DEF Evidence, RecordKnown, CandidateOf, NotAhead
<1>3. ASSUME NEW w \in Jobs PROVE JobKnows(w)'
  <2>1. CASE pc[w] = "idle"
    BY <1>1, <2>1 DEF JobKnows, Reading, Handling
  <2>2. CASE pc[w] # "idle"
    <3>1. /\ job'[w].at = job[w].at /\ job'[w].seen = job[w].seen
          /\ job'[w].candidate = job[w].candidate /\ job'[w].outcome = job[w].outcome
      BY <2>2, TickStep
    <3>2. JobKnows(w)
      BY <1>1 DEF Evidence
    <3>. QED  BY <1>1, <3>1, <3>2 DEF JobKnows, CandidateOf, NotAhead
  <2>. QED  BY <2>1, <2>2
<1>. QED  BY <1>2, <1>3 DEF Evidence

LEMMA EvidenceSourceChanges ==
    ASSUME Typed, Evidence, SourceChanges
    PROVE  Evidence'
<1>. SUFFICES ASSUME ~late PROVE Evidence'
  BY DEF SourceChanges, Evidence
<1>1. /\ UNCHANGED <<candidates, withheld, provenance, pc, job, late>>
      /\ \A r \in Records : remote'[r] >= remote[r]
      /\ StoreOK /\ remote' \in [Records -> 0 .. MaxVersion]
  BY SourceChangesStep, StoreAt DEF SourceChanges, rowVars, Typed, TypeOK
<1>2. ASSUME NEW r \in Records
      PROVE  /\ remote[r] \in Int /\ remote'[r] \in Int
             /\ provenance[r] # None => provenance[r].version \in Int
  BY <1>1, IngestionConstants DEF StoreOK, Provenance
<1>3. ASSUME NEW r \in Records PROVE RecordKnown(r)'
  <2>1. provenance[r] # None => provenance[r].version <= remote'[r]
    <3>1. provenance[r] # None => provenance[r].version <= remote[r]
      BY DEF Evidence, RecordKnown
    <3>2. remote[r] <= remote'[r]
      BY <1>1, <1>2
    <3>. QED  BY <1>2, <3>1, <3>2
  <2>. QED  BY <1>1, <2>1 DEF Evidence, RecordKnown, CandidateOf, NotAhead
<1>4. ASSUME NEW w \in Jobs PROVE JobKnows(w)'
  <2>1. JobKnows(w)
    BY DEF Evidence
  <2>2. ASSUME pc[w] \in Reading, NEW x \in Records PROVE job[w].seen[x] <= remote'[x]
    <3>1. pc[w] # "idle"
      BY <2>2 DEF Reading, Handling
    <3>2. job[w].seen[x] \in Int
      BY <3>1, JobAt, IngestionConstants DEF Job
    <3>3. job[w].seen[x] <= remote[x]
      BY <2>1, <2>2 DEF JobKnows
    <3>4. remote[x] <= remote'[x]
      BY <1>1, <1>2
    <3>. QED  BY <1>2, <3>2, <3>3, <3>4
  <2>. QED  BY <1>1, <2>1, <2>2 DEF JobKnows, CandidateOf, NotAhead
<1>. QED  BY <1>3, <1>4 DEF Evidence

LEMMA EvidenceReview ==
    ASSUME Typed, Evidence, Review
    PROVE  Evidence'
<1>. SUFFICES ASSUME ~late PROVE Evidence'
  BY DEF Review, Evidence
<1>1. UNCHANGED <<remote, withheld, provenance, pc, job, late>>
  BY DEF Review
<1>2. ASSUME NEW c \in Candidates, NEW r, CandidateOf(r, c)
      PROVE  /\ CandidateOf(r, c)'
             /\ \A v : NotAhead(c, v) => NotAhead(c, v)'
  <2>1. PICK d \in Candidates, status \in ReviewStatuses :
           /\ candidates' = [candidates EXCEPT ![d] =
                               [candidates[d] EXCEPT !.status = status]]
           /\ candidates'[d].record = candidates[d].record
           /\ candidates'[d].version = candidates[d].version
    BY ReviewStep
  <2>2. CandidatesStay /\ candidates \in [Candidates -> Candidate \cup {None}]
    BY ReviewStep, StoreAt DEF StoreOK
  <2>3. CASE c = d
    BY <1>1, <1>2, <2>1, <2>2, <2>3 DEF CandidateOf, NotAhead, CandidatesStay
  <2>4. CASE c # d
    <3>1. candidates'[c] = candidates[c]
      BY <2>1, <2>2, <2>4
    <3>. QED  BY <1>1, <1>2, <3>1 DEF CandidateOf, NotAhead
  <2>. QED  BY <2>3, <2>4
<1>3. ASSUME NEW r \in Records PROVE RecordKnown(r)'
  <2>1. PICK p : p = provenance[r]
    OBVIOUS
  <2>2. CASE p # None
    <3>1. p.candidate \in Candidates /\ CandidateOf(r, p.candidate)
          /\ NotAhead(p.candidate, p.version) /\ p.version <= remote[r]
      BY <2>1, <2>2, StoreAt DEF Evidence, RecordKnown, StoreOK, Provenance
    <3>2. CandidateOf(r, p.candidate)' /\ NotAhead(p.candidate, p.version)'
      BY <1>2, <3>1
    <3>. QED  BY <1>1, <2>1, <3>1, <3>2 DEF RecordKnown
  <2>. QED  BY <1>1, <2>1, <2>2 DEF RecordKnown
<1>4. ASSUME NEW w \in Jobs PROVE JobKnows(w)'
  <2>1. JobKnows(w)
    BY DEF Evidence
  <2>2. PICK j : j = job[w]
    OBVIOUS
  <2>3. CASE pc[w] = "save"
    <3>1. j.candidate \in Candidates /\ CandidateOf(j.at, j.candidate)
          /\ NotAhead(j.candidate, j.seen[j.at])
      BY <2>1, <2>2, <2>3, JobAt DEF JobKnows, JobOK
    <3>2. CandidateOf(j.at, j.candidate)' /\ NotAhead(j.candidate, j.seen[j.at])'
      BY <1>2, <3>1
    <3>. QED  BY <1>1, <2>1, <2>2, <2>3, <3>2 DEF JobKnows
  <2>4. CASE pc[w] # "save"
    BY <1>1, <2>1, <2>4 DEF JobKnows
  <2>. QED  BY <2>3, <2>4
<1>. QED  BY <1>3, <1>4 DEF Evidence

LEMMA EvidenceStill ==
    ASSUME Evidence, UNCHANGED <<remote, candidates, withheld, provenance, pc, job, late>>
    PROVE  Evidence'
  BY DEF Evidence, RecordKnown, JobKnows, CandidateOf, NotAhead

LEMMA EvidenceStep ==
    ASSUME OneScope, NoForce, Typed, Leased, Evidence, [Next]_vars
    PROVE  Evidence'
<1>1. ASSUME NEW w \in Jobs, Arrive(w) \/ Step(w) \/ Fault(w) \/ Crash(w)
      PROVE  Evidence'
  BY <1>1, EvidenceLookup, EvidenceLoadCandidate, EvidenceUpdateCandidate,
     EvidenceCreateCandidate, EvidenceSaveProvenance, EvidenceNextPage, EvidenceElsewhere
     DEF Step
<1>2. CASE Configure \/ ForceRelease \/ ResetCheckpoint \/ UNCHANGED vars
  BY <1>2, EvidenceStill DEF Configure, ForceRelease, ResetCheckpoint, vars, rowVars
<1>. QED  BY <1>1, <1>2, EvidenceTick, EvidenceSourceChanges, EvidenceReview DEF Next

LEMMA EvidenceInit == Init => Evidence
  BY DEF Init, Evidence, RecordKnown, JobKnows, Reading, Handling

(* The checksum kept for a record never runs ahead of its candidate, for   *)
(* any number of jobs, records and pages, whatever steps fail or stop,     *)
(* while runs end within their leases and all go to one scope of the       *)
(* source: the provenance is written last, of what the run had read.  The  *)
(* exception is a candidate that was decided when its last update came:    *)
(* it is told nothing, the checksum moves on, and a reopening does not     *)
(* make up for it.                                                         *)
THEOREM ChecksumsFollow ==
    ASSUME Scopes = {Default}, "force release" \notin Operations
    PROVE  Spec => []ChecksumNotAhead
<1>. OneScope /\ NoForce
  BY DEF OneScope, NoForce
<1>1. Init => Typed /\ Leased /\ Evidence
  BY TypedInit, LeasedInit, EvidenceInit
<1>2. Typed /\ Leased /\ Evidence /\ [Next]_vars => Typed' /\ Leased' /\ Evidence'
  BY TypedStep, LeasedStep, EvidenceStep
<1>3. Evidence => ChecksumNotAhead
  BY DEF Evidence, RecordKnown, CandidateOf, NotAhead, ChecksumNotAhead
<1>. QED  BY <1>1, <1>2, <1>3, PTL DEF Spec

(***************************************************************************)
(* One candidate per record: each candidate is the one that the checksum   *)
(* of its record names, or is just being saved.                            *)
(***************************************************************************)
Knows(r, c) == provenance[r] # None /\ provenance[r].candidate = c

Saving(w, c) == pc[w] = "save" /\ job[w].candidate = c

Accounted(c) == Knows(candidates[c].record, c) \/ \E w \in Jobs : Saving(w, c)

Unique == ~late => \A c \in Candidates : candidates[c] # None => Accounted(c)

LEMMA UniqueKept ==
    ASSUME Unique, NEW w \in Jobs, Others(w), pc[w] # "save",
           UNCHANGED <<candidates, provenance, late>>
    PROVE  Unique'
<1>1. ASSUME NEW c \in Candidates, NEW v \in Jobs, Saving(v, c) PROVE Saving(v, c)'
  BY <1>1 DEF Saving, Others
<1>. QED  BY <1>1 DEF Unique, Accounted, Knows

(* Steps that write candidates keep the record of each.                    *)
LEMMA RecordsStay ==
    ASSUME Unique, UNCHANGED <<provenance, late>>, NEW w \in Jobs, Others(w), pc[w] # "save",
           \A c \in Candidates : candidates'[c] # None =>
              \/ candidates[c] # None /\ candidates'[c].record = candidates[c].record
              \/ Saving(w, c)'
    PROVE  Unique'
<1>. SUFFICES ASSUME ~late, NEW c \in Candidates, candidates'[c] # None
              PROVE  Accounted(c)'
  BY DEF Unique
<1>1. CASE Saving(w, c)'
  BY <1>1 DEF Accounted
<1>2. CASE candidates[c] # None /\ candidates'[c].record = candidates[c].record
  <2>1. Accounted(c)
    BY <1>2 DEF Unique
  <2>2. ASSUME NEW v \in Jobs, Saving(v, c) PROVE Saving(v, c)'
    BY <2>2 DEF Saving, Others
  <2>. QED  BY <1>2, <2>1, <2>2 DEF Accounted, Knows
<1>. QED  BY <1>1, <1>2

LEMMA UniqueUpdateCandidate ==
    ASSUME Typed, Unique, NEW w \in Jobs, UpdateCandidate(w)
    PROVE  Unique'
<1>1. /\ pc[w] = "update" /\ Others(w) /\ UNCHANGED <<provenance, late>>
      /\ candidates \in [Candidates -> Candidate \cup {None}]
      /\ job[w].candidate \in Candidates /\ candidates[job[w].candidate] # None
      /\ Seen(w) \in 0 .. MaxVersion
  <2>1. pc[w] = "update"
    BY DEF UpdateCandidate
  <2>2. Seen(w) \in 0 .. MaxVersion
    BY <2>1, JobAt DEF JobOK, Handling, Seen, Job
  <2>. QED  BY <2>2, UpdateCandidateStep, StoreAt DEF UpdateCandidate, StoreOK
<1>2. CASE UNCHANGED candidates
  BY <1>1, <1>2, UniqueKept
<1>3. CASE candidates' = [candidates EXCEPT ![job[w].candidate] =
                            [candidates[job[w].candidate] EXCEPT !.version = Seen(w)]]
  <2>. DEFINE k == [candidates[job[w].candidate] EXCEPT !.version = Seen(w)]
  <2>1. k.record = candidates[job[w].candidate].record
    BY <1>1, VersionFields
  <2>2. candidates' = [candidates EXCEPT ![job[w].candidate] = k]
    BY <1>3
  <2>. HIDE DEF k
  <2>3. \A c \in Candidates : candidates'[c] # None =>
           candidates[c] # None /\ candidates'[c].record = candidates[c].record
    BY <1>1, <2>1, <2>2
  <2>. QED  BY <1>1, <2>3, RecordsStay
<1>. QED  BY <1>2, <1>3, UpdateCandidateStep

LEMMA UniqueCreateCandidate ==
    ASSUME Typed, Unique, NEW w \in Jobs, CreateCandidate(w)
    PROVE  Unique'
<1>1. /\ pc[w] = "insert" /\ Others(w) /\ UNCHANGED <<provenance, late>>
      /\ candidates \in [Candidates -> Candidate \cup {None}]
  BY CreateCandidateStep, StoreAt DEF CreateCandidate, StoreOK
<1>2. CASE UNCHANGED candidates
  BY <1>1, <1>2, UniqueKept
<1>3. ASSUME NEW c \in Candidates, pc'[w] = "save", job'[w].candidate = c,
             candidates' = [candidates EXCEPT ![c] = NewCandidate(job[w].at, Seen(w))]
      PROVE  Unique'
  <2>1. \A d \in Candidates : d # c => candidates'[d] = candidates[d]
    BY <1>1, <1>3
  <2>2. Saving(w, c)'
    BY <1>3 DEF Saving
  <2>. QED  BY <1>1, <2>1, <2>2, RecordsStay
<1>. QED  BY <1>2, <1>3, CreateCandidateStep

LEMMA UniqueReview ==
    ASSUME Typed, Unique, Review
    PROVE  Unique'
<1>. SUFFICES ASSUME ~late, NEW c \in Candidates, candidates'[c] # None
              PROVE  Accounted(c)'
  BY DEF Review, Unique
<1>1. UNCHANGED <<provenance, pc, job>>
  BY DEF Review
<1>2. candidates[c] # None /\ candidates'[c].record = candidates[c].record
  <2>1. PICK d \in Candidates, status \in ReviewStatuses :
           /\ candidates[d] # None
           /\ candidates' = [candidates EXCEPT ![d] =
                               [candidates[d] EXCEPT !.status = status]]
           /\ candidates'[d].record = candidates[d].record
    BY ReviewStep
  <2>. QED  BY <2>1, StoreAt DEF StoreOK
<1>3. Accounted(c)
  BY <1>2 DEF Unique
<1>. QED  BY <1>1, <1>2, <1>3 DEF Accounted, Knows, Saving

(* The checksum names the candidate that was saved, and no other one of    *)
(* its record.                                                             *)
LEMMA UniqueSaveProvenance ==
    ASSUME Typed, Evidence, Unique, NEW w \in Jobs, SaveProvenance(w)
    PROVE  Unique'
<1>. SUFFICES ASSUME ~late, NEW c \in Candidates, candidates'[c] # None
              PROVE  Accounted(c)'
  BY DEF SaveProvenance, Unique
<1>. DEFINE at == job[w].at
            d  == job[w].candidate
<1>1. /\ pc[w] = "save" /\ Others(w) /\ UNCHANGED candidates
      /\ at \in Records /\ d \in Candidates
      /\ provenance' = [provenance EXCEPT ![at] = [candidate |-> d, version |-> Seen(w)]]
      /\ provenance'[at] # None
      /\ provenance \in [Records -> Provenance \cup {None}]
      /\ candidates \in [Candidates -> Candidate \cup {None}]
  BY SaveProvenanceStep, StoreAt DEF SaveProvenance, StoreOK, Upsert
<1>2. /\ candidates[d] # None /\ candidates[d].record = at
      /\ provenance[at] # None => provenance[at].candidate = d
  BY <1>1 DEF Evidence, JobKnows, CandidateOf
<1>3. /\ provenance'[at].candidate = d
      /\ \A r \in Records : r # at => provenance'[r] = provenance[r]
  BY <1>1
<1>4. CASE c = d
  BY <1>1, <1>2, <1>3, <1>4 DEF Accounted, Knows
<1>5. CASE c # d
  <2>1. Accounted(c) /\ candidates[c].record \in Records
    BY <1>1 DEF Unique, Candidate
  <2>2. CASE Knows(candidates[c].record, c)
    <3>1. candidates[c].record # at
      BY <1>2, <1>5, <2>2 DEF Knows
    <3>. QED  BY <1>1, <1>3, <2>1, <2>2, <3>1 DEF Accounted, Knows
  <2>3. ASSUME NEW v \in Jobs, Saving(v, c) PROVE Accounted(c)'
    <3>1. v # w
      BY <1>5, <2>3 DEF Saving
    <3>. QED  BY <1>1, <2>3, <3>1 DEF Accounted, Saving, Others
  <2>. QED  BY <2>1, <2>2, <2>3 DEF Accounted
<1>. QED  BY <1>4, <1>5

LEMMA UniqueElsewhere ==
    ASSUME "save" \in Faultless, Typed, Unique, NEW w \in Jobs,
           \/ Arrive(w) \/ ReadConfiguration(w) \/ Acquire(w) \/ Confirm(w)
           \/ ReadCheckpoint(w) \/ CreateRun(w) \/ MarkRunning(w) \/ NextPage(w)
           \/ Lookup(w) \/ LoadCandidate(w)
           \/ AppendOutcome(w) \/ RecordSuccess(w) \/ ThresholdReached(w)
           \/ MarkCompleted(w) \/ RunFailure(w) \/ MarkFailed(w) \/ Release(w)
           \/ Fault(w) \/ Crash(w)
    PROVE  Unique'
<1>1. UNCHANGED <<candidates, provenance, late>> /\ pc[w] # "save"
  BY DEF Arrive, ReadConfiguration, Acquire, Confirm, ReadCheckpoint, CreateRun,
     MarkRunning, NextPage, Lookup, LoadCandidate, AppendOutcome, RecordSuccess,
     ThresholdReached, MarkCompleted, RunFailure, MarkFailed, Release, Fault, Crash, rowVars
<1>2. Others(w)
  BY ArriveStep, ReadConfigurationStep, AcquireStep, ConfirmStep, ReadCheckpointStep,
     CreateRunStep, MarkRunningStep, NextPageStep, LookupStep, LoadCandidateStep,
     AppendOutcomeStep, RecordSuccessStep, ThresholdReachedStep, MarkCompletedStep,
     RunFailureStep, MarkFailedStep, ReleaseStep, FaultStep, CrashStep
<1>. QED  BY <1>1, <1>2, UniqueKept

LEMMA UniqueEnvironment ==
    ASSUME Typed, Unique,
           Tick \/ SourceChanges \/ Configure \/ ForceRelease \/ ResetCheckpoint \/ UNCHANGED vars
    PROVE  Unique'
<1>. SUFFICES ASSUME ~late' PROVE Unique'
  BY DEF Unique
<1>1. UNCHANGED <<pc, candidates, provenance>> /\ ~late
  <2>1. CASE Tick
    BY <2>1 DEF Tick, rowVars
  <2>2. CASE SourceChanges \/ Configure \/ ForceRelease \/ ResetCheckpoint \/ UNCHANGED vars
    <3>1. UNCHANGED <<pc, candidates, provenance, late>>
      BY <2>2 DEF SourceChanges, Configure, ForceRelease, ResetCheckpoint, vars, rowVars
    <3>. QED  BY <3>1
  <2>. QED  BY <2>1, <2>2
<1>2. ASSUME NEW v \in Jobs, pc[v] = "save" PROVE job'[v].candidate = job[v].candidate
  BY <1>2, TickStep DEF SourceChanges, Configure, ForceRelease, ResetCheckpoint, vars
<1>. QED  BY <1>1, <1>2 DEF Unique, Accounted, Knows, Saving

LEMMA UniqueStep ==
    ASSUME "save" \in Faultless, Typed, Evidence, Unique, [Next]_vars
    PROVE  Unique'
<1>1. ASSUME NEW w \in Jobs, Arrive(w) \/ Step(w) \/ Fault(w) \/ Crash(w)
      PROVE  Unique'
  BY <1>1, UniqueElsewhere, UniqueUpdateCandidate, UniqueCreateCandidate,
     UniqueSaveProvenance DEF Step
<1>. QED  BY <1>1, UniqueEnvironment, UniqueReview DEF Next

LEMMA UniqueInit == Init => Unique
  BY DEF Init, Unique

LEMMA OneEach ==
    ASSUME OneScope, Typed, Leased, Evidence, Unique
    PROVE  OneCandidatePerRecord
<1>. SUFFICES ASSUME ~late, NEW c \in Candidates, NEW d \in Candidates, c # d,
                     candidates[c] # None, candidates[d] # None,
                     candidates[c].record = candidates[d].record
              PROVE  FALSE
  BY DEF OneCandidatePerRecord
<1>1. Accounted(c) /\ Accounted(d)
  BY DEF Unique
<1>2. ASSUME NEW v \in Jobs, NEW b \in Candidates, Saving(v, b)
      PROVE  /\ candidates[b].record = job[v].at /\ pc[v] \in AtWork
             /\ provenance[job[v].at] # None => provenance[job[v].at].candidate = b
  <2>1. JobKnows(v) /\ pc[v] = "save" /\ job[v].candidate = b
    BY <1>2 DEF Evidence, Saving
  <2>2. pc[v] \in AtWork
    BY <2>1, DecidingReads DEF Deciding
  <2>. QED  BY <2>1, <2>2 DEF JobKnows, CandidateOf
<1>3. ASSUME NEW v \in Jobs, Saving(v, c) PROVE FALSE
  <2>1. ~Knows(candidates[d].record, d)
    BY <1>2, <1>3 DEF Knows
  <2>2. PICK w \in Jobs : Saving(w, d)
    BY <1>1, <2>1 DEF Accounted
  <2>3. v = w
    BY <1>2, <1>3, <2>2, OneAtWork
  <2>. QED  BY <1>3, <2>2, <2>3 DEF Saving
<1>4. ASSUME NEW v \in Jobs, Saving(v, d) PROVE FALSE
  <2>1. ~Knows(candidates[c].record, c)
    BY <1>2, <1>4 DEF Knows
  <2>. QED  BY <1>1, <1>3, <2>1 DEF Accounted
<1>. QED  BY <1>1, <1>3, <1>4 DEF Accounted, Knows

(* A record never gets a second candidate, also when it is renamed at the  *)
(* source, with any number of jobs, records and pages: within the leases   *)
(* one run at most is at work on the scope, and it creates a candidate     *)
(* only for a record without provenance.  The hypotheses are needed: runs  *)
(* of two scopes hold different locks, a lock can be released under its    *)
(* run, and a run that stops between the candidate and its provenance      *)
(* leaves a candidate that no checksum names.                              *)
THEOREM NoSecondCandidate ==
    ASSUME Scopes = {Default}, "force release" \notin Operations, "save" \in Faultless
    PROVE  Spec => []OneCandidatePerRecord
<1>. OneScope /\ NoForce
  BY DEF OneScope, NoForce
<1>1. Init => Typed /\ Leased /\ Evidence /\ Unique
  BY TypedInit, LeasedInit, EvidenceInit, UniqueInit
<1>2. Typed /\ Leased /\ Evidence /\ Unique /\ [Next]_vars
         => Typed' /\ Leased' /\ Evidence' /\ Unique'
  BY TypedStep, LeasedStep, EvidenceStep, UniqueStep
<1>3. Typed /\ Leased /\ Evidence /\ Unique => OneCandidatePerRecord
  BY OneEach
<1>. QED  BY <1>1, <1>2, <1>3, PTL DEF Spec
=============================================================================

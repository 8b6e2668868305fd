# Open Creator Registry: a verification development

TLA+ models of the registry's server side, the TLC configurations that check
them on small instances, and TLAPS proofs about them. The reference is the code
under `src/`; every definition that models code is tied to its lines in
`PROJECT.json` ("map").

## The system

Two Hono applications run as Cloudflare Workers and share one D1 (SQLite)
database. `apps/public` serves the read API, handle checks and submissions;
`apps/admin` serves the administration API, which authenticates, checks a
permission per route, limits the rate, and then calls services and repositories
in `packages/database`. `packages/ingestion` imports candidates from sources on
a schedule.

How things run decides what can go wrong:

* many requests are served at once, each a sequence of `await`s; between two of
  them any other request of either Worker runs;
* one SQL statement is atomic, and so is one `db.batch`; nothing larger is. There
  are no transactions across `await`s and no locks but the one of a source;
* rows have no version column: the revision of a row is its `updated_at`, a
  millisecond timestamp;
* batches protect themselves with rows of `admin_mutation_guards`, whose CHECK
  fails the batch when the condition counted in it does not hold;
* a Worker can be stopped between any two statements.

### Components

| Component | State | Operations | Hard behaviour | What makes it correct | Module |
|---|---|---|---|---|---|
| Reserved-handle changes and approval (`routes.ts`, `admin-approval-repository.ts`, `reserved-handle-repository.ts`, `creator-repository.ts`) | handle rows, tiers, approval requests, decisions, audit entries | create, patch, suspend/release/restore, approve, reject, expire | check-then-act across awaits, stale revisions, deadline against decision, writes in two statements | four eyes, one verdict, applied to the row that was seen, one row per name, no bypass | `ApprovalWorkflow` |
| Registry releases (`release-service.ts`, `registry-release*-repository.ts`) | releases, snapshots, publication requests | create, calculate, request, approve, publish, withdraw | torn reads, recalculation against approval, publications that race | one release in force, what is published was approved | `ReleasePublication` |
| External profiles, aliases and sources of creators (`routes.ts`, `external-profile-repository.ts`, `creator-alias-repository.ts`) | profiles, one primary per creator and platform; aliases that cite sources | create, update, delete, approved changes | two profiles made primary at once, a demotion between a request and its approval, a source deleted while an alias cites it | one primary, approval where it is due, applied to what was seen | `CreatorEvidence` |
| Ingestion orchestrator, scheduling, locks, checkpoints (`packages/ingestion`, `apps/admin/src/worker.ts`) | locks, runs, checkpoints, candidates, provenance, outcomes | run, preview, schedule, forced release, reset | lease shorter than a run, crash between two writes, failing steps | one run per lease, one candidate per entity, no record skipped for good | `Ingestion` |
| Source configuration | configurations | enable, pause, edit | changes during a run | records arrive when the source is resumed | `Ingestion`, `AdminConsole` (partly) |
| Creator candidates | candidates | create, approve, reject, merge | review against discovery, two approvals at once | a decision is not undone, drafts do not multiply | `Intake`, `Ingestion` |
| Public and bulk submissions (`bulk-submission-service.ts`, `public-submission-repository.ts`) | submissions, batches | submit, preview, commit | replay of a commit key, unique-constraint race | a commit happens once and answers alike, one active row per content | `Intake`, `CommitOnce` |
| Submission review and conversion | submissions, candidates | start, approve, reject, convert | two writes | drafts do not multiply | `Intake` |
| Administration imports (`import-service.ts`, `import-batch-repository.ts`) | import batches, rows, requests | preview, commit | a preview judged long before its commit | a commit does what its preview said but for what was written since | `AdminImport` |
| Handle check (`handle-check-service.ts`) | none | check | three queries among writes | the answer ranks no lower than what was in force throughout | `HandleCheck` |
| Client resource hooks | the shown resource | load, reload | answers out of order | what is shown belongs to the address | `AdminConsole` |
| Web pages that wait for answers | dialogs, editors, drafts, results | load, confirm, submit, reset | late, lost and repeated answers | see below | `AdminConsole`, `BulkWizard`, `HandleCheckPage`, `SubmissionForm`, `HandleForm` (partly) |
| Creators administration | their rows | edit | whole-row write-back | only the tier matters, see `ApprovalWorkflow` | partly |
| Audit log | entries | append, list | entry after the write | every mutation is audited | partly, in the two workflows |
| Wikidata connector (`wikidata.ts`) | none between calls | ready, a page, a record | a page by offset, a refused record | as the orchestrator | `Ingestion` (partly) |
| Normalisation, permissions, authentication, rate limiting, middleware, read API, spreadsheet parsing, scripts | none that the others depend on | | external services, I/O, character-level conversions, constant tables | | not modelled |

The components interact through the database. The approval requests of handles,
external profiles and releases are rows of one table with one set of decisions,
which is why the contract of an approval, `FourEyes`, is stated once and every
component whose requests are decided by the generic routes implements it. The
snapshot of a release reads what the handle routes write. Imports and ingestion
write the rows that the handle routes and the candidate routes read; in the
models, those other writers appear as actions of the module that reads (`Review`
in `Ingestion`, `NewCreator`, `Promote` and `NewHandle` in `AdminImport`,
`ImportAlias` in `CreatorEvidence`, `Learn` in `Intake`, `Change`, `Cite` and
`Review` in `HandleCheck`, `OtherWrite` in `AdminConsole`).

## The modules and the plan

| Modules | Composed by | Proofs |
|---|---|---|
| `ApprovalWorkflow`, which implements `FourEyes` | `MCApprovalWorkflow` | `ApprovalWorkflow_proofs` |
| `ReleasePublication`, which implements `ReleaseHistory` and `FourEyes` | `MCReleasePublication` | `ReleasePublication_proofs` |
| `Ingestion` | `MCIngestion` | `Ingestion_proofs` |
| `Intake`, which implements `CommitOnce`; `CreatorEvidence`; `AdminImport` | `Entries`, `MCEntries` | `Intake_proofs`, `CreatorEvidence_proofs`, `AdminImport_proofs`, `Entries_proofs` |
| `AdminConsole`, `BulkWizard`, `HandleCheckPage`, `SubmissionForm`, `HandleForm`, `HandleCheck` | `Clients`, `MCClients` | `Clients_proofs` |

`Entries` and `Clients` put modules beside each other that share no variable, and
let their steps interleave freely: `EntriesSpec` and `ClientsSpec` are what is
proved about. `MCEntries` and `MCClients` give the constants values and choose, in
the initial state, one part that has work: since no part reads a variable of
another, one run explores the sum of their state spaces and not the product, and
misses no state of any part. That this loses nothing is what `EachEntersAlone`
and `EachWorksAlone` prove.

Proofs are in modules named `*_proofs`; no module of this development declares a
RECURSIVE operator. Every safety property of the passing runs, the contracts and
the type invariants included, is proved; what needs fairness stays with TLC.

## ApprovalWorkflow

**State.** `handles`, `requests`, `decisions`, `audit` and `tier` are the tables
and the column of those names. `pc` and `call` are the program counter and the
local variables of each HTTP request under way, `clock` the time that all of
them read. Three variables have no counterpart in the code and exist for the
properties: `stamps` (the revisions a row ever had), `reused` (the rows that
were given one revision twice) and `basis` (the row a request was raised from).

**Actions.** A step of a call is one database access and the code up to the
next one:

| Code | Actions |
|---|---|
| POST reserved-handles | `ArriveCreate`, `Judge` (owner's tier), `FindExact`, then `RequestApproval` or `Insert`, `AppendAudit` |
| PATCH reserved-handles | `ArriveChange`, `ReadHandle`, `Judge`, then `RequestApproval` or `ReadCurrent`, `Update`, `ReadBack`, perhaps `WriteStatus`, `AppendAudit` |
| suspend, release, restore | `ArriveChange`, `ReadHandle`, `Judge`, then `RequestApproval` or `WriteStatus`, `AppendAudit` |
| PATCH creators | `ArriveCreator`, `ReadCreator`, `UpdateCreator`, `AppendAudit` |
| approve, reject, expire | `ArriveDecision`, `LoadRequest`, then the batch `Apply`, `Reject` or `Expire` |

`Fail` ends a call between two steps. The deadline is judged by the time the
call arrived, because `adminApprovalRepository(context)` takes the timestamp
of the request, so an approval may commit after the deadline; the other
repositories read the clock when they write.

**What is abstracted.** A row keeps its owner, name, classification, status and
revision. Wording, scores and confusable skeletons are left out. An
administrator either holds `handles:critical` (`SuperAdmins`) or not; the other
permissions are taken as given. Several accesses fit in one tick of the clock,
as they do in one millisecond.

**Properties.**

* `TypeOK`: types, and what each call may rely on at each point.
* `DecisionsMatchStatus`: a request carries exactly the decision its status
  tells of, by somebody else, and both are audited.
* `FourEyesContract`: requests and decisions implement `FourEyes`.
* `RevisionsIdentifyRows`: what optimistic concurrency rests on, that the
  revision of an earlier read identifies the row.
* `AppliedFresh`, `OneWinnerPerRevision`: an approved change applies to the row
  its requester saw, and only one of those raised from it does.
* `UnapprovedChangeExplained`: a critical handle changes without an approval
  only when a PATCH changes its owner, or when the row or the tier is no longer
  what the writing call judged by.
* `NameHasOneRow`: one row per normalised name.

The three properties about revisions except the rows that got one revision
twice: two writes of a row in one millisecond cannot be told apart by it. The
variable `reused` makes that exception exact.

## ReleasePublication

**State.** `releases`, `snapshots`, `requests`, `decisions` and `audit` are the
tables; `registry` is the content a snapshot is taken of, reduced to a version of
the creators and one of the handles. A checksum is the pair of versions that was
read: SHA-256 is taken to tell contents apart.

**Actions.**

| Code | Actions |
|---|---|
| POST releases | `ArriveRelease`, `CreateDraft`, `AppendAudit` |
| calculate | `CheckDraft`, `ReadState` twice (the two queries run at once, in either order), `FindExisting`, `SaveSnapshot` |
| request-approval | `ReadRelease`, `ReadSnapshot`, `RaiseRequest` |
| approve | `Choose` (newest pending request), `Approve` |
| publish | `Choose` (newest approved request), `Publish` |
| withdraw | `Withdraw`, `AppendAudit` |
| approve, reject, expire by identifier | `ArriveDecision`, `LoadRequest`, `Approve`, `Reject`, `Expire` |
| any write of creators or handles | `EditRegistry` |

The release route and the generic route that approve share one batch, and that
batch, not the code before it, tests the status and the deadline.

**Properties.**

* `HistoryContract`: the rows implement `ReleaseHistory`. One release at most is
  published; the one it replaces is superseded in the same step; superseded and
  withdrawn are final.
* `PublishedAsApproved`: a release that was ever published carries the checksum
  that exactly one used-up request asked for and another administrator approved.
* `FourEyesContract`: as above, with the rest between approval and publication.

## Ingestion

**State.** `locks`, `checkpoints`, `candidates`, `provenance`, `outcomes`, `runs`
and `config` are the tables; `remote` is what the source says of each record.
`pc` and `job` are the program counter and the local variables of each call of
`execute`. `late`, `withheld` (candidates that were decided when their last update
came) and the field `lease` of a job exist for the properties.

**Actions.** A step of a job is one statement or one answer of the source:

| Code | Actions |
|---|---|
| the run and preview routes, the scheduled handler | `Arrive`, `ReadConfiguration` |
| `acquire`, and the read that confirms it | `Acquire`, `Confirm` |
| up to the first page | `ReadCheckpoint`, `CreateRun`, `MarkRunning` |
| the loop over pages | `NextPage`, `RecordSuccess`, `ThresholdReached` |
| one record | `Lookup`, `LoadCandidate`, `UpdateCandidate` or `CreateCandidate`, `SaveProvenance`, `AppendOutcome` |
| the end | `MarkCompleted`, or `RunFailure` and `MarkFailed`, then `Release` |
| administrators | `Configure`, `ForceRelease`, `ResetCheckpoint`, `Review` |
| the environment | `Tick`, `SourceChanges`, `Fault`, `Crash` |

`Review` is every decision of a reviewer about a candidate, and `request-review`,
which makes any candidate pending again, whatever was decided (`routes.ts:1361`).
`Fault` throws at the point where a job stands and takes it where the code's
catch and finally blocks take it; `Crash` ends it and leaves the rows as they are.

**What is abstracted.** One source with its scopes; its records are numbered in
the order it lists them and what a record says is a version, which is also its
checksum. Time is what is left of a lease and what has passed of a run. The
recommendation of a matching creator is left out: nothing reads it here.
`UNIQUE (normalized_name, discovery_source)` is kept, since it is what makes a
repeated creation fail.

**Properties.**

* `LeaseExclusive`: two runs on one scope are never both within the leases they
  got.
* `OneCandidatePerRecord`: while runs end within their leases, a record has one
  candidate.
* `ChecksumNotAhead`: while they do, the checksum kept for a record does not run
  ahead of what its candidate says, so that no run takes a stale candidate for a
  duplicate. The exception is a candidate that was decided when its last update
  came: the code leaves it alone and stores the checksum all the same, and a
  candidate whose review is requested again after that is pending and stale
  until the record changes once more.
* `DecidedCandidatesKept`: a discovery never overwrites a decision, also when the
  candidate was read before it; only a reviewer reopens a candidate, and that
  changes its status alone.
* `NothingSkipped`: a cursor only passes records that were handled.
* `EveryRecordArrives`: if the source stays enabled and writing from some time on,
  every sound record becomes known. The exception is a hopeless page (`PagesPass`
  is false): a page with more malformed records than `maximum_failed_records`
  ends every run that gets there with the cursor kept, and what lies behind it
  is not looked at again.

The runs have one scope. Runs of two scopes of a source hold different locks, so
that two which overlap may create a record twice or write the older evidence
last; a run is on the default scope unless its caller names another.

**Fairness.** `SourceRecovery` and `LostProvenance` assume that time passes, that
a job which has not crashed goes on, and that the source is tried again and
again. The first two are what a running Worker does. For the third the code has
the `scheduled` handler, and administrators the run route; the cron lists of the
deployment files are empty, so a deployment has to fill them or its
administrators have to press the button. Nothing is assumed of crashes, failures
or of the lists of pages: the number of faults in a behaviour is bounded.

## Intake

**State.** `submissions`, `batches`, `candidates` (of submissions) and `drafts`
(pending creators by name) are the tables; `known` stands for what the Registry
holds about names, handles and sources; `pc` and `call` as above. `answers`,
`standing`, `blind` and `reopened` are histories.

**Actions.** `StartCreate`, `ListActive`, `Insert` are POST submissions.
`StartCommit`, `FindBatch`, `Preview`, `CommitBatch` and `Refind` are the bulk
commit with its second attempt after a unique constraint fired. `Review`,
`StartConvert`, `CreateCandidate`, `Reopen` are the review and the conversion,
`StartApprove`, `Match`, `Draft`, `Approve` and `Decide` the decisions about
candidates. `Fail` ends a call between two statements; `Learn` is every other
write to the Registry.

**What is abstracted.** A row is a name, handles and sources; a fingerprint is
its content without the order. The limit of handles and sources per row, 10 in
the code, is `MaxItems`.

**Properties.** `CommitContract`: the commits implement `CommitOnce`. A reference
is used for one file, and everybody who is told a result for it is told the one
on record. `OneActivePerContent`: of equal suggestions one is active, except
that two rows may both be older than the fingerprint column, and that such a row
can be opened again beside another.
`NoneBlind`: a row that looks like one that was active all through the attempt
entered only if the client had confirmed it. `DraftsBounded`: approvals of
candidates with one name leave no more drafts than there were calls at once,
because each reads what the one before has written.

## CreatorEvidence

**State.** `profiles`, `requests` (for them), `sources`, `aliases` and `tiers` are
the tables, `doing` the call each administrator has under way, `stamp` the
number of writes, which is what `updated_at` tells apart. `raised` and
`unapproved` are histories.

**Actions.** `PostProfile`, `PatchProfile`, `DeleteProfile` read the row, `JudgeTier`
reads the tier and looks for conflicts, then `Request` or `WriteProfile`;
`ApproveProfile` and `Dismiss` decide requests; `AddSource`, `DeleteSource`,
`PostAlias`, `PatchAlias` with `ReadAlias`, `WriteAlias`, `DeleteAlias` and
`ImportAlias` keep the evidence; `SetTier` is PATCH creators.

**What is abstracted.** Platforms: one stands for all, as nothing relates two. The
time of a request is left out, `Dismiss` being both its rejection and its expiry.

**Properties.** `OnePrimary`, `CriticalByApproval` (a profile of a critical creator
is written without approval only by a call that had read the tier before it was
raised), `ApprovedAsSeen` (an approval writes only over what the requester saw,
demotions by other profiles included), `SourceOwned` (an alias cites a source of
its own creator unless an import brought it).

## AdminImport

**State.** `people` and `taken` are the Registry, with the time each row was
written; `stored` the previews on record, `task` the call each importer has
under way, `asked` the requests raised. `surprises` and `answered` are
histories.

**Actions.** `PreviewFile`, one `JudgeRow` per row (each makes its own queries),
`FindPreview` and `StorePreview`; `Commit` and `CommitPreview`; `NewCreator`,
`Promote`, `NewHandle` are what others write meanwhile; `Quit` a failure.

**Properties.** `PreviewHolds`: a record that comes out otherwise than its preview
said (ignored, beside a second creator of the name, or live although critical)
met something written after the preview began. `AskedOnce`: a record raises one
request however commits of one preview race. `ErrorsTold`: a preview tells the
errors of the file it was sent, unless nothing of the file would be written.

## The pages, and the check behind one of them

* `AdminConsole`: the pages of the administration on top of `useAdminResource`.
  A load belongs to an address and an attempt; leaving or asking again aborts
  it, and its answer may come all the same. Actions are confirmed in a dialog or
  sent from a form; the Worker applies them when they arrive and the page is
  told later, or never. `ShownIsCurrent`: what is shown is the record of the
  address, no older than the last write the page was told of. `LoadingEnds`,
  half of `WaitingEnds`: a page that says it loads has an answer to wait for.
  `OneAtATime`: the pages with a busy flag have one write under way, but for the
  reset of a checkpoint, which clears the flag of a run.
* `BulkWizard`: the panel for spreadsheets and the part of the server that makes
  a repetition harmless. `BatchOnce`: what is chosen between two resets is
  stored once, and the result shown is that of the file shown. The exception,
  `upset`, is exact and described under "Observed".
* `HandleCheckPage`: a check that is given up for another is aborted. While its
  response is awaited that is the end of it; while the body is being read, the
  client turns the abort into an error of its own (`public-api-client.ts:71`),
  which the page does not pass over (`Unanswered`). `AnswerIsLatest`: the result on
  display is that of the last check, and a failure beside it is one of an earlier
  check. The other half of `WaitingEnds` is about this page.
* `SubmissionForm`: `ErrorsOnTheirRows`: the server names rows by position, and
  the error beside a row is about that row although rows come and go meanwhile.
* `HandleForm`: `ReservationsPreviewed`: a reservation goes out with a preview
  answered after the last change, and once for what was typed unless the first
  failed.
* `HandleCheck`: the service. Reservations and aliases are read by two queries in
  either order and their creators by a third, among writes of administrators.
  `AnswerHolds`: an answer ranks no lower than what was in force all the while,
  tells what was in force at some time, and names a creator only if nobody else
  had a claim all the while.

## The runs

The runs of `ApprovalWorkflow`, `ReleasePublication`, `Entries` and `Clients`
assume no fairness: nothing in those modules must happen. Calls are made, or not,
by people, expiry is recorded by a call ("No scheduled job performs expiry",
`APPROVAL_WORKFLOW.md`), and a call may fail at any step; their properties are
safety properties, the contracts included. Configurations turn the deadlock
check off where the budget of calls or of a visit runs out; `Ingestion` never
stops, since time passes.

| Run | Instance | Shows |
|---|---|---|
| `ApprovalRaces` | 1 handle, 3 administrators, 2 requests, 2 concurrent calls of 4, lifetime 1 of 2 ticks | one verdict each, one winner, the contract |
| `DirectRaces` | 2 creators of different tiers, 2 handles and names, creations, renames, changes of class, owner and status, 1 request, 3 calls | one row per name; the exceptions to the approval are the ones named |
| `PublicationRaces` | 2 calculated drafts and one to be created, 2 requests, 6 calls in one tick | one release in force |
| `Recalculation` | 1 draft, 1 request, 4 calls, one edit of the registry, both kinds of decision routes, 2 ticks | the approved checksum is what is published; the contract |
| `RunRaces` | 2 jobs on 1 scope, 1 record that changes its name, a reviewer who decides and reopens, resets, lease 2 | leases exclude, one candidate, decisions kept |
| `FailingRuns` | 1 job at a time, 2 records of which one is malformed, 2 pages, 1 fault, previews, forced releases, a reviewer who decides and reopens | no record is skipped, no checksum is ahead |
| `SourceRecovery` | 1 job at a time, 3 records of which the first and the last are malformed, 2 pages of 2 in a run, 1 failed record admitted, 1 fault anywhere but before the provenance, pausing and resuming | every sound record arrives |
| `Entries` | `Intake`: 2 files, 2 forms, 2 references, 2 calls of up to 4. `CreatorEvidence`: 2 profiles, 2 accounts, 1 request, 2 calls of 3. `AdminImport`: files of up to 2 rows, 2 importers, 2 or 3 previews, 1 or 2 events | the properties of the three |
| `Clients` | each page with 2 records, files, handles or entries and the budgets in `Clients.cfg`; the service with 2 reservations, 1 alias, 2 creators and 2 writes | the properties of the six |
| `HandOver`, `LateCalculation`, `LostProvenance` | 1 or 2 calls | the findings below |

Why the bounds suffice. Two calls at a time show every race between a pair of
routes, since a call shares nothing but rows with another and each hazard names
two. The budget of calls admits the longest interesting history of a request
(raise, decide, publish) once per request plus one disturbing call; a second
request for the same target is what makes a race for it. Two ticks put every
pair of accesses in one millisecond or in two, and pass a deadline;
`PublicationRaces` needs no deadline and has one tick. For ingestion, a lease of
2 beside a run of at most 1 is the order of the two that the code has (the lease
is half a minute longer than the limit of a run), and a job that stands still while time passes
outlives its lease; two records on pages of one are what makes a page in the
middle, a malformed one before a sound one, and a cursor that can pass one of
them. In `SourceRecovery` the two malformed records are on two pages, so a run
from the start exceeds its limit of one failure on the second page and keeps the
cursor there, and the next run has to get past it. A file of two or three rows has every relation between two rows (alike,
repeated, invalid). Two visits of a page, with a write and a load late from the
first, are what a late answer can disturb. Each property has a mutant of the
code, named in `PROJECT.json`, that its run detects. Symmetry is used over calls
and over requests, administrators, handles, releases, runs and candidates that
the start state does not tell apart, and in no run with a liveness property.

## Findings

Each is a run that TLC ends with a counterexample, against a sentence of the
documentation.

* `HandOver`: PATCH looks at the tier of the owner the row would get
  (`routes.ts:1128`), so handing a critical creator's hard-reserved handle to an
  ordinary creator needs one administrator. `APPROVAL_WORKFLOW.md:3` asks for a
  second one for every update.
* `LateCalculation`: `calculate` checks the status once and `save` replaces the
  snapshot whatever the status is by then
  (`registry-release-snapshot-repository.ts:99`). `RELEASE_MANAGEMENT.md:12`:
  "Calculation may be repeated only while a release is a draft." The release row
  is guarded, so `PublishedAsApproved` holds all the same: the release keeps its
  checksum, and its snapshot no longer matches it.
* `LostProvenance`: `orchestrator.ts:299` writes the candidate and then its
  provenance. A run that stops in between leaves a record that every later run
  tries to create again and fails on the unique constraint.
  `INGESTION_ARCHITECTURE.md:22`: "A repeat updates pending candidate evidence or
  records a duplicate checksum."

### Observed

Met while modelling, and claimed as faults by no run: no document says otherwise,
but for the first, which needs no model to see. Where a property touches one of
them it names the exception.

* The audit entry of a direct write is a statement after the write and lost if
  the call ends in between (`routes.ts:1236`; `ADMIN_API.md:60`: "Every mutation
  is audited."); batches contain theirs.
* Rows of one revision twice: two writes of a row in one millisecond cannot be
  told apart (`reused` in `ApprovalWorkflow`).
* An import does not check that the source an alias cites belongs to its
  creator. A hard reservation that its preview judged ordinary goes live
  unapproved although the creator became critical since.
* Previews that would write nothing have one checksum, so an unreadable file may
  be answered with the errors of another such file.
* A racing PATCH of a profile writes back visibility and primary mark as it read
  them.
* A suggestion that failed half way through its conversion leaves a candidate
  beside a pending submission; a second conversion then fails on the candidate.
* A candidate whose review is requested again may be stale for good: an update
  that came while it was decided was skipped, its checksum was stored
  (`orchestrator.ts:275`), and every later run says "duplicate". The documents
  promise that a decision is not overwritten, and say nothing of this.
* A page with more malformed records than `maximum_failed_records` stops every
  run of its scope (`orchestrator.ts:356`); the run reports the threshold, and a
  change of the limit helps.
* A cancelled check of a handle whose body was being read ends as an error, after
  the next check has cleared the message: the new answer then stands beside
  "could not be read". The page for trying the API has the same pattern and is
  not modelled. A cancelled preview of a spreadsheet that ends so empties the
  panel.
* A cancelled parse of an unreadable file may fail late and empty the panel,
  since only an abort is passed over; and a template that fails while a commit
  is under way offers a retry and with it a reset, after which the result of the
  old batch is shown without a file. After a lost answer a changed selection
  sent under the same reference is answered with the first result.
* The submission, import and list pages have no catch: what fails there leaves
  no message. Dialogs and messages stay when the address moves on to another
  record of the kind.
* A late conflict preview in the handle form may stand beside another handle
  until the next change; a lost answer to a request that was queued lets it be
  made twice.
* A handle check may answer "not listed" although something was in force in
  every state, if the protection moved from an alias to a reservation between its
  two queries.

## The proofs

Eight `*_proofs` modules prove, for all values of the constants, every safety
property that the passing runs check. The assumption is `ConstantsOK` of the
module (called `EvidenceConstantsOK`, `ImportConstantsOK` and `ServiceConstantsOK`
in the modules that `Entries` and `Clients` put beside another; `Ingestion` states
its own as ASSUMEs, and `BulkWizard` needs none): the types of the constants,
distinct names in the start rows, `None` and the like different from the
values they stand beside, and room for one row in the suggestion form, which
starts with one. TLC evaluates it on the instances of the runs
(`KindsOfRows` in `MCEntries`, `KindsOfPages` in `MCClients`).

Some theorems need more, and say so in their statements:

| Theorem | Hypothesis | Why the code needs it |
|---|---|---|
| `LeasesExclude` | no forced release | `routes.ts:1706` deletes the lock under a run that is alive, on request |
| `ChecksumsFollow`, `NoSecondCandidate` | one scope, no forced release | runs of two scopes hold different locks |
| `NoSecondCandidate` | the provenance is written after its candidate | what happens otherwise is the finding `LostProvenance` |

`ChecksumNotAhead` and `OneCandidatePerRecord` themselves speak of runs that end
within their leases (`late` is false).

Where conditions of a CASE could overlap, as in the judgement of a row of a file
or in the verdict on a submission, the model has IF and ELSE in the order of the
code: a CASE chooses freely where two conditions hold, and nothing could be proved
of the choice.

### ApprovalWorkflow_proofs

Theorems: `TypeCorrect`, `DecisionsSafe`, `RevisionsSafe`, `ApprovalsFresh`,
`OneWinner`, `ImplementsFourEyes`, `NamesUnique`, `UnapprovedExplained` and
`OutcomesAreFinal`.

The argument. `TypeOK` is inductive because it says more than types: at each
point of a call which row or request it has found, and that rows never
disappear. `DecisionsMatchStatus` and `RevisionsIdentifyRows` are inductive
relative to it. The latter is the heart: every write stamps the row, `stamps`
remembers, and a write that stamps a row with a revision it had puts it in
`reused`; so a row outside `reused` with the revision of an earlier read is that
very read. `AppliedFresh` follows, since the guard of the batch compares
revisions, and so does `OneWinnerPerRevision`, since an applied change moves the
row off the revision of its request. The refinement of `FourEyes` takes one step
per action, each a step of the contract or a stutter, with
`DecisionsMatchStatus` to know that nobody has decided a pending request.
`UnapprovedChangeExplained` needs an invariant of its own about what a call at a
write point has judged: it chose to write directly, so by what it read the change
was not critical. Proving it found that an earlier wording was too strong: the
second write of a PATCH finds a row that its own first write has changed.
`OutcomesAreFinal` (applied, rejected and expired requests stay so) is a fact
about the contract, read off its next-state relation and carried over by the
refinement.

### ReleasePublication_proofs

Theorems: `TypeCorrect`, `PublishedSafe`, `ImplementsHistory`,
`ImplementsFourEyes`, `OneInForce` and `DecidedByAnother`.

`TypeOK` is inductive with what it says of references (`ReferencesOK`): the
release of a request exists, a draft was never published, and the identifier
that a creation is about to insert belongs to no row and to no other call.
Without the last one a creation could overwrite a release.

The other proofs go through two lemmas that say what any step can do.
`ReleaseSteps`: a release is kept (only a draft gets another checksum, nothing
becomes a draft), created, or published by a request. `RequestSteps`: a request
is unchanged, raised, approved, closed, or applied by a publication of its
release. `PublicationInv` adds to `PublishedAsApproved` that a request that was
ever approved carries the decision of another administrator (`ApprovedBacked`).
At a publication the release is still a draft, hence unpublished, hence without
an applied request, so the request used up is the only one, and the guard of the
batch has compared its checksum; afterwards the release is no draft, so its
checksum stays.

The refinement of `ReleaseHistory` maps creation, publication and withdrawal to
its three actions and everything else to a stutter; that of `FourEyes` needs the
invariant `Undecided`, that a pending request carries no decision.

The two contracts are worth what follows from them, which the last two theorems
spell out: one release at most is published and none returns from superseded or
withdrawn (`OneInForce`); nobody decides their own request, a request has one
decider at most, and its outcome is final (`DecidedByAnother`). Both are proved of
the abstract specifications and hold of this module because it refines them.

### Ingestion_proofs

Theorems: `TypeCorrect`, `ReviewDecisionsKept` and `CheckpointsSkipNothing`, which
need no hypothesis about scopes, faults or administrators; `LeasesExclude`,
`ChecksumsFollow` and `NoSecondCandidate`.

`Typed` says of each job what its program counter lets it rely on: a page with its
records, a record on it, a candidate that exists once it is to be updated. For
`NothingSkipped`, `Progress` adds three facts: the records before the cursor of a
job, and on its page those before the one it is at, were handled
(`HandledBefore`); the outcome that is logged next is of a record that was saved,
previewed or failed (`OutcomeBacked`); and so no checkpoint is ahead. A step of
anybody else keeps the cursors or sets them back (`CursorsKept`).

`Leased` is the invariant of `LeaseExclusive`: a run within its lease holds the
lock of its scope with at least as much of the lease left in the row, and no two
runs have one identifier; so nothing replaces or deletes the lock under it. With
one scope that leaves one job at work on a record while nothing is late, and
`Evidence` says what it knows: the provenance it read is still that of the table,
and the candidate is either up to date or withheld. A reviewer changes the status
of a candidate and neither what it says nor whether an update was withheld, so
the facts survive decisions and reopenings.
`Unique` accounts for each candidate by its provenance or by the one job that is
about to write it.

### Intake_proofs

Theorems: `TypeCorrect`, `OneActive`, `NothingEntersBlind`, `DraftsAreBounded`,
`CommitsKeepContract` and `OneAnswerPerCommit`.

Besides types the invariant has that a fingerprint in the column belongs to one
active row (`PrintedOnce`), and that no newer row has the content of an old one
that was active ever since (`SubmissionsKnown`), which together give
`OneActivePerContent`; that a batch is on record with its submissions
(`BatchesKnown`); and what a call at a point has seen (`CallsSeeing`). `NoneBlind`
rests on `Foreseen`: a row that the preview of an attempt found ready looks like
none of those that were active ever since the attempt began, and a possible
duplicate is among what will be stored only if it was confirmed. For
`DraftsBounded` the drafts of a name are counted together with the calls that are
about to leave one (`DraftsLeft`).

`CommitsKeepContract` refines `CommitOnce`: the statement that stores a batch maps
to `Record`, a reply to `Repeat`, and everything else, failures and
second attempts included, to a stutter. What it comes to for a client is
`OneAnswerPerCommit`: two answers under one reference are equal, and what is on
record for it never changes.

### CreatorEvidence_proofs

Theorems: `EvidenceTypeCorrect`, `PrimariesUnique`, `CriticalApproved`, `CitationsOwned` and
the action property `ApprovalsAsSeen`.

`OnePrimary` is inductive given types, since the statement that makes a profile
primary demotes the others. `Direct` says that whoever decided to write directly
found an ordinary tier, or that the tier was raised since (`JudgedRight`).
`Memory` is for `ApprovedAsSeen`: what a request or a call remembers of a profile
under a revision is what the row was at that revision, so that an equal revision
at the approval means an equal row. `Citing` says that the source of an alias, of
an alias about to be written and of a merge about to end exists and has the owner
that was checked, unless an import brought the alias.

### AdminImport_proofs

Theorems: `ImportTypeCorrect`, `SurprisesAreLater`, `RequestsRaisedOnce` and
`ErrorsAreOfTheFile`.

The Registry only grows, and with later stamps (`Grows`); identifiers and keys are
unique (`Identified`), and those of previews are numbered apart (`Serials`).
`Drawing` follows a preview row by row: the records it has drawn up so far agree
with each other (`Agree`: no two of one name, key or identifier), and whatever
they disregard of the Registry came after the preview began; `Storing` says the
same of the previews on record. A commit that meets
something its preview did not know then meets something later, which is
`PreviewHolds`. `Raising` has that requests are those of completed previews, and a
preview is completed once.

### Entries_proofs

Theorems: `EachEntersAlone`, `EntriesTypeCorrect`, `PublicUndisturbed`,
`CreatorsUndisturbed` and `ImportsUndisturbed`.

A step of the composition is, for each part, a step of its own or none, so a
behaviour of `EntriesSpec` is one of all three specifications, and what was proved
of each holds while all are at work. Where the code of one part writes rows that
another reads, that write is an action of the module that reads (see the first
section), and so each part's theorems allow for it already.

### Clients_proofs

Of the pages of the administration: `TypeCorrect`, `PagesAreCurrent`,
`NobodyWaitsForNothing` and `OneWriteAtATime`.

The page listens to requests for the record of the address only (`Heeding`), and
an acknowledged write aborts every request before it. So what was read for a
request that is listened to is no older than what the page was told (`Reading`),
and neither is the answer that is kept for the current attempt (`Keeping`); the
database is never behind what was told (`Told`). `Flagged` is for `OneAtATime`.

Of the forms and the check: `LastCheckCounts` and `CheckingIsHeard` of the page that checks a handle;
`PreviewsPrecede` of the handle form; `AnswersHold` of the service behind the check;
`ErrorsStayWithRows` of the suggestion form; `SheetsStoredOnce` of the panel for
spreadsheets, which needs no hypothesis; and `WaitsAreAnswered`, which joins
`CheckingIsHeard` with `NobodyWaitsForNothing`.

* The check page listens to the last check it sent, and to one at a time; while it
  does, no failure of that check is kept and no aborted check bears its number
  (`Listening`), so that an aborted check that ends late cannot pass for the last
  one.
* In the handle form a preview on display was answered since the last change
  (`ShownSince`), and what is awaited is the last submission, behind the flag
  (`Awaiting`).
* The service: what was in force throughout is in force now, and what is in force
  now was so at some time (`Bounded`); each query found no less than the first and
  no more than the second (`Found`). The rest is that the verdict is of the highest
  rank among what was found.
* In the suggestion form ids are given once (`Numbered`) and the submission that is
  awaited is made of the rows of `lastSent` (`Sending`), so that a position in the
  answer leads to an id, and the id to the row, if it is still there (`Explained`).
* The panel: a reference stands for what is sent between two resets, and the server
  has what it says it has (`Referenced`). Unless a cancelled parse, a cancelled
  preview or a late template has disturbed the panel (`upset`), one file at most is on its way before
  the preview (`Early`), an awaited answer keeps the panel as it is (`Late`), and
  the result is that of the file shown (`OnDisplay`).

Of all together: `EachWorksAlone`, that what a mixture of uses does to one page is
what that page does alone; `PagesTypeCorrect`, that all variables keep their types
(for the form and the panel this rests on the invariants above, since an error or
a result has the type it has because of what was sent); and `PagesKeepPromises`,
that the eight properties hold together under `ClientsSpec`.

### Only model-checked

* `EveryRecordArrives` and `RepeatsArrive`: the prover does not treat fairness.
* The runs that end in a counterexample, which have nothing to prove.

## Not modelled, and limits

* Of the Wikidata connector, `Ingestion` has whether it is ready, its pages by
  offset over a listing that does not change, and the records it refuses. Its
  mapping of entities converts data, its retries with a bounded delay keep nothing
  between calls, and no caller hands it a signal to abort.
* Handle normalisation, similarity and spreadsheet parsing are conversions
  character by character; the models start from normalised names and parsed rows.
* Roles and permissions are two constant tables; a model takes their outcome as
  the set of administrators who may. Token verification and rate limiting are
  decided by other services.
* The read API and the listings of the administration change nothing.
* Of the pages, the picker of countries, the settings and those that only show.
* Of the sources, the limits and dates of a configuration, which are bounds of
  the model; of creators, the descriptive fields.
* `RegistryReleaseRepository.publish`, `SourceLockRepository.heartbeat`,
  `setPrimary`, `updateVerificationStatus` and `updateVisibilityStatus` of the
  profiles are called by nothing.
* The text of audit entries, HTTP status codes, validation messages, styling.

D1 is taken to run statements one at a time and batches as transactions, as its
documentation says and `src/` relies on.

Eight hazards of `PROJECT.json` have no property; each has a note that says why.

# Lender Matching Platform: models and proofs

The platform takes equipment-finance applications, matches each against the published policies
of many lenders and stores one ranked list of results per underwriting run.  Policies are
versioned (draft, published, archived) and can be drafted from an uploaded PDF.  A FastAPI
process serves a React client; PostgreSQL holds all state; long work runs either in a background
task of the API process or, when a token is configured, as a Hatchet workflow in worker
processes.

This directory holds TLA+ models of that system, TLC configurations that check them on small
instances, and proofs that TLAPS checks for every instance.  Paths below are relative to the
repository.

## 1. The system

| component | state | operations | interacts with |
|---|---|---|---|
| Loan applications (`backend/app/api/applications.py`, `services/application_mapper.py`, `services/completeness.py`) | `loan_applications.status`, payload | create, duplicate, update, submit, delete, read | runs (status is written by them) |
| Underwriting runs (`api/runs.py`, `services/underwriting.py`) | `underwriting_runs` (status, mode, snapshot), `lender_match_results` | start; mark running, build features, evaluate, complete, fail | applications, policies, both drivers |
| In-process driver (`execute_run`) | a scheduled background task, its thread and session | the whole pipeline, then `fail_run` on any exception | API process (dies with it) |
| Hatchet driver (`workflows/underwriting.py`, `workflows/worker.py`) | the workflow in Hatchet, attempts, retries | `prepare`, `evaluate_lenders` (fan-out), `persist`, `on_failure` | Hatchet engine (external), database |
| Lender policies (`api/lenders.py`, `services/policies.py`, `models/policy.py`) | lenders, versions, programs, rules | create draft, edit, publish (archives), discard, delete lender | runs read published versions |
| Ingestion (`api/ingestion.py`, `services/ingestion.py`, `workflows/ingestion.py`) | `ingestion_jobs`, a PDF on disk | upload, prepare, extract, draft, fail, retry | policies (creates or replaces a draft), both drivers |
| Matching engine (`engine/`) | none (pure) | derive features, evaluate a lender, score, rank | runs |
| Extraction (`services/extraction.py`) | none | call a model API, build a draft policy | ingestion |
| Client (`frontend/src/api/hooks.ts`) | cached responses, poll timers | poll while busy, mutate, invalidate | reads of applications and runs |

What is hard here:

- **Interleaved transactions.**  Sessions run at READ COMMITTED and no handler takes a lock or
  compares a version: every handler acts on what it read.  What is safe is safe because of two
  partial unique indexes, row locks that last from an autoflush to a commit, and the ORM's habit
  of not writing a value it believes is already there.  That habit cuts both ways.
- **Two drivers, one run.**  A run may be executed by a background task, by attempts of Hatchet
  tasks, by attempts that Hatchet has given up but whose thread goes on, or by several of these.
- **Failures.**  A task can raise, die, time out or commit and not be heard of; a dispatch can be
  refused, or be accepted and reported as refused; the write that records a failure can fail; the
  API can restart.  Nothing re-reads unfinished work at start-up.
- **Reads in several statements.**  A response combines what several statements saw.

What makes each component correct:

- applications: only drafts change; a submitted one is complete; one with runs is never a draft
  again; `underwriting` means that a run is active and that something drives it;
- runs: one active run per application; completed means results and snapshot, failed means none;
  one list of results; settled is final; every run settles; the mode shown is the mode that ran;
- policies: one published and one draft version per lender; published content is frozen; a version
  only moves forward; versions are numbered in order; a draft starts from what is published;
- ingestion: one draft per lender, found through its job, with nothing lost of what was extracted;
  nothing published; every job ends;
- engine: the rank does not depend on arrival order; a matched program is the best eligible one;
  scores stay within bounds and ratios are defined at their boundaries;
- client: a page that stopped polling shows what the server holds.

## 2. The modules

| module | what it is |
|---|---|
| `Underwriting` | applications, runs, both drivers, the Hatchet engine and the faults, at the grain of one action per database transaction half (read / commit) |
| `RunLifecycle` | what a client may rely on: the statuses of applications and runs as one atomic lifecycle |
| `PolicyLifecycle` | lenders, policy versions and the evaluations that read them, as concurrent transactions under the constraints of the tables |
| `PolicyVersions` | what a reviewer may rely on: the atomic life of a policy version |
| `Catalog` | fields, operators and the validation of policies (`engine/catalog.py`, `operators.py`, `policy.py`) |
| `Features` | completeness of a payload, and the features derived from it (`services/completeness.py`, `engine/adapters.py`, `features.py`) |
| `Evaluator` | conditions, rules, programs, the decision of a lender and its score (`engine/evaluator.py`, `scoring.py`) |
| `Matching` | one run of the pipeline over the data: derive, evaluate, rank |
| `Extraction` | from the answer of the model to a draft policy (`services/extraction.py`) |
| `Ingestion` | jobs, both drivers, retries, faults, and reviewers who act on the drafts meanwhile |
| `Polling` | the list and the detail page, the reads that answer them, and `RunLifecycle` as their server |
| `MC...` | instances for TLC |
| `UnderwritingProofs`, `UnderwritingSafety`, `UnderwritingDrivers` | theorems about `Underwriting`: type correctness; its safety invariants; who drives a run, and that the drivers implement `RunLifecycle` |
| `PolicyProofs`, `PolicyRefinement` | theorems about `PolicyLifecycle`: what holds for any number of sessions; what holds for one operator, and that it implements `PolicyVersions` |
| `MatchingProofs`, `IngestionProofs`, `PollingProofs` | the theorems about the module of that name |

`Matching` extends `Evaluator`, which extends `Features` and `Catalog`; `Ingestion` extends
`Extraction`, which shares the validation of `Catalog` with the engine, as the code does;
`Polling` instantiates the abstract `RunLifecycle`, which `Underwriting` is checked to implement.

### Underwriting

State and code:

| variable | in the code |
|---|---|
| `app`, `complete` | `loan_applications.status`; whether `missing_fields` of the payload is empty |
| `run`, `owner`, `mode`, `snapshot`, `results` | the columns of `underwriting_runs` and its `results`; a list of results is the batch one call of `complete_run` inserted |
| `lock` | which transaction holds the row lock of a run |
| `req` | the request a handler of the API is serving, and what it has loaded |
| `background` | runs for which `background.add_task(execute_run, ...)` waits for its response to be sent |
| `flow` | the workflow of a run in Hatchet: the current task, the attempts used, whether lenders were evaluated |
| `worker` | the task a thread executes, the step it is at, and the status, application status, snapshot and old results its session has read |
| `faults` | how many faults have been injected (bound) |

Every handler that writes is split into `Load`, which evaluates the guards on what it reads, and
a commit (`CommitUpdate`, `CommitSubmit`, `CommitDelete`, `CommitStart`).  Requests that are
refused change nothing and are left out.  `start_run` goes on after its commit: dispatch to
Hatchet (`DispatchAccepted`), or fall back (`FallBack`), then schedule and answer (`Reply`).
A task goes through `mark_running` (`MarkRead`, `MarkCommit`), `build_features` and the evaluation
(`Build`), `complete_run` (`ReadRun` in a fresh session for `persist`; `Replace`; `Commit`) and,
on an exception, `fail_run` (`FailRead`, `FailCommit`).  `prepare` is the first two, `persist` is
`complete_run`, `on_failure` is `fail_run`, `execute_run` all of them in one session.

Three details of the ORM carry weight and are modelled for what they do.

- *A value is written only when it differs from the one read* (`Write`).  `complete_run` on a
  session that read the application as completed does not write the application.
- *A relationship that is assigned loads its old rows first, and that load flushes pending
  changes.*  `complete_run` has set the snapshot by then, so the UPDATE of the run's row takes its
  lock before the old results are read (`Replace`), unless the snapshot was stored already and
  nothing is flushed.
- *An UPDATE that matches no row raises* (`AnswerStale`, and `Raise` in the tasks).

The Hatchet engine is external.  It is modelled by what its documentation and the task
declarations promise: one live attempt of the current task, `RETRIES` further attempts, then
`on_failure` once; an attempt that times out is given up while its thread, which cannot be killed,
goes on.

Faults are injected by actions of their own, each of a named kind: `error` (a task raises or dies
before its commit; this includes a policy version or lender deleted while the run uses it), `lost`
(the commit is not acknowledged), `overrun` (timeout), `unreachable`, `ambiguous` (the dispatch),
`unrecorded` (the write that records a dispatch or a failure fails), `unanswered` (the handler
raises after the commit), `crash` (the API restarts).  A configuration says which kinds may happen
and how many in all.

Left out of the module: payloads and the rules of `missing_fields`, the content of results, the
order of rows, `started_at` and other timestamps, error texts, `workflow_run_id`, and the reads.

### RunLifecycle

The abstract specification: an application is edited while it has no runs; `Queue` starts a run
and marks the application; `Begin`; and `Complete` or `Fail`, which settle the run and hand the
application back in one step.  `Underwriting` implements it when no fault makes a run execute
twice (`RunsFollowLifecycle`), through the mapping `listed <- results # {}`.

### PolicyLifecycle

| variable | in the code |
|---|---|
| `lender` | whether the row of a lender exists |
| `status`, `owner`, `number` | the columns of `policy_versions`; `gone` is a deleted row |
| `content` | the programs and rules of a version, opaque except for `Empty`, a policy without programs |
| `results` | the rows of `lender_match_results`: the version each refers to, and the content that was evaluated |
| `req` | the request a session serves, the version it acts on, the published version and the number it has read |
| `eval` | one evaluation of a run: the version selected, and the content its child task has read |

Every handler of `api/lenders.py` is one transaction that reads and then commits.  The reads are
actions where another transaction can come between them: `create_draft` loads the versions with
their content (`LoadVersions`), then the highest number (`ReadNumber`), then inserts
(`InsertDraft`); `publish` loads its version (`LoadDraft`), then, lazily, its siblings
(`ReadSiblings`), then archives and publishes (`CommitPublish`).  The lazy load does not refresh
the version that the session already holds, so it still counts as a draft: `PublishedOr` leaves it
out.  An edit or a discard loads a draft and commits (`CommitEdit`, `CommitDiscard`);
`delete_lender` counts results and commits (`LoadLender`, `CommitDelete`).

Commits are guarded by what the database enforces: one draft and one published row per lender, a
number used once per lender, foreign keys, and the ORM's refusal to update a row that is gone.
Whatever they refuse ends in `Rollback`, as does a restart: nothing is written.  A flush and the
commit that follows it are one step, because a second writer of the same row waits for the first.

An evaluation is three transactions: `prepare` selects published versions (`Select`),
`evaluate_lender` reads the content of one (`Evaluate`), `persist` stores the result (`Record`).

Left out: names and contacts of lenders, `is_active`, clone notes, the rules inside a content, and
the replacement of results by a repeated `complete_run` (`Underwriting` has that).

### PolicyVersions

The abstract specification: a draft starts from the published version, is edited, and is published
whole, which archives its predecessor; content is frozen from then on; what an evaluation recorded
stays true.  It is what one operator sees (`ImplementsPolicyVersions`); the variables map to
themselves, `lender`, `number`, `req` and `eval` are hidden.

### Catalog, Features, Evaluator and Matching

The engine is pure, so it is operators, and `Matching` is the small machine around them: one run
prepares (`Prepare`, which `build_features` ends when something is missing), evaluates its lenders
in any order, each of which may fail instead (`EvaluateLender`, `EvaluationFails`), and ranks and
stores the rows together (`Persist`).  `stage`, `features`, `row` and `rank` are what the Hatchet
tasks hand to each other and what `execute_run` keeps in local variables.

A payload is what the API accepts and stores: `ApplicationPayload` has the types of
`schemas/application.py`, so that the theorems speak of every payload and TLC checks that its
instances are some of them.  `Merged` is the `{**a, **b}` of the adapter, and a list that
is filtered keeps the positions of what is left (`Restrict`), the first of which is `Primary`.

Abstractions, each of data that no property tells apart: the options of an enumerated field are a
few of the many; dates are years and percentages are whole; ratios are in thousandths and points
of a score in tenths, both rounded down where the code keeps floats and rounds each part (a total
may differ by a point from the code's, which no property tells apart); rules and programs
are sets, since their order shows in messages only; a program has a rank of its own within its
policy, as the unique index says; a lender is the number of its name in the order of names.
Messages are left out, and a reason is the label of the rule it is about.

Things the code does that a reader may not expect, and that the operators keep:

- `equipment_is_titled eq false` is tested as `is_true` (`evaluator.py`, line 110: the expected
  value is not looked at).
- Only the first item decides `equipment_condition`, and `equipment_is_titled` under `is_false` or
  `neq`.  `docs/POLICY_MAPPING.md`, line 67, calls the order of items irrelevant;
  `EquipmentOrderIsIrrelevant` says for which policies it is.
- `_test_equipment` means to set aside the items of another category than the one a rule is
  conditional on (`evaluator.py`, lines 71 to 81; `docs/POLICY_MAPPING.md`, line 65: "per
  category"), but never does: the condition itself holds only when every item is of that category,
  so a truck rule is skipped as soon as a trailer comes with the truck.  `AppliesToAll` proves it.
- A lender-wide restriction that lacks information does not keep a lender from being eligible
  (line 341 is only reached when no program matched), and one item without a mileage makes a limit
  of mileage lack information for all of them.  So an application passes a lender's limit with a
  truck beyond it, as long as the mileage of something else was left open, which submission allows.
  `EveryItemIsTested` covers restrictions and rules of programs and says that this is the only
  way past a limit.
- The program that a decline is explained by is chosen by failures, missing answers and rank; among
  equal decisions and scores lenders are ordered by near misses and then by name
  (`docs/POLICY_MAPPING.md`, line 83, speaks of version numbers).

### Extraction and Ingestion

`Extraction` is `_coerce`, `to_policy_dict` and `build_draft`: what the model read becomes a draft
without the rules and programs that the engine rejects, and a checklist that names them.  The
provider is external: a document is what a model answers when it is given the PDF, and an
instance says which documents there are.  A document always holds something, since an empty
answer raises.

| variable of `Ingestion` | in the code |
|---|---|
| `job` | the rows of `ingestion_jobs`; `error` keeps which kind of failure the message tells |
| `lender`, `version` | the rows of `lenders` (their names) and `policy_versions` |
| `deleted` | keys that were used once; a serial key is not used again |
| `session` | the job a handler of `retry_job` has found failed and not yet reset |
| `background` | how often `execute_job` waits on the API process for a job |
| `flow` | the Hatchet workflow of a job: task, attempts used, the output of the task before |
| `worker` | a thread: its task and step, the job its session has read, what it extracted, and the lender, drafts and published version that `create_draft` has loaded |
| `faults`, `retries` | counters (bounds `MaxFaults`, `MaxRetries`; `MaxDeleted` bounds deletions) |

`Upload` is the whole handler, because nobody else knows the job before it answers; `retry_job`
reads (`RetryLoad`) and commits (`RetryCommit`).  `mark_extracting` reads and commits around the
reading of the PDF (`MarkRead`, `MarkCommit`); `create_draft` reads (`DraftRead`) and commits all
it does or nothing (`DraftCommit`, `Storable`); `fail_job` reads and commits.  In-process, one
session serves a whole job and keeps the job as it read it first; a Hatchet task has a session of
its own.  As in `Underwriting`, an attribute set to the value it was read with is not written
(`Written`).

Two details of the unit of work decide what happens.  It inserts before it deletes, so the
extracted programs meet the programs cloned from the published version under the unique index on
ranks (`Storable`).  And a version deleted in a session stays in the collection that was loaded, so
that replacing a job's own draft clones the deleted row and raises (`DraftRead`).

Reviewers publish, discard and delete in one step each: `PolicyLifecycle` interleaves them.
Ingestion reads no draft's content, so that edits are left to it too.  Left out: files, page texts,
timestamps, an API restart (it loses tasks just as in `Underwriting`), and a `fail_job` that fails
itself.  Names that share a slug are one name, and all guidelines of an instance name one lender.

### Polling

The server is `RunLifecycle` with one application that was submitted, on which runs are started
on the page or by somebody else (`StartElsewhere`).  One page is open, the list or the detail page
(`page`): `shown` is the cached answer, `asking`, `todo` and `read` are the request in flight, the
statements it has left, and what they have read.  `start` is the mutation that starts a run, and
`errors` counts requests that failed (bound `MaxErrors`).

`Statements` has the statements of `list_applications` and of `_out` in their order, and every one
of them reads what is committed at that time (`Read`, `With`).  `Busy` is `isBusy`,
`Poll` the `refetchInterval`, `Started` the `onSuccess` of the mutation.  TanStack Query is
external and modelled by what `hooks.ts` uses of it: one fetch of a query at a time, the last
answer stays beside an error, `invalidateQueries` cancels the fetch in flight and asks again.

Left out: everything that is rendered, several applications and several pages at a time (each query polls by
itself), and `read_run` and `list_runs`, which poll in the same way with one row.

## 3. The runs

Every run has `CHECK_DEADLOCK FALSE`: ids are finite, a run of `Matching` ends, and clients need
not send requests, so the system really stops.  In `Underwriting`, `FreshBatches` needs a batch
that is neither stored nor held by a session; with four of them and at most three workers one is
free whenever `Commit` asks for it in the runs that check liveness.

| run | instance | faults | shows |
|---|---|---|---|
| `overlap` | 1 application, 2 runs, 2 requests, 2 workers, Hatchet | any 2 of all kinds | the five database invariants and the strengthening of the proofs |
| `one_driver` | 2 applications, 2 runs, 1 request, 2 workers, Hatchet | 2 of error, unreachable, unrecorded, unanswered, crash | refinement of `RunLifecycle`; the mode is the mode that runs; settled results are final |
| `progress` | 1 application, 2 runs, 1 request, 2 workers, Hatchet, fairness | 3 of error, lost, unreachable | an application under review is driven; every run settles; a run has one list of results |
| `policy_concurrent` | 1 lender, 3 versions, 2 contents, 2 sessions with every operation, 1 evaluation | restarts | one draft and one published version; what a result refers to stays; no publish takes a lender out of underwriting |
| `policy_one_operator` | 1 lender, 4 versions, 2 contents, 1 session, 2 evaluations | restarts | refinement of `PolicyVersions`; results agree with the version they name; the published version is the newest |
| `matching` | 3 lenders (tiers by score, manual, corporate), 3 businesses with teams of up to 2 guarantors or none and lists of up to 2 items | any lender fails | decisions, reasons, scores, completeness and ranks are what their reference definitions say |
| `ingestion` | 1 job, a published lender or a new one, 2 documents, 2 retries, 2 workers, Hatchet, reviewers, fairness | 1 of error, lost, overrun of `draft`, unreachable, ambiguous | nothing extracted is lost; a draft can be published, is found, is the only one and is all that is added; every job settles |
| `polling` | 1 application, 3 runs, list or detail page, fairness | 1 failed request | a page that stopped polling is current; a page follows the run it started; no page shows for ever that underwriting goes on |

Why the bounds are enough.  The invariants of `Underwriting` are about one application and its
runs, and two runs are what it takes for one to be stale while another is active; a third worker or
request repeats a role that two already play.  `Retries` is one where only the fact of a retry
counts; in `progress` two faults exhaust the attempts and a third is left for what follows.  Two
faults let one fault hit the handling of another.

No constraint or handler relates two lenders, so one is enough for `PolicyLifecycle`.  Three
versions are a published one, its predecessor and the draft that is to follow; the fourth, in
`policy_one_operator`, is the draft of the next round.  Two contents besides `Empty` tell the
content that was evaluated from the one that replaced it.

In `matching` the policies use simple rules and alternatives, hard and soft ones, conditions,
restrictions, both decision modes, the equipment fields and three tiers; payloads stand on both
sides of their thresholds and exactly at the ownership of 10 %, have facts missing (or empty) that
submission asks for, leave mileages open under limits of a lender and of a program, and mix guarantors and items so that the weakest one, the first one and the last one differ.

In `ingestion` one job meets itself: two retries and an ambiguous dispatch give two drivers, and a
draft can be published, discarded or deleted with its lender between any two steps.  The documents
are one in order and one whose rules and programs are partly refused.  `polling` needs two runs for
an answer that straddles the end of one run and the start of the next, and a third for one that
straddles a whole run.

Four runs show where the code does less than its documents say.

| run | what happens |
|---|---|
| `restart` | The API restarts between the commit of `start_run` and the end of `execute_run`.  The application is underwriting for ever and `start_run` keeps answering that a run is in progress. |
| `error_sinks_run` | One lender cannot be evaluated.  Its error row has no score before it is flushed, `rank_rows` negates the score, and the whole run fails. |
| `ingest_published_lender` | A guideline is uploaded for a lender with a published policy.  The first extracted program has rank 1, as has the cloned one that is not deleted yet; the index refuses it and the job fails. |
| `ingest_overrun` | An attempt of `prepare` outlives its timeout, the job is drafted or fails, and the attempt commits: the job is extracting, nothing drives it, and `retry_job` refuses it. |

### Known limits

The boundary of what holds is sharp.  These formulas are defined beside their models; the runs
above leave out what breaks them.

- `SubmittedIsImmutable` (`Underwriting`) fails with two requests: an update loads a draft, a
  submit commits, the update commits into the submitted application.
- `ModeTellsDriver` fails with `ambiguous`: Hatchet accepts a workflow and the call raises; the run
  is recorded and executed as `sync` while the workflow executes it too.
- `ResultsAreOneBatch` fails with `overrun` when attempts of `persist` overlap: once the snapshot
  is stored nothing locks the run before the old rows are loaded, both replace the same rows, and
  the run has two lists.  It holds as long as attempts follow each other.
- `RunsFollowLifecycle` fails as soon as a run can be executed twice (`lost`, `overrun`,
  `ambiguous`): a completed run goes back to running, or is recorded as failed with its results
  kept.  `UnderwritingIsDriven` holds with error, lost and unreachable and fails with any of crash,
  unrecorded, unanswered (without Hatchet: the task is never scheduled) or overrun.  The invariants of `overlap` hold under all of this.
- In `PolicyLifecycle` the line runs between one operator and two.  With two sessions
  `HistoryIsKept`, `PublishedIsNewest` and `ImplementsPolicyVersions` fail, because an edit or a
  discard that loaded a draft commits into what a publish has published since, and the last program
  of a draft can be deleted while a publish has already validated it.  `ForwardOnly` fails when two
  publishes of one draft overlap: the second brings the version back after its successor archived
  it.  `DraftStartsFromPublished` fails when a version is drafted and published between the two
  reads of `create_draft`: the clone has the right number and the superseded content.
- A `draft` task whose success Hatchet never hears of leaves the job failed beside the draft it
  made.  The draft is still found through the job, and only it (`DraftIsFound`), but no retry can
  succeed until it is discarded.  `DraftIsFound` fails when a lender is deleted while guidelines
  disagree on what it is called: the retried job and an attempt of before the deletion then go
  by different names.
- `EveryJobSettles` holds in `ingestion` because only `draft` overruns there; `prepare` and
  `extract`, which write a status that is not final, break it when they overrun.
- An answer of the list or detail read that straddles a whole run of somebody else can combine
  the status after it with the run before it, and polling stops on it.  This is why
  `StoppedPageIsCurrent` speaks of pages whose run is the latest.
- `isBusy` makes either order of the statements safe: the second read of the status in `_out` and
  reading runs first in `list_applications` only save a poll.  What it cannot do without is both of its
  disjuncts; each mutant that drops one is refuted.

### Fairness

`Underwriting`: a handler that was entered, a scheduled task, an attempt that Hatchet can hand out
and a task that was begun go on.  `Ingestion`: the same, as weak fairness of `Begin`, `Step` and
`RetryCommit`.  This is what threads, Starlette and the Hatchet engine give as long as a worker is
free; requests, reviewers and faults are not fair.  `Polling`: runs go on (`RunStep`; that they do
is `EveryRunSettles` of `progress`), and timers fire and requests are answered (`Load`); nobody has
to open the page or to start a run.

## 4. The proofs

The theorems hold for any values of the constants that satisfy the named assumptions of the
module: null values are not members, bounds are naturals, and what an instance starts from
satisfies the constraints of the tables.  TLC evaluates these assumptions in the runs.

- `TypeSafety` (`UnderwritingProofs`).  `TypeOK` is not inductive: a step that looks up the owner
  of the run a worker executes needs to know that there is one.  `Refers` says that whatever
  refers to a run or an application (a request, a scheduled task, a workflow, a busy worker)
  refers to one that was created.  `TypeOK /\ Refers` is inductive.
- `OneActiveRunHolds`, `UnderwritingHasActiveRunHolds`, `CompletedRunHasResultsHolds`,
  `CompletedAppHasResultsHolds`, `RunMeansLeftDraftHolds` (`UnderwritingSafety`).  The invariant
  `Inductive` adds two facts, themselves theorems (`StaleSessionIsSettledHolds`, `CommitHasRowsHolds`).
  `StaleSessionIsSettled` is the heart of the argument: a session
  that believes that the application is not underwriting, while it is, works on a run that is no
  longer active.  Such a session would not write the application, so if its run were active its
  commit would leave an application underwriting with no active run.  It is preserved because a
  start only succeeds when no run of the application is active, and because the index refuses to
  revive the stale session's run while another run is active.  `CommitHasRows` says that the
  commit of `complete_run` is only reached with rows to insert.
  `QuietOrWrites` first separates the few transactions that write the columns in question from
  all other steps; `StepSession` says that a session keeps what it read or reads it now.
- `OneOfEachHolds`, `ResultsPointAtPublishedHolds`, `KeepsPublishedHolds`, `PolicyTyped`
  (`PolicyProofs`), from `PolicySafety`.  The inductive invariant adds to the two invariants of
  the rows what is in flight: `RequestsRefer` (a request acts on an inserted version of its
  lender and archives
  another one of the same lender) and `EvaluationsRefer` (an evaluation works on a version that was
  published once).  `InsertEffect`, `PublishEffect` and `RemovalEffect` say how the rows of a lender
  change; the invariants follow from them without looking at the handlers again.  A result keeps
  its version because a version that was published never is a draft again, and the foreign key
  refuses its removal.  `KeepsPublished` rests on `RequestsRefer`: what a publish archives belongs
  to the lender of what it publishes.
- `DraftIsNewestHolds` (`PolicyProofs`), for clients that do not discard: the draft has the highest
  number of its lender although the number is read long before it is used.  The invariant
  `Numbering` says that numbers have no gaps, below a row and below a number a request holds; so
  when the unique index admits a number, every higher one is free too.  With discards it fails: one
  that loaded a draft can remove the version it has become, and leave a gap.
- `UndisturbedHolds`, `HistoryIsKeptHolds`, `PublishedIsNewestHolds`, `ForwardOnlyHolds`,
  `DraftStartsHolds`, `PolicyRefines` (`PolicyRefinement`), under `OneOperator`: the requests that
  change policies come one at a time, evaluations come as they like.  With two sessions all of them
  fail (see the known limits), so the assumption is the boundary and not a convenience.
  The inductive invariant `Undisturbed` says that what a handler or an evaluation has read is still
  what the rows hold when it writes: a draft it loaded is a draft, the content it copied is the
  published one, the number it read is the highest, and whatever an evaluation read of a
  version is its content still, because a version that was published is not a draft again.
  `PolicyRefines` maps every handler to one step of `PolicyVersions`, its reads and its
  refusals to stuttering.
- `ModeTellsDriverHolds`, `ResultsAreOneBatchHolds`, `ResultsAreFinalHolds`,
  `UnderwritingIsDrivenHolds`, `RunsFollowLifecycleHolds` (`UnderwritingDrivers`), for any number
  of applications, runs, workers and retries and for as many faults as one likes of the
  kinds that the assumption admits:

  | assumption | excludes | theorem |
  |---|---|---|
  | `NoAmbiguity` | `ambiguous` | `ModeTellsDriverHolds` |
  | `OneAttempt` | and `overrun` | `ResultsAreOneBatchHolds` |
  | `NothingRepeats` | and `lost` | `ResultsAreFinalHolds` |
  | `NothingForgotten` | as `OneAttempt`, and `unrecorded`, `unanswered`, `crash` | `UnderwritingIsDrivenHolds` |
  | `NothingRepeats`, `OneRequest` | as above, and a second session | `RunsFollowLifecycleHolds` |

  What is excluded breaks the property, as TLC shows on instances of one or two runs: each of the
  named faults by itself; for `ResultsAreOneBatch` an overrun with two retries, or an ambiguous
  dispatch together with a lost acknowledgement.  The one exception is `UnderwritingIsDriven`, for
  which no instance that was checked fails with `ambiguous` alone or beside `error` and `lost`; the
  proof excludes it because it argues from one executor per run.

  `DispatchComesFirst` (nobody works on a run that is still being dispatched) and `OneExecutor` (a
  run is with one request, or scheduled, or with one worker, or in its workflow with one attempt)
  are the invariants that the fault kinds decide about.  The rest follows: who replaces the rows of a
  run has read all that are there; with `OneSettlement`, a run that is settled is worked on only by
  the attempt that settled it; with `DriversRemain`, whoever lets go of an active run has handed
  it on.  The refinement needs `Sequential` besides: a run is marked before anything is computed for
  it, and the status a session has read is still the application's.
- `MatchingTypeOKHolds`, `CompleteIsKnownHolds`, `DecisionIsJustifiedHolds`,
  `DeclineIsExplainedHolds`, `WeakestGuarantorDecidesHolds`, `EveryItemIsTestedHolds`,
  `ScoreIsBoundedHolds`, `RanksFollowPrecedenceHolds`, `EquipmentOrderIsIrrelevantHolds`
  (`MatchingProofs`): every property of the run `matching`, for any policies that the tables can
  hold (`LendersAssumption`, `PoliciesAssumption`) and any payloads that the API accepts
  (`PayloadsAssumption`).  Two invariants are enough for the machine: `RowsAreResults` (what a
  lender's row holds is the result of the features the run has now, or an error row) and
  `RunIsOrderly` (once the run has passed validation, nothing is missing and the features are those
  of its payload; rows are ranked by number and all together).  The rest is about the operators:

  - *Decisions.*  `FirstIsBest` and `DecidedPrograms` relate the code's search by rank to sets of
    programs, `LenderDecides` puts the cases together, and `ClosestExists` finds the program a
    decline is explained by as a minimum of three numbers in lexicographic order, so that the
    `CHOOSE` that stands for the code's `min` has a witness.
  - *Sums.*  `MapThenSumSet` is a recursive function on subsets.  No theorem of the library says
    that such a function exists: `SumsExist` builds it by induction on the cardinality, stated for a
    set of numbers (`Induction`), which needs no operator parameter.  `SumsUnique`, `SumType` and
    `SumBounds` are what the score needs of it.
  - *Features.*  `CopiedFeatures`, `GuarantorFeatures` and `ComputedFeatures` say where each of the
    features comes from, `NumberFeatures` that a numeric one is a number or None,
    `NothingMissing` what completeness grants.  `WeakestGuarantorDecides` needs that the least of
    finitely many scores exists (`MinOfFinite`) and that whoever must guarantee is asked.
  - *Items.*  `EquipmentPasses`, `EquipmentMisses` and `AppliesToAll`: a test that passed has looked
    at every item, whatever the rule is conditional on, and one that lacks an answer has an item
    without it.  `RestingRules` says what a match rests on: no hard rule of the lender or of the
    matched program failed.
  - *Scores.*  `TierBounds`, `HeadroomBounds` and `PreferenceBounds` bound the three parts, the
    first exactly; `ShareBounds` is the fact about division they share.
  - *Ranks.*  `KeyOrder` makes the keys of `rank_rows` a strict total order, which the name
    of the lender completes; `CountingNumbers` says that counting what comes before then numbers a
    finite set from one upwards.
  - *Order of the items.*  `SameFeatures` says what is left equal when the list is reversed
    (`Alike`), `OutcomeAlike` and `HeadroomAlike` that no rule sees the difference,
    `DecisionAlike` and `PointsAlike` that no decision or score does; the latter needs
    `SumsUnique`.
- `IngestionTyped`, `NothingIsLostHolds`, `DraftIsPublishableHolds`, `OneOfEachHolds`,
  `IngestionOnlyAddsDraftsHolds` (`IngestionProofs`).  Two facts about `BuildDraft` alone,
  `DraftReports` and `DraftIsValid`, hold for every document.  The invariant `IInv` is `Coherent`
  (types; every reference is to a job that exists, `Refers`; at most one live attempt per workflow,
  `OneAttempt`), `Linked` (a job that names a version has the document and the checklist it was
  built from) and `OneOfEach`.  Every step is a `RowStep`: it leaves the rows alone, changes a
  status (`Marks`), inserts a draft (`Drafts`), adds a job (`Adds`), or is a reviewer's
  (`Reviewed`); the properties look at those five only.
- `DraftIsFoundHolds` (`IngestionProofs`), under `NamesAgree`: nobody deletes lenders, or the
  guidelines agree on what a lender is called.  Without it the property fails: a lender is deleted,
  its job is retried and reads a second name, while a late attempt still holds the first.  The
  invariant `Traceable` says what every session holds of rows that reviewers may delete: which job
  a version comes from (`Sourced`), that the lender a job names is the one its draft has
  (`NameHolds`), and what an attempt has read or is about to write (`ReadHolds`, `TargetHolds`).
- `StoppedPageIsCurrentHolds`, `StartIsFollowedHolds` (`PollingProofs`).  `ServerInv` says that
  runs come one after another and that only the latest can be active.  `PageInv` says, for each
  statement that a request has left to do, what its earlier statements must have read; what is
  settled stays (`Keeps`), so a fact read once about a settled run is still true when the answer
  arrives.  `StartInv` says that once a start was acknowledged, what the page has
  read of the runs is that run or a later one.

Only model-checked:

- liveness: `EveryRunSettles`, `EveryJobSettles` and `PageComesToRest` (fairness and ENABLED are out
  of the reach of TLAPS);
- that the four findings are reachable;
- what a fold computes on an instance: that ratios and points have the values of the code, beyond
  the bounds and the order proved here.

## 5. Not modelled, and what could follow

- The pages of single runs (`read_run`, `list_runs`) and the reads of features and samples: one
  row, read in one statement or never changing.  Storing a payload in rows: what is stored is what
  is read back, apart from what `Features` needs.
- Static endpoints (catalog, health), error handlers and rendering: no state.
- Prompts and the providers of extraction: external; an answer is any document.
- Seeds and migrations: run once, by hand, on an empty database.  The constraints of the initial
  migration are guards of the models.
- The slots of a Hatchet worker: how the engine schedules parents that wait for children is not
  determined by this repository.
- Deadlocks of row locks.  `complete_run` and `fail_run` both lock the run before the application
  (loading the application flushes the run), so they only wait for each other; whatever else
  PostgreSQL may abort is one of the faults "error" and "unrecorded".

In order of importance, what could follow: runs and policies composed, so that a version published
or a lender deleted during a run is an interleaving and not a fault; an API restart in
`Ingestion`; in the proofs, that `Extraction` keeps the order in which guidelines list their
programs, that `missing_fields` is minimal (whatever it lists, some valid policy asks for), and
what remains of `RunsFollowLifecycle` when several requests are served at once.

---------------------------- MODULE Underwriting ----------------------------
(***************************************************************************)
(* Loan applications and the underwriting runs started on them.            *)
(*                                                                         *)
(* Three kinds of process share one PostgreSQL database (READ COMMITTED):  *)
(* the request handlers of the API, the in-process background task that    *)
(* executes a run (services/underwriting.py: execute_run), and the         *)
(* attempts of the Hatchet tasks (workflows/underwriting.py).  Every       *)
(* database transaction is split into the step that reads and the step     *)
(* that commits; in between a process holds what it read.  The ORM writes  *)
(* a column only when the new value differs from the one it read, so a     *)
(* commit is "write unless I read that value already" (see Write).         *)
(*                                                                         *)
(* An application's payload is abstracted to whether a required field is   *)
(* missing; a ranked list of lender results to the batch that one call of  *)
(* complete_run inserted; the evaluation of lenders to whether there was a *)
(* published policy to evaluate.                                           *)
(***************************************************************************)
EXTENDS Naturals, FiniteSets

CONSTANTS
    Apps, Runs,     \* identities the database can hand out
    Sessions,       \* API request handlers that can be in flight at once
    Workers,        \* threads that can execute a run, in the API or in a worker
    Batches,        \* identities of inserted result lists
    NoApp, NoRun, NoWorker,
    UseHatchet,     \* settings.use_hatchet
    Retries,        \* RETRIES of the Hatchet tasks
    Faults,         \* which faults the environment may inject
    MaxFaults       \* how many of them in one behaviour

FaultKinds ==
    {"error",        \* a task raises or its thread dies before the commit: the
                     \* database fails, or a policy it evaluated was deleted
     "lost",         \* an attempt committed but Hatchet never hears of it
     "overrun",      \* an attempt times out while its thread keeps running
     "unreachable",  \* Hatchet refuses the dispatch
     "ambiguous",    \* Hatchet accepts the dispatch, the caller sees an error
     "unrecorded",   \* the write that records a dispatch or a failure fails
     "unanswered",   \* the handler raises after the commit that starts a run
     "crash"}        \* the API process restarts

ASSUME ConstantsAssumption ==
    /\ NoApp \notin Apps
    /\ NoRun \notin Runs
    /\ NoWorker \notin Workers
    /\ UseHatchet \in BOOLEAN
    /\ Retries \in Nat
    /\ Faults \subseteq FaultKinds
    /\ MaxFaults \in Nat

VARIABLES
    app,         \* loan_applications.status
    complete,    \* no required field of the application is missing
    run,         \* underwriting_runs.status
    owner,       \* underwriting_runs.application_id
    mode,        \* underwriting_runs.mode
    snapshot,    \* underwriting_runs.feature_snapshot is set
    results,     \* the batches of lender_match_results of the run
    lock,        \* the worker whose open transaction has updated the run's row
    req,         \* the API request each session is serving
    background,  \* runs whose execute_run is scheduled in the API process
    flow,        \* the Hatchet workflow of each run
    worker,      \* what each worker is executing, and what it has read
    faults       \* faults injected so far

db == <<app, complete, run, owner, mode, snapshot, results>>
vars == <<app, complete, run, owner, mode, snapshot, results, lock, req,
          background, flow, worker, faults>>

-----------------------------------------------------------------------------
AppStatus == {"absent", "draft", "submitted", "underwriting", "completed",
              "deleted"}
RunStatus == {"none", "queued", "running", "completed", "failed", "gone"}
Active == {"queued", "running"}
Settled == {"completed", "failed"}
Attempted == {"prepare", "persist", "onfail"}    \* stages a worker executes
Stages == {"none", "evaluate", "succeeded", "failed"} \cup Attempted
Steps == {"idle", "mark", "marking", "build", "read", "replace", "commit",
          "fail", "failing", "ack"}

Request == [op : {"idle", "update", "delete", "submit", "start", "dispatch",
                  "reply"},
            app : Apps \cup {NoApp}, run : Runs \cup {NoRun}]
Flow == [stage : Stages, tries : 0 .. Retries, rows : BOOLEAN]
Worker == [task : {"idle", "sync"} \cup Attempted, run : Runs \cup {NoRun},
           step : Steps, live : BOOLEAN,
           st : RunStatus, app : AppStatus, snap : BOOLEAN,
           rows : BOOLEAN, old : SUBSET Batches]

IdleRequest == [op |-> "idle", app |-> NoApp, run |-> NoRun]
IdleWorker == [task |-> "idle", run |-> NoRun, step |-> "idle", live |-> FALSE,
               st |-> "none", app |-> "absent", snap |-> FALSE,
               rows |-> FALSE, old |-> {}]

TypeOK ==
    /\ app \in [Apps -> AppStatus]
    /\ complete \in [Apps -> BOOLEAN]
    /\ run \in [Runs -> RunStatus]
    /\ owner \in [Runs -> Apps \cup {NoApp}]
    /\ mode \in [Runs -> {"sync", "hatchet"}]
    /\ snapshot \in [Runs -> BOOLEAN]
    /\ results \in [Runs -> SUBSET Batches]
    /\ lock \in [Runs -> Workers \cup {NoWorker}]
    /\ req \in [Sessions -> Request]
    /\ background \subseteq Runs
    /\ flow \in [Runs -> Flow]
    /\ worker \in [Workers -> Worker]
    /\ faults \in 0 .. MaxFaults

Init ==
    /\ app = [a \in Apps |-> "absent"]
    /\ complete = [a \in Apps |-> FALSE]
    /\ run = [r \in Runs |-> "none"]
    /\ owner = [r \in Runs |-> NoApp]
    /\ mode = [r \in Runs |-> "sync"]
    /\ snapshot = [r \in Runs |-> FALSE]
    /\ results = [r \in Runs |-> {}]
    /\ lock = [r \in Runs |-> NoWorker]
    /\ req = [s \in Sessions |-> IdleRequest]
    /\ background = {}
    /\ flow = [r \in Runs |-> [stage |-> "none", tries |-> 0, rows |-> FALSE]]
    /\ worker = [w \in Workers |-> IdleWorker]
    /\ faults = 0

\* An UPDATE of one column: the session read `seen` and assigned `new`.
Write(current, seen, new) == IF seen = new THEN current ELSE new

Exists(a) == app[a] \notin {"absent", "deleted"}
HasRow(r) == run[r] \notin {"none", "gone"}

\* Mutant of Conflict: the index predicate forgets running runs.
ConflictQueuedOnly(a, r) ==
    \E q \in Runs \ {r} : owner[q] = a /\ run[q] = "queued"

\* uq_active_underwriting_run_per_application: another run of a is active.
Conflict(a, r) == \E q \in Runs \ {r} : owner[q] = a /\ run[q] \in Active

Unlocked(r, w) == lock[r] \in {NoWorker, w}

Inject(kind) ==
    /\ kind \in Faults
    /\ faults < MaxFaults
    /\ faults' = faults + 1

-----------------------------------------------------------------------------
(* API: applications.  A request the handler refuses (404, 409, 422)       *)
(* changes nothing and is not an action.                                   *)

CreateApplication(a) ==
    /\ app[a] = "absent"
    /\ app' = [app EXCEPT ![a] = "draft"]
    /\ \E c \in BOOLEAN : complete' = [complete EXCEPT ![a] = c]
    /\ UNCHANGED <<run, owner, mode, snapshot, results, lock, req, background,
                   flow, worker, faults>>

\* The copy gets a legal name even when the source has none, so it may be
\* complete when the source is not.
DuplicateApplication(source, a) ==
    /\ Exists(source)
    /\ app[a] = "absent"
    /\ app' = [app EXCEPT ![a] = "draft"]
    /\ \E c \in BOOLEAN : /\ complete[source] => c
                          /\ complete' = [complete EXCEPT ![a] = c]
    /\ UNCHANGED <<run, owner, mode, snapshot, results, lock, req, background,
                   flow, worker, faults>>

\* The guards a handler evaluates on what it loads.
Admits(op, a) ==
    CASE op \in {"update", "delete"} -> app[a] = "draft"
      [] op = "submit" -> app[a] = "draft" /\ complete[a]
      [] op = "start" -> app[a] \in {"submitted", "completed"} /\ complete[a]

Load(s, op, a) ==
    /\ req[s].op = "idle"
    /\ Admits(op, a)
    /\ req' = [req EXCEPT ![s] = [op |-> op, app |-> a, run |-> NoRun]]
    /\ UNCHANGED <<db, lock, background, flow, worker, faults>>

Answer(s) == req' = [req EXCEPT ![s] = IdleRequest]

\* The row the handler loaded is gone: StaleDataError, HTTP 500.
AnswerStale(s) ==
    /\ req[s].op \in {"update", "submit", "start"}
    /\ ~Exists(req[s].app)
    /\ Answer(s)
    /\ UNCHANGED <<db, lock, background, flow, worker, faults>>

CommitUpdate(s) ==
    /\ req[s].op = "update"
    /\ Exists(req[s].app)
    /\ \E c \in BOOLEAN : complete' = [complete EXCEPT ![req[s].app] = c]
    /\ Answer(s)
    /\ UNCHANGED <<app, run, owner, mode, snapshot, results, lock, background,
                   flow, worker, faults>>

CommitSubmit(s) ==
    /\ req[s].op = "submit"
    /\ Exists(req[s].app)
    /\ app' = [app EXCEPT ![req[s].app] = "submitted"]
    /\ Answer(s)
    /\ UNCHANGED <<complete, run, owner, mode, snapshot, results, lock,
                   background, flow, worker, faults>>

\* The foreign keys cascade: the application's runs and their results go too.
CommitDelete(s) ==
    LET mine == {r \in Runs : owner[r] = req[s].app} IN
    /\ req[s].op = "delete"
    /\ \A r \in mine : lock[r] = NoWorker
    /\ app' = [app EXCEPT ![req[s].app] = "deleted"]
    /\ run' = [r \in Runs |-> IF r \in mine THEN "gone" ELSE run[r]]
    /\ results' = [r \in Runs |-> IF r \in mine THEN {} ELSE results[r]]
    /\ Answer(s)
    /\ UNCHANGED <<complete, owner, mode, snapshot, lock, background, flow,
                   worker, faults>>

-----------------------------------------------------------------------------
(* API: starting a run.                                                    *)

\* A run with a fresh id is inserted and the application marked in one
\* transaction; the partial unique index lets at most one such commit through.
InsertRun(a, r) ==
    /\ run[r] = "none"
    /\ ~Conflict(a, r)
    /\ run' = [run EXCEPT ![r] = "queued"]
    /\ owner' = [owner EXCEPT ![r] = a]
    /\ app' = [app EXCEPT ![a] = "underwriting"]
    /\ mode' = [mode EXCEPT ![r] = IF UseHatchet THEN "hatchet" ELSE "sync"]
    /\ UNCHANGED <<complete, snapshot, results>>

CommitStart(s) ==
    /\ req[s].op = "start"
    /\ Exists(req[s].app)
    /\ \E r \in Runs :
        /\ InsertRun(req[s].app, r)
        /\ req' = [req EXCEPT ![s].run = r,
                             ![s].op = IF UseHatchet THEN "dispatch"
                                                     ELSE "reply"]
    /\ UNCHANGED <<lock, background, flow, worker, faults>>

\* The index refuses the row: the flush of create_run raises IntegrityError,
\* before the handler's own try, and nothing is written.
AnswerConflict(s) ==
    /\ req[s].op = "start"
    /\ \E r \in Runs : owner[r] = req[s].app /\ run[r] \in Active
    /\ Answer(s)
    /\ UNCHANGED <<db, lock, background, flow, worker, faults>>

Enqueue(r) == flow' = [flow EXCEPT ![r].stage = "prepare"]

DispatchAccepted(s) ==
    /\ req[s].op = "dispatch"
    /\ Enqueue(req[s].run)
    /\ Answer(s)
    /\ UNCHANGED <<db, lock, background, worker, faults>>

\* The run is switched to the in-process mode.  If it was deleted meanwhile
\* this raises StaleDataError, and the request ends there.
FallBack(s) ==
    /\ req[s].op = "dispatch"
    /\ IF HasRow(req[s].run)
       THEN /\ mode' = [mode EXCEPT ![req[s].run] = "sync"]
            /\ req' = [req EXCEPT ![s].op = "reply"]
       ELSE /\ Answer(s)
            /\ UNCHANGED mode
    /\ UNCHANGED <<app, complete, run, owner, snapshot, results, lock,
                   background, worker>>

\* Mutant of DispatchUnreachable: the fallback does not withdraw the workflow.
DispatchBoth(s) ==
    /\ FallBack(s)
    /\ Inject("unreachable")
    /\ Enqueue(req[s].run)

DispatchUnreachable(s) ==
    /\ FallBack(s)
    /\ Inject("unreachable")
    /\ UNCHANGED flow

\* The workflow was accepted but the call raised all the same: the handler
\* falls back although Hatchet will run the workflow.
DispatchAmbiguous(s) ==
    /\ FallBack(s)
    /\ Inject("ambiguous")
    /\ Enqueue(req[s].run)

\* The commit that records the workflow's id, or the one that switches the run
\* to the in-process mode, fails; the session is unusable, HTTP 500.
DispatchUnrecorded(s) ==
    /\ req[s].op = "dispatch"
    /\ Inject("unrecorded")
    /\ Enqueue(req[s].run) \/ UNCHANGED flow
    /\ Answer(s)
    /\ UNCHANGED <<db, lock, background, worker>>

\* The handler schedules execute_run and reloads the run for the response.
\* Starlette drops the scheduled task with the response when the run is gone.
Reply(s) ==
    /\ req[s].op = "reply"
    /\ background' = IF HasRow(req[s].run) THEN background \cup {req[s].run}
                                           ELSE background
    /\ Answer(s)
    /\ UNCHANGED <<db, lock, flow, worker, faults>>

\* The reload raises: the client gets HTTP 500 and the task is dropped too.
ReplyFails(s) ==
    /\ req[s].op = "reply"
    /\ Inject("unanswered")
    /\ Answer(s)
    /\ UNCHANGED <<db, lock, background, flow, worker>>

-----------------------------------------------------------------------------
(* Workers: claiming work.                                                 *)

FirstStep(task) == CASE task \in {"sync", "prepare"} -> "mark"
                     [] task = "persist" -> "read"
                     [] OTHER -> "fail"

Begin(w, task, r) ==
    /\ worker[w] = IdleWorker
    /\ worker' = [worker EXCEPT ![w] =
                    [IdleWorker EXCEPT !.task = task, !.run = r, !.live = TRUE,
                                       !.step = FirstStep(task),
                                       !.rows = flow[r].rows]]

\* Mutant of BeginSync: the task is scheduled once more than it should be.
BeginSyncTwice(w, r) ==
    /\ r \in background
    /\ Begin(w, "sync", r)
    /\ UNCHANGED <<db, lock, req, background, flow, faults>>

\* Starlette starts the background task once the response has been sent.
BeginSync(w, r) ==
    /\ r \in background
    /\ background' = background \ {r}
    /\ Begin(w, "sync", r)
    /\ UNCHANGED <<db, lock, req, flow, faults>>

\* Hatchet hands out the current task of a workflow, one attempt at a time.
BeginAttempt(w, r) ==
    /\ flow[r].stage \in Attempted
    /\ ~\E v \in Workers : /\ worker[v].live
                           /\ worker[v].run = r
                           /\ worker[v].task = flow[r].stage
    /\ Begin(w, flow[r].stage, r)
    /\ UNCHANGED <<db, lock, req, background, flow, faults>>

\* Mutants of Retry: no limit to the attempts; no on_failure task.
RetryForever(r) ==
    IF flow[r].stage = "onfail"
    THEN [flow[r] EXCEPT !.stage = "failed"]
    ELSE [flow[r] EXCEPT !.tries = @ + 1]
RetryThenDrop(r) ==
    IF flow[r].stage # "onfail" /\ flow[r].tries < Retries
    THEN [flow[r] EXCEPT !.tries = @ + 1]
    ELSE [flow[r] EXCEPT !.stage = "failed"]

\* What Hatchet does when the current attempt of r's workflow failed.
\* on_failure is attempted once.
Retry(r) ==
    IF flow[r].stage = "onfail"
    THEN [flow[r] EXCEPT !.stage = "failed"]
    ELSE IF flow[r].tries < Retries
         THEN [flow[r] EXCEPT !.tries = @ + 1]
         ELSE [flow[r] EXCEPT !.stage = "onfail", !.tries = 0]

Advance(r) ==
    LET next == CASE flow[r].stage = "prepare" -> "evaluate"
                  [] flow[r].stage = "persist" -> "succeeded"
                  [] OTHER -> "failed"
    IN  [flow[r] EXCEPT !.stage = next, !.tries = 0]

\* evaluate_lenders has no retries; a lender that fails is a row, not a failure.
EvaluateLenders(r) ==
    /\ flow[r].stage = "evaluate"
    /\ \E rows \in BOOLEAN :
        flow' = [flow EXCEPT ![r].stage = "persist", ![r].rows = rows]
    /\ UNCHANGED <<db, lock, req, background, worker, faults>>

EvaluateLendersFails(r) ==
    /\ flow[r].stage = "evaluate"
    /\ Inject("error")
    /\ flow' = [flow EXCEPT ![r].stage = "onfail"]
    /\ UNCHANGED <<db, lock, req, background, worker>>

-----------------------------------------------------------------------------
(* Workers: the steps of a task.                                           *)

\* What w's session reads of its run and of the run's application.
Seen(w) ==
    LET r == worker[w].run IN
    [worker[w] EXCEPT !.st = run[r], !.snap = snapshot[r],
                      !.app = IF owner[r] = NoApp THEN "absent"
                              ELSE app[owner[r]]]

Goto(w, record, step) == worker' = [worker EXCEPT ![w] =
                                      [record EXCEPT !.step = step]]

Unlock(w) == lock' = [r \in Runs |-> IF lock[r] = w THEN NoWorker ELSE lock[r]]

Finish(w) == worker' = [worker EXCEPT ![w] = IdleWorker]

\* An exception leaves the task: the transaction rolls back, execute_run goes
\* on to fail_run, Hatchet retries an attempt it is still waiting for.
Raise(w) ==
    /\ Unlock(w)
    /\ IF worker[w].task = "sync"
       THEN /\ Goto(w, worker[w], "fail")
            /\ UNCHANGED flow
       ELSE /\ Finish(w)
            /\ flow' = IF worker[w].live
                       THEN [flow EXCEPT ![worker[w].run] =
                                            Retry(worker[w].run)]
                       ELSE flow
    /\ UNCHANGED <<db, req, background>>

\* The task returned: a Hatchet attempt still has to be acknowledged.
Return(w) ==
    IF worker[w].task = "sync" THEN Finish(w)
                               ELSE Goto(w, worker[w], "ack")

\* mark_running: load the run and its application ...
MarkRead(w) ==
    /\ worker[w].step = "mark"
    /\ IF HasRow(worker[w].run)
       THEN /\ Goto(w, Seen(w), "marking")
            /\ UNCHANGED <<db, lock, req, background, flow>>
       ELSE Raise(w)
    /\ UNCHANGED faults

\* ... and commit RUNNING, whatever the status was.  The row may be gone by
\* now, or the index may refuse a second active run.
MarkCommit(w) ==
    LET r == worker[w].run IN
    /\ worker[w].step = "marking"
    /\ Unlocked(r, w) \/ worker[w].st = "running"
    /\ IF \/ worker[w].st = "running"
          \/ HasRow(r) /\ (run[r] \in Active \/ ~Conflict(owner[r], r))
       THEN /\ run' = [run EXCEPT ![r] = Write(@, worker[w].st, "running")]
            /\ Goto(w, [worker[w] EXCEPT !.st = "running"], "build")
            /\ UNCHANGED <<app, complete, owner, mode, snapshot, results, lock,
                           req, background, flow>>
       ELSE Raise(w)
    /\ UNCHANGED faults

\* build_features, and for execute_run the evaluation of all lenders.
Build(w) ==
    LET r == worker[w].run IN
    /\ worker[w].step = "build"
    /\ IF HasRow(r) /\ complete[owner[r]]
       THEN /\ IF worker[w].task = "sync"
               THEN \E rows \in BOOLEAN :
                      Goto(w, [worker[w] EXCEPT !.rows = rows], "replace")
               ELSE Return(w)
            /\ UNCHANGED <<db, lock, req, background, flow>>
       ELSE Raise(w)
    /\ UNCHANGED faults

\* persist runs complete_run in a fresh session; execute_run reuses the session
\* (and the rows it holds) of mark_running.
ReadRun(w) ==
    /\ worker[w].step = "read"
    /\ IF HasRow(worker[w].run) /\ worker[w].rows
       THEN /\ Goto(w, Seen(w), "replace")
            /\ UNCHANGED <<db, lock, req, background, flow>>
       ELSE Raise(w)
    /\ UNCHANGED faults

\* Mutants of Replace: no check for rows; the earlier rows are not replaced.
ReplaceUnchecked(w) ==
    LET r == worker[w].run IN
    /\ worker[w].step = "replace"
    /\ worker[w].snap \/ Unlocked(r, w)
    /\ IF worker[w].snap \/ HasRow(r)
       THEN /\ Goto(w, [worker[w] EXCEPT !.old = results[r]], "commit")
            /\ lock' = IF worker[w].snap THEN lock ELSE [lock EXCEPT ![r] = w]
            /\ UNCHANGED <<db, req, background, flow>>
       ELSE Raise(w)
    /\ UNCHANGED faults
ReplaceAppends(w) ==
    LET r == worker[w].run IN
    /\ worker[w].step = "replace"
    /\ worker[w].snap \/ Unlocked(r, w)
    /\ IF worker[w].rows /\ (worker[w].snap \/ HasRow(r))
       THEN /\ Goto(w, [worker[w] EXCEPT !.old = {}], "commit")
            /\ lock' = IF worker[w].snap THEN lock ELSE [lock EXCEPT ![r] = w]
            /\ UNCHANGED <<db, req, background, flow>>
       ELSE Raise(w)
    /\ UNCHANGED faults

\* Assigning run.results loads the rows to be replaced.  The load autoflushes
\* the new feature_snapshot first, which locks the run's row until the commit,
\* unless the snapshot read was the same already.
Replace(w) ==
    LET r == worker[w].run IN
    /\ worker[w].step = "replace"
    /\ worker[w].snap \/ Unlocked(r, w)
    /\ IF worker[w].rows /\ (worker[w].snap \/ HasRow(r))
       THEN /\ Goto(w, [worker[w] EXCEPT !.old = results[r]], "commit")
            /\ lock' = IF worker[w].snap THEN lock ELSE [lock EXCEPT ![r] = w]
            /\ UNCHANGED <<db, req, background, flow>>
       ELSE Raise(w)
    /\ UNCHANGED faults

FreshBatches(r) ==
    Batches \ (results[r] \cup UNION {worker[v].old : v \in Workers})

Inserted(w) ==
    IF worker[w].rows THEN {CHOOSE b \in FreshBatches(worker[w].run) : TRUE}
                      ELSE {}

\* complete_run commits: results replaced, run and application COMPLETED.
Commit(w) ==
    LET r == worker[w].run
        a == owner[r]
        seen == worker[w]
    IN
    /\ seen.step = "commit"
    /\ Unlocked(r, w)
    /\ FreshBatches(r) # {}
    /\ IF HasRow(r)
       THEN /\ results' = [results EXCEPT ![r] =
                             (@ \ seen.old) \cup Inserted(w)]
            /\ snapshot' = [snapshot EXCEPT ![r] = TRUE]
            /\ run' = [run EXCEPT ![r] = Write(@, seen.st, "completed")]
            /\ app' = [app EXCEPT ![a] = Write(@, seen.app, "completed")]
            /\ Unlock(w)
            /\ Return(w)
            /\ UNCHANGED <<complete, owner, mode, req, background, flow>>
       ELSE Raise(w)
    /\ UNCHANGED faults

\* fail_run opens a session of its own; a run that no longer exists is ignored.
FailRead(w) ==
    /\ worker[w].step = "fail"
    /\ IF HasRow(worker[w].run) THEN Goto(w, Seen(w), "failing") ELSE Return(w)
    /\ UNCHANGED <<db, lock, req, background, flow, faults>>

\* Mutants of FailCommit: the application is left alone, or reopened.
FailCommitRunOnly(w) ==
    LET r == worker[w].run
        seen == worker[w]
    IN
    /\ seen.step = "failing"
    /\ Unlocked(r, w)
    /\ run' = IF HasRow(r)
              THEN [run EXCEPT ![r] = Write(@, seen.st, "failed")] ELSE run
    /\ Return(w)
    /\ UNCHANGED <<app, complete, owner, mode, snapshot, results, lock, req,
                   background, flow, faults>>
FailCommitReopens(w) ==
    LET r == worker[w].run
        a == owner[r]
        seen == worker[w]
    IN
    /\ seen.step = "failing"
    /\ Unlocked(r, w)
    /\ IF HasRow(r)
       THEN /\ run' = [run EXCEPT ![r] = Write(@, seen.st, "failed")]
            /\ app' = [app EXCEPT ![a] = Write(@, seen.app, "draft")]
       ELSE UNCHANGED <<app, run>>
    /\ Return(w)
    /\ UNCHANGED <<complete, owner, mode, snapshot, results, lock, req,
                   background, flow, faults>>

\* Back to submitted so that the user can run again.
FailCommit(w) ==
    LET r == worker[w].run
        a == owner[r]
        seen == worker[w]
    IN
    /\ seen.step = "failing"
    /\ Unlocked(r, w)
    /\ IF HasRow(r)
       THEN /\ run' = [run EXCEPT ![r] = Write(@, seen.st, "failed")]
            /\ app' = [app EXCEPT ![a] = Write(@, seen.app, "submitted")]
       ELSE UNCHANGED <<app, run>>
    /\ Return(w)
    /\ UNCHANGED <<complete, owner, mode, snapshot, results, lock, req,
                   background, flow, faults>>

\* Hatchet hears that the attempt succeeded and schedules what comes next; an
\* attempt it gave up on is ignored.
Acknowledge(w) ==
    LET r == worker[w].run IN
    /\ worker[w].step = "ack"
    /\ flow' = IF worker[w].live THEN [flow EXCEPT ![r] = Advance(r)] ELSE flow
    /\ Finish(w)
    /\ UNCHANGED <<db, lock, req, background, faults>>

-----------------------------------------------------------------------------
(* Faults.                                                                 *)

TaskError(w) ==
    /\ worker[w].step \in {"mark", "marking", "build", "read", "replace",
                           "commit"}
    /\ Inject("error")
    /\ Raise(w)

\* fail_run raises: nobody will record the failure any more.
FailureUnrecorded(w) ==
    LET r == worker[w].run IN
    /\ worker[w].step \in {"fail", "failing"}
    /\ Inject("unrecorded")
    /\ Finish(w)
    /\ flow' = IF worker[w].task = "onfail" /\ worker[w].live
               THEN [flow EXCEPT ![r] = Retry(r)]
               ELSE flow
    /\ UNCHANGED <<db, lock, req, background>>

\* The worker process dies after the commit, or its report is lost.
AcknowledgementLost(w) ==
    LET r == worker[w].run IN
    /\ worker[w].step = "ack"
    /\ worker[w].live
    /\ Inject("lost")
    /\ flow' = [flow EXCEPT ![r] = Retry(r)]
    /\ Finish(w)
    /\ UNCHANGED <<db, lock, req, background>>

\* execution_timeout: Hatchet gives the attempt up, its thread goes on.
Overrun(w) ==
    LET r == worker[w].run IN
    /\ worker[w].task \in Attempted
    /\ worker[w].live
    /\ Inject("overrun")
    /\ flow' = [flow EXCEPT ![r] = Retry(r)]
    /\ worker' = [worker EXCEPT ![w].live = FALSE]
    /\ UNCHANGED <<db, lock, req, background>>

\* Requests, scheduled background tasks and running ones live in the memory of
\* the API process; nothing re-reads unfinished runs when it starts again.
Crash ==
    LET local == {w \in Workers : worker[w].task = "sync"} IN
    /\ Inject("crash")
    /\ req' = [s \in Sessions |-> IdleRequest]
    /\ background' = {}
    /\ worker' = [w \in Workers |-> IF w \in local THEN IdleWorker
                                                   ELSE worker[w]]
    /\ lock' = [r \in Runs |-> IF lock[r] \in local THEN NoWorker ELSE lock[r]]
    /\ UNCHANGED <<db, flow>>

-----------------------------------------------------------------------------
Client ==
    \/ \E a \in Apps : CreateApplication(a)
    \/ \E source, a \in Apps : DuplicateApplication(source, a)
    \/ \E s \in Sessions, a \in Apps :
        \E op \in {"update", "delete", "submit", "start"} : Load(s, op, a)

Handler(s) ==
    \/ AnswerStale(s)
    \/ CommitUpdate(s)
    \/ CommitSubmit(s)
    \/ CommitDelete(s)
    \/ CommitStart(s)
    \/ AnswerConflict(s)
    \/ DispatchAccepted(s)
    \/ Reply(s)

TaskStep(w) ==
    \/ MarkRead(w)
    \/ MarkCommit(w)
    \/ Build(w)
    \/ ReadRun(w)
    \/ Replace(w)
    \/ Commit(w)
    \/ FailRead(w)
    \/ FailCommit(w)
    \/ Acknowledge(w)

Start(r) == \E w \in Workers : BeginSync(w, r) \/ BeginAttempt(w, r)

Fault ==
    \/ \E s \in Sessions : \/ DispatchUnreachable(s)
                           \/ DispatchAmbiguous(s)
                           \/ DispatchUnrecorded(s)
                           \/ ReplyFails(s)
    \/ \E w \in Workers : \/ TaskError(w)
                          \/ FailureUnrecorded(w)
                          \/ AcknowledgementLost(w)
                          \/ Overrun(w)
    \/ \E r \in Runs : EvaluateLendersFails(r)
    \/ Crash

Next ==
    \/ Client
    \/ \E s \in Sessions : Handler(s)
    \/ \E r \in Runs : Start(r) \/ EvaluateLenders(r)
    \/ \E w \in Workers : TaskStep(w)
    \/ Fault

Spec == Init /\ [][Next]_vars

\* A handler that was entered, a scheduled task and a claimed attempt go on; a
\* client need not send another request, and no fault need happen.
Fairness ==
    /\ \A s \in Sessions : WF_vars(Handler(s))
    /\ \A r \in Runs : WF_vars(Start(r)) /\ WF_vars(EvaluateLenders(r))
    /\ \A w \in Workers : WF_vars(TaskStep(w))

FairSpec == Spec /\ Fairness
-----------------------------------------------------------------------------
(* Safety under every fault and every interleaving.                        *)

\* uq_active_underwriting_run_per_application keeps its promise although
\* mark_running revives settled runs: an application has one active run at most.
OneActiveRun ==
    \A q, r \in Runs :
        run[q] \in Active /\ run[r] \in Active /\ owner[q] = owner[r] => q = r

\* An application shown as underwriting, which the client polls and start_run
\* refuses, has an active run: no commit of a stale session leaves it behind.
UnderwritingHasActiveRun ==
    \A a \in Apps : app[a] = "underwriting" =>
        \E r \in Runs : owner[r] = a /\ run[r] \in Active

\* Whoever reads "completed" on a run finds results and the feature snapshot
\* they were computed from, whatever executions overlapped.
CompletedRunHasResults ==
    \A r \in Runs : run[r] = "completed" => results[r] # {} /\ snapshot[r]

\* An application shown as completed has results of one of its runs to show.
CompletedAppHasResults ==
    \A a \in Apps : app[a] = "completed" =>
        \E r \in Runs : owner[r] = a /\ results[r] # {}

\* Only submitted applications are underwritten, and no failure, retry or late
\* commit makes an application with runs editable again.
RunMeansLeftDraft ==
    \A r \in Runs : HasRow(r) => /\ Exists(owner[r])
                                 /\ app[owner[r]] # "draft"

\* What makes UnderwritingHasActiveRun inductive.  A session that read its
\* application before the application was marked underwriting works on a run
\* that is no longer active: were it active, the session's commit would settle
\* it and, having nothing to write to a status it believes is already set,
\* leave the application underwriting for ever.
Holding == {"marking", "build", "replace", "commit", "failing"}
StaleSessionIsSettled ==
    \A w \in Workers :
        LET r == worker[w].run IN
        /\ worker[w].step \in Holding
        /\ worker[w].app # "underwriting"
        /\ HasRow(r)
        /\ app[owner[r]] = "underwriting"
        => run[r] \notin Active

\* What makes CompletedRunHasResults inductive: complete_run's check for rows
\* has passed when its commit is reached.
CommitHasRows == \A w \in Workers : worker[w].step = "commit" => worker[w].rows

-----------------------------------------------------------------------------
(* Safety when faults or interleavings are restricted; the configurations   *)
(* say how far each promise reaches.                                       *)

\* complete_run "replaces any earlier rows, so a retry is idempotent": a run
\* never shows two lists of results.
ResultsAreOneBatch == \A r \in Runs : Cardinality(results[r]) <= 1

\* Results are immutable: once written they are only removed, with their run.
ResultsAreFinal ==
    [][\A r \in Runs : results[r] # {} =>
          results'[r] = results[r] \/ run'[r] = "gone"]_<<results, run>>

\* Something will still execute run r.
HasDriver(r) ==
    \/ \E s \in Sessions : req[s].op \in {"dispatch", "reply"} /\ req[s].run = r
    \/ r \in background
    \/ \E w \in Workers : worker[w].task = "sync" /\ worker[w].run = r
    \/ flow[r].stage \notin {"none", "succeeded", "failed"}

\* start_run refuses with "an underwriting run is already in progress": there
\* is a process that will bring it to an end.
UnderwritingIsDriven ==
    \A a \in Apps : app[a] = "underwriting" =>
        \E r \in Runs : owner[r] = a /\ run[r] \in Active /\ HasDriver(r)

\* The mode the UI shows is the mode that runs: no Hatchet workflow works on a
\* run recorded as executed in-process.
ModeTellsDriver == \A r \in Runs : mode[r] = "sync" => flow[r].stage = "none"

\* "Submitted applications are immutable."
SubmittedIsImmutable ==
    [][\A a \in Apps : Exists(a) /\ app[a] # "draft" =>
          complete'[a] = complete[a]]_<<app, complete>>

\* One execution per run at a time, seen from the database: runs and their
\* applications move as RunLifecycle says.
Lifecycle == INSTANCE RunLifecycle
                 WITH listed <- [r \in Runs |-> results[r] # {}]
RunsFollowLifecycle == Lifecycle!Spec

\* Every run that is started comes to an end.
EveryRunSettles ==
    \A r \in Runs : run[r] \in Active ~> run[r] \notin Active

=============================================================================

------------------------- MODULE UnderwritingDrivers -------------------------
(***************************************************************************)
(* Who executes a run, and what follows when it is one process at a time:  *)
(* modes tell drivers, results are one list and final, runs come to an end *)
(* or still have a driver, and Underwriting implements RunLifecycle.  Each *)
(* theorem names the faults it excludes, and no others.                    *)
(***************************************************************************)
EXTENDS UnderwritingSafety, FiniteSetTheorems

-----------------------------------------------------------------------------
(* What a step of a task does to the workers.                              *)

\* The steps a task goes through.
Fits(task, step) ==
    /\ task = "idle" => step = "idle"
    /\ task = "sync" => step \in {"mark", "marking", "build", "replace",
                                  "commit", "fail", "failing"}
    /\ task = "prepare" => step \in {"mark", "marking", "build", "ack"}
    /\ task = "persist" => step \in {"read", "replace", "commit", "ack"}
    /\ task = "onfail" => step \in {"fail", "failing", "ack"}

StepsFit == \A w \in Workers : Fits(worker[w].task, worker[w].step)

OthersStay(w) == \A v \in Workers \ {w} : worker'[v] = worker[v]

\* w goes on with its task, or is done with it.
Keeps(w, step) ==
    /\ OthersStay(w)
    /\ worker'[w].task = worker[w].task
    /\ worker'[w].run = worker[w].run
    /\ worker'[w].live = worker[w].live
    /\ worker'[w].step = step
Drops(w) == OthersStay(w) /\ worker'[w] = IdleWorker
Returns(w) == IF worker[w].task = "sync" THEN Drops(w) ELSE Keeps(w, "ack")

\* What the session holds is not read again.
Holds(w) == worker'[w].st = worker[w].st /\ worker'[w].app = worker[w].app

\* What the session holds of its run is what the database says.
Reads(w) ==
    /\ worker'[w].st = run[worker[w].run]
    /\ worker'[w].app = app[owner[worker[w].run]]

LEMMA GotoEffect ==
    ASSUME TypeOK, NEW w \in Workers, NEW record \in Worker, NEW step,
           Goto(w, record, step)
    PROVE  /\ OthersStay(w)
           /\ worker'[w].task = record.task /\ worker'[w].run = record.run
           /\ worker'[w].live = record.live /\ worker'[w].step = step
           /\ worker'[w].st = record.st /\ worker'[w].app = record.app
           /\ worker'[w].old = record.old
BY DEF Goto, TypeOK, Worker, OthersStay

LEMMA FinishEffect ==
    ASSUME TypeOK, NEW w \in Workers, Finish(w) PROVE Drops(w)
BY DEF Finish, Drops, OthersStay, TypeOK

LEMMA ReturnEffect ==
    ASSUME TypeOK, NEW w \in Workers, Return(w) PROVE Returns(w)
<1>1. worker[w] \in Worker
  BY DEF TypeOK
<1> QED BY <1>1, FinishEffect, GotoEffect DEF Return, Returns, Keeps

LEMMA RaiseEffect ==
    ASSUME TypeOK, NEW w \in Workers, Raise(w)
    PROVE  /\ UNCHANGED <<db, req, background>>
           /\ IF worker[w].task = "sync"
              THEN Keeps(w, "fail") /\ UNCHANGED flow
              ELSE /\ Drops(w)
                   /\ flow' = IF worker[w].live
                              THEN [flow EXCEPT ![worker[w].run] =
                                                  Retry(worker[w].run)]
                              ELSE flow
<1>1. worker[w] \in Worker
  BY DEF TypeOK
<1> QED BY <1>1, FinishEffect, GotoEffect DEF Raise, Keeps

LEMMA SeenEffect ==
    ASSUME TypeOK, Refers, NEW w \in Workers, worker[w].step # "idle",
           NEW step, Goto(w, Seen(w), step)
    PROVE  Keeps(w, step) /\ Reads(w)
<1>1. worker[w] \in Worker
  BY DEF TypeOK
<1>2. /\ worker[w].run \in Runs
      /\ owner[worker[w].run] \in Apps
  BY Executing
<1>3. Seen(w) \in Worker
  BY <1>2, SeenType
<1>4. /\ Seen(w).task = worker[w].task /\ Seen(w).run = worker[w].run
      /\ Seen(w).live = worker[w].live
      /\ Seen(w).st = run[worker[w].run]
      /\ Seen(w).app = app[owner[worker[w].run]]
  BY <1>1, <1>2, ConstantsAssumption DEF Seen, Worker
<1> QED BY <1>3, <1>4, GotoEffect DEF Keeps, Reads

LEMMA MarkCommitEffect ==
    ASSUME TypeOK, NEW w \in Workers, MarkCommit(w), ~Raise(w)
    PROVE  /\ worker[w].step = "marking"
           /\ worker[w].st = "running" \/ HasRow(worker[w].run)
           /\ Keeps(w, "build")
           /\ worker'[w].st = "running" /\ worker'[w].app = worker[w].app
           /\ run' = [run EXCEPT ![worker[w].run] =
                                   Write(@, worker[w].st, "running")]
           /\ UNCHANGED <<app, complete, owner, mode, snapshot, results, req,
                          background, flow>>
<1> DEFINE record == [worker[w] EXCEPT !.st = "running"]
<1>1. record \in Worker /\ worker[w] \in Worker
  BY RecordType DEF TypeOK
<1>2. /\ record.task = worker[w].task /\ record.run = worker[w].run
      /\ record.live = worker[w].live /\ record.st = "running"
      /\ record.app = worker[w].app
  BY <1>1 DEF Worker
<1>3. Goto(w, record, "build")
  BY DEF MarkCommit
<1>4. Keeps(w, "build")
      /\ worker'[w].st = "running" /\ worker'[w].app = worker[w].app
  <2> HIDE DEF record
  <2> QED BY <1>1, <1>2, <1>3, GotoEffect DEF Keeps
<1> QED BY <1>4 DEF MarkCommit

LEMMA BuildEffect ==
    ASSUME TypeOK, NEW w \in Workers, Build(w), ~Raise(w)
    PROVE  /\ worker[w].step = "build"
           /\ UNCHANGED <<db, req, background, flow>>
           /\ IF worker[w].task = "sync" THEN Keeps(w, "replace") /\ Holds(w)
                                         ELSE Keeps(w, "ack")
<1>1. worker[w] \in Worker /\ \A b \in BOOLEAN :
                                [worker[w] EXCEPT !.rows = b] \in Worker
  BY RecordType DEF TypeOK
<1>2. CASE worker[w].task = "sync"
  <2>1. PICK rows \in BOOLEAN :
           Goto(w, [worker[w] EXCEPT !.rows = rows], "replace")
    BY <1>2 DEF Build
  <2> DEFINE record == [worker[w] EXCEPT !.rows = rows]
  <2>2. /\ record.task = worker[w].task /\ record.run = worker[w].run
        /\ record.live = worker[w].live /\ record.st = worker[w].st
        /\ record.app = worker[w].app /\ record \in Worker
    BY <1>1 DEF Worker
  <2>3. Goto(w, record, "replace")
    BY <2>1
  <2>4. Keeps(w, "replace") /\ Holds(w)
    <3> HIDE DEF record
    <3> QED BY <2>2, <2>3, GotoEffect DEF Keeps, Holds
  <2> QED BY <1>2, <2>4 DEF Build
<1>3. CASE worker[w].task # "sync"
  BY <1>3, ReturnEffect DEF Build, Returns
<1> QED BY <1>2, <1>3

LEMMA ReplaceEffect ==
    ASSUME TypeOK, NEW w \in Workers, worker[w].run \in Runs, Replace(w),
           ~Raise(w)
    PROVE  /\ worker[w].step = "replace"
           /\ Keeps(w, "commit") /\ Holds(w)
           /\ worker'[w].old = results[worker[w].run]
           /\ UNCHANGED <<db, req, background, flow>>
<1> DEFINE record == [worker[w] EXCEPT !.old = results[worker[w].run]]
<1>1. record \in Worker /\ worker[w] \in Worker
  BY RecordType DEF TypeOK
<1>2. /\ record.task = worker[w].task /\ record.run = worker[w].run
      /\ record.live = worker[w].live /\ record.st = worker[w].st
      /\ record.app = worker[w].app /\ record.old = results[worker[w].run]
  BY <1>1 DEF Worker
<1>3. Goto(w, record, "commit")
  BY DEF Replace
<1>4. /\ Keeps(w, "commit") /\ Holds(w)
      /\ worker'[w].old = results[worker[w].run]
  <2> HIDE DEF record
  <2> QED BY <1>1, <1>2, <1>3, GotoEffect DEF Keeps, Holds
<1> QED BY <1>4 DEF Replace

LEMMA CommitEffect ==
    ASSUME TypeOK, NEW w \in Workers, Commit(w), ~Raise(w)
    PROVE  LET r == worker[w].run IN
           /\ worker[w].step = "commit" /\ HasRow(r) /\ Returns(w)
           /\ results' = [results EXCEPT ![r] =
                            (@ \ worker[w].old) \cup Inserted(w)]
           /\ run' = [run EXCEPT ![r] = Write(@, worker[w].st, "completed")]
           /\ app' = [app EXCEPT ![owner[r]] =
                            Write(@, worker[w].app, "completed")]
           /\ UNCHANGED <<owner, mode, req, background, flow>>
BY ReturnEffect DEF Commit

LEMMA FailCommitEffect ==
    ASSUME TypeOK, NEW w \in Workers, FailCommit(w)
    PROVE  LET r == worker[w].run IN
           /\ worker[w].step = "failing" /\ Returns(w)
           /\ IF HasRow(r)
              THEN /\ run' = [run EXCEPT ![r] = Write(@, worker[w].st, "failed")]
                   /\ app' = [app EXCEPT ![owner[r]] =
                                    Write(@, worker[w].app, "submitted")]
              ELSE UNCHANGED <<app, run>>
           /\ UNCHANGED <<owner, mode, results, req, background, flow>>
BY ReturnEffect DEF FailCommit

\* The reads: of mark_running, of complete_run in a fresh session, of fail_run.
LEMMA ReadEffect ==
    ASSUME TypeOK, Refers, NEW w \in Workers,
           MarkRead(w) \/ ReadRun(w) \/ FailRead(w), ~Raise(w)
    PROVE  /\ UNCHANGED <<db, req, background, flow>>
           /\ \/ /\ worker[w].step = "mark" /\ Keeps(w, "marking")
                 /\ HasRow(worker[w].run) /\ Reads(w)
              \/ /\ worker[w].step = "read" /\ Keeps(w, "replace")
                 /\ HasRow(worker[w].run) /\ Reads(w)
              \/ /\ worker[w].step = "fail" /\ Keeps(w, "failing")
                 /\ HasRow(worker[w].run) /\ Reads(w)
              \/ /\ worker[w].step = "fail" /\ Returns(w)
                 /\ ~HasRow(worker[w].run)
BY SeenEffect, ReturnEffect DEF MarkRead, ReadRun, FailRead

\* What a step of w's task moves: it goes on, it is over and nobody waits for
\* it, or it is over and Hatchet moves the workflow.
Moves(w) ==
    LET r == worker[w].run IN
    /\ worker[w].step # "idle" /\ r \in Runs
    /\ UNCHANGED <<mode, req, background>>
    /\ \/ /\ UNCHANGED flow
          /\ \E step \in Steps \ {"idle"} : /\ Keeps(w, step)
                                            /\ Fits(worker[w].task, step)
       \/ /\ UNCHANGED flow
          /\ Drops(w)
          /\ worker[w].task = "sync" \/ ~worker[w].live
       \/ /\ Drops(w)
          /\ worker[w].task \in Attempted /\ worker[w].live
          /\ \/ flow' = [flow EXCEPT ![r] = Advance(r)]
             \/ flow' = [flow EXCEPT ![r] = Retry(r)]

LEMMA TaskKind ==
    ASSUME TypeOK, StepsFit, NEW w \in Workers, worker[w].step # "idle"
    PROVE  worker[w].task \in {"sync"} \cup Attempted
BY DEF TypeOK, Worker, StepsFit, Fits

LEMMA ReturnMoves ==
    ASSUME TypeOK, Refers, StepsFit, NEW w \in Workers, Returns(w),
           worker[w].step \in {"build", "commit", "fail", "failing"},
           worker[w].task = "prepare" => worker[w].step = "build",
           UNCHANGED <<mode, req, background, flow>>
    PROVE  Moves(w)
<1>1. worker[w].run \in Runs /\ worker[w].task \in {"sync"} \cup Attempted
  BY Executing, TaskKind
<1>2. worker[w].task # "sync" => Fits(worker[w].task, "ack")
  BY <1>1 DEF Fits, Attempted
<1> QED BY <1>1, <1>2 DEF Returns, Moves, Steps

LEMMA RaiseMoves ==
    ASSUME TypeOK, Refers, StepsFit, NEW w \in Workers, Raise(w),
           worker[w].step # "idle"
    PROVE  Moves(w)
<1>1. worker[w].run \in Runs /\ worker[w].task \in {"sync"} \cup Attempted
  BY Executing, TaskKind
<1>2. CASE worker[w].task = "sync"
  BY <1>1, <1>2, RaiseEffect DEF Moves, db, Fits, Steps
<1>3. CASE worker[w].task \in Attempted
  BY <1>1, <1>3, RaiseEffect DEF Moves, db, Attempted
<1> QED BY <1>1, <1>2, <1>3

LEMMA TaskMoves ==
    ASSUME TypeOK, Refers, StepsFit, NEW w \in Workers,
           \/ TaskStep(w) \/ TaskError(w) \/ FailureUnrecorded(w)
           \/ AcknowledgementLost(w)
    PROVE  Moves(w)
<1>1. /\ worker[w].step # "idle" /\ worker[w].run \in Runs
      /\ worker[w].task \in {"sync"} \cup Attempted
      /\ Fits(worker[w].task, worker[w].step)
  <2>1. worker[w].step # "idle"
    BY DEF TaskStep, TaskError, FailureUnrecorded, AcknowledgementLost,
         MarkRead, MarkCommit, Build, ReadRun, Replace, Commit, FailRead,
         FailCommit, Acknowledge
  <2> QED BY <2>1, Executing, TaskKind DEF StepsFit
<1>2. CASE Raise(w)
  BY <1>1, <1>2, RaiseMoves
<1>3. CASE MarkRead(w) \/ ReadRun(w) \/ FailRead(w)
  <2>1. SUFFICES ASSUME ~Raise(w) PROVE Moves(w)
    BY <1>2
  <2>2. CASE Returns(w) /\ worker[w].step = "fail"
    BY <1>1, <1>3, <2>1, <2>2, ReadEffect, ReturnMoves DEF db, Fits
  <2>3. CASE ~(Returns(w) /\ worker[w].step = "fail")
    <3>1. /\ UNCHANGED <<mode, req, background, flow>>
          /\ \/ worker[w].step = "mark" /\ Keeps(w, "marking")
             \/ worker[w].step = "read" /\ Keeps(w, "replace")
             \/ worker[w].step = "fail" /\ Keeps(w, "failing")
      BY <1>3, <2>1, <2>3, ReadEffect DEF db
    <3> QED BY <1>1, <3>1 DEF Moves, Fits, Steps, Attempted
  <2> QED BY <2>2, <2>3
<1>4. CASE MarkCommit(w) /\ ~Raise(w)
  BY <1>1, <1>4, MarkCommitEffect DEF Moves, Fits, Steps, Attempted
<1>5. CASE Build(w) /\ ~Raise(w)
  BY <1>1, <1>5, BuildEffect DEF Moves, db, Fits, Steps, Attempted
<1>6. CASE Replace(w) /\ ~Raise(w)
  BY <1>1, <1>6, ReplaceEffect DEF Moves, db, Fits, Steps, Attempted
<1>7. CASE Commit(w) /\ ~Raise(w)
  BY <1>1, <1>7, CommitEffect, ReturnMoves DEF Fits
<1>8. CASE FailCommit(w)
  BY <1>1, <1>8, FailCommitEffect, ReturnMoves DEF Fits
<1>9. CASE Acknowledge(w)
  BY <1>1, <1>9, FinishEffect DEF Acknowledge, Moves, db, Fits
<1>10. CASE FailureUnrecorded(w)
  BY <1>1, <1>10, FinishEffect DEF FailureUnrecorded, Moves, db, Fits, Attempted
<1>11. CASE AcknowledgementLost(w)
  BY <1>1, <1>11, FinishEffect DEF AcknowledgementLost, Moves, db, Fits
<1> QED BY <1>2, <1>3, <1>4, <1>5, <1>6, <1>7, <1>8, <1>9, <1>10, <1>11
        DEF TaskStep, TaskError

-----------------------------------------------------------------------------
(* Every step, by what it moves: requests, scheduled tasks, workflows,     *)
(* workers.                                                                *)

\* Session s is about to hand run r to an executor.
Requesting(s, r) == req[s].op \in {"dispatch", "reply"} /\ req[s].run = r

\* The commit that records a dispatch fails, or the response does.
Forgets == "unrecorded" \in Faults \/ "unanswered" \in Faults

\* Requests come and go without a run, and runs only with their application.
Rests ==
    /\ UNCHANGED <<mode, owner, background, flow, worker>>
    /\ \A s \in Sessions : req'[s].op \in {"dispatch", "reply"} => req'[s] = req[s]
    /\ \A s \in Sessions : req[s].op \in {"dispatch", "reply"} =>
          req'[s] = req[s] \/ ~HasRow(req[s].run) \/ Forgets
    /\ \A r \in Runs : \/ run'[r] = run[r] /\ results'[r] = results[r]
                       \/ run[r] # "none" /\ run'[r] = "gone" /\ results'[r] = {}

FallsBack(s) ==
    /\ req[s].op = "dispatch" /\ req[s].run \in Runs
    /\ UNCHANGED <<app, run, owner, results, background, flow, worker>>
    /\ mode' = [mode EXCEPT ![req[s].run] = "sync"]
    /\ req' = [req EXCEPT ![s].op = "reply"]

Dispatches(s) ==
    /\ req[s].op = "dispatch" /\ req[s].run \in Runs
    /\ UNCHANGED <<db, background, worker>>
    /\ Enqueue(req[s].run)
    /\ Answer(s)

Schedules(s) ==
    /\ req[s].op = "reply" /\ req[s].run \in Runs
    /\ UNCHANGED <<db, flow, worker>>
    /\ background' = background \cup {req[s].run}
    /\ Answer(s)

Evaluates(r) ==
    /\ flow[r].stage = "evaluate"
    /\ UNCHANGED <<db, req, background, worker>>
    /\ \A q \in Runs \ {r} : flow'[q] = flow[q]
    /\ flow'[r].stage \in {"persist", "onfail"}

LEMMA AnswerRests ==
    ASSUME TypeOK, NEW s \in Sessions, Answer(s),
           req[s].op \in {"dispatch", "reply"} => ~HasRow(req[s].run) \/ Forgets
    PROVE  /\ \A t \in Sessions :
                req'[t].op \in {"dispatch", "reply"} => req'[t] = req[t]
           /\ \A t \in Sessions : req[t].op \in {"dispatch", "reply"} =>
                req'[t] = req[t] \/ ~HasRow(req[t].run) \/ Forgets
BY DEF Answer, IdleRequest, TypeOK

LEMMA HandlerMoves ==
    ASSUME TypeOK, Refers, NEW s \in Sessions, Handler(s) \/ Mishap(s)
    PROVE  \/ Rests \/ CommitStart(s) \/ FallsBack(s) \/ Dispatches(s)
           \/ Schedules(s) \/ DispatchAmbiguous(s)
<1>1. req[s].op \in {"dispatch", "reply"} => req[s].run \in Runs
  BY DEF Refers, RequestsRefer
<1>2. CASE /\ Answer(s)
           /\ UNCHANGED <<mode, run, owner, results, background, flow, worker>>
           /\ req[s].op \in {"dispatch", "reply"} =>
                 ~HasRow(req[s].run) \/ Forgets
  BY <1>2, AnswerRests DEF Rests
<1>3. CASE AnswerStale(s) \/ CommitUpdate(s) \/ CommitSubmit(s)
           \/ AnswerConflict(s) \/ ReplyFails(s)
  BY <1>2, <1>3 DEF AnswerStale, CommitUpdate, CommitSubmit, AnswerConflict,
       ReplyFails, Inject, Forgets, db
<1>4. CASE CommitDelete(s)
  <2>1. req[s].app \in Apps
    BY <1>4 DEF CommitDelete, Refers, RequestsRefer
  <2>2. \A r \in Runs : owner[r] = req[s].app => run[r] # "none"
    BY <2>1, ConstantsAssumption DEF Refers, RunsRefer
  <2> QED BY <1>4, <2>2, AnswerRests DEF CommitDelete, Rests
<1>5. CASE DispatchAccepted(s)
  BY <1>1, <1>5 DEF DispatchAccepted, Dispatches
<1>6. CASE Reply(s)
  <2>1. CASE HasRow(req[s].run)
    BY <1>1, <1>6, <2>1 DEF Reply, Schedules
  <2>2. CASE ~HasRow(req[s].run)
    BY <1>2, <1>6, <2>2 DEF Reply, db
  <2> QED BY <2>1, <2>2
<1>7. CASE DispatchUnreachable(s)
  <2>1. CASE HasRow(req[s].run)
    BY <1>1, <1>7, <2>1 DEF DispatchUnreachable, FallBack, FallsBack
  <2>2. CASE ~HasRow(req[s].run)
    BY <1>2, <1>7, <2>2 DEF DispatchUnreachable, FallBack
  <2> QED BY <2>1, <2>2
<1>8. CASE DispatchUnrecorded(s)
  <2>1. CASE Enqueue(req[s].run)
    BY <1>1, <1>8, <2>1 DEF DispatchUnrecorded, Dispatches
  <2>2. CASE UNCHANGED flow
    BY <1>2, <1>8, <2>2 DEF DispatchUnrecorded, Inject, Forgets, db
  <2> QED BY <1>8, <2>1, <2>2 DEF DispatchUnrecorded
<1> QED BY <1>3, <1>4, <1>5, <1>6, <1>7, <1>8 DEF Handler, Mishap

LEMMA ClientMoves == ASSUME TypeOK, Client PROVE Rests
<1>1. CASE \E a \in Apps : CreateApplication(a)
  BY <1>1 DEF CreateApplication, Rests
<1>2. CASE \E source, a \in Apps : DuplicateApplication(source, a)
  BY <1>2 DEF DuplicateApplication, Rests
<1>3. ASSUME NEW s \in Sessions, NEW a \in Apps,
             NEW op \in {"update", "delete", "submit", "start"}, Load(s, op, a)
      PROVE  Rests
  <2>1. \A t \in Sessions :
          /\ req'[t].op \in {"dispatch", "reply"} => req'[t] = req[t]
          /\ req[t].op \in {"dispatch", "reply"} => req'[t] = req[t]
    BY <1>3 DEF Load, TypeOK
  <2> QED BY <1>3, <2>1 DEF Load, db, Rests
<1> QED BY <1>1, <1>2, <1>3 DEF Client

LEMMA EvaluateMoves ==
    ASSUME TypeOK, NEW r \in Runs, EvaluateLenders(r) \/ EvaluateLendersFails(r)
    PROVE  Evaluates(r)
<1>1. flow[r] \in Flow
  BY DEF TypeOK
<1>2. CASE EvaluateLenders(r)
  <2>1. PICK rows \in BOOLEAN :
          flow' = [flow EXCEPT ![r].stage = "persist", ![r].rows = rows]
    BY <1>2 DEF EvaluateLenders
  <2>2. flow' = [flow EXCEPT ![r] = [flow[r] EXCEPT !.stage = "persist",
                                                   !.rows = rows]]
    BY <2>1 DEF TypeOK
  <2>3. flow'[r].stage = "persist"
    BY <1>1, <2>2 DEF TypeOK, Flow
  <2> QED BY <1>2, <2>2, <2>3 DEF EvaluateLenders, Evaluates, TypeOK
<1>3. CASE EvaluateLendersFails(r)
  BY <1>1, <1>3 DEF EvaluateLendersFails, Evaluates, TypeOK, Flow
<1> QED BY <1>2, <1>3

\* The kinds of steps, with the fault that the restricted theorems exclude.
LEMMA EveryStepMoves ==
    ASSUME TypeOK, Refers, StepsFit, Next
    PROVE  \/ Rests
           \/ \E s \in Sessions : \/ CommitStart(s) \/ FallsBack(s)
                                  \/ Dispatches(s) \/ Schedules(s)
                                  \/ DispatchAmbiguous(s)
           \/ \E r \in Runs : Start(r) \/ Evaluates(r)
           \/ \E w \in Workers : \/ /\ Moves(w)
                                    /\ \/ TaskStep(w) \/ TaskError(w)
                                       \/ FailureUnrecorded(w)
                                       \/ AcknowledgementLost(w)
                                 \/ Overrun(w)
           \/ Crash
<1>1. CASE Client
  BY <1>1, ClientMoves
<1>2. CASE \E s \in Sessions : Handler(s) \/ Mishap(s)
  BY <1>2, HandlerMoves
<1>3. CASE \E r \in Runs : Start(r) \/ EvaluateLenders(r) \/ EvaluateLendersFails(r)
  BY <1>3, EvaluateMoves
<1>4. CASE \E w \in Workers : TaskStep(w)
  BY <1>4, TaskMoves
<1>5. CASE \E w \in Workers : \/ TaskError(w) \/ FailureUnrecorded(w)
                              \/ AcknowledgementLost(w) \/ Overrun(w)
  BY <1>5, TaskMoves
<1>6. CASE Crash
  BY <1>6
<1> QED BY <1>1, <1>2, <1>3, <1>4, <1>5, <1>6, StepCases

LEMMA BeginEffect ==
    ASSUME TypeOK, NEW w \in Workers, NEW task \in {"sync"} \cup Attempted, NEW r,
           Begin(w, task, r)
    PROVE  /\ OthersStay(w) /\ worker[w] = IdleWorker
           /\ worker'[w].task = task /\ worker'[w].run = r /\ worker'[w].live
           /\ worker'[w].step = FirstStep(task)
BY DEF Begin, OthersStay, TypeOK, IdleWorker

LEMMA OverrunEffect ==
    ASSUME TypeOK, NEW w \in Workers, Overrun(w)
    PROVE  /\ ~worker'[w].live
           /\ OthersStay(w)
           /\ worker'[w].task = worker[w].task /\ worker'[w].run = worker[w].run
           /\ worker'[w].step = worker[w].step
           /\ UNCHANGED <<db, req, background>>
           /\ flow' = [flow EXCEPT ![worker[w].run] = Retry(worker[w].run)]
BY DEF Overrun, OthersStay, TypeOK, Worker

-----------------------------------------------------------------------------
LEMMA StepStepsFit ==
    ASSUME TypeOK, Refers, StepsFit, [Next]_vars PROVE StepsFit'
<1>1. CASE worker' = worker
  BY <1>1 DEF StepsFit
<1>2. Fits("idle", "idle") /\ \A task \in {"sync"} \cup Attempted :
                                 Fits(task, FirstStep(task))
  BY DEF Fits, FirstStep, Attempted
<1>3. ASSUME NEW w \in Workers, OthersStay(w),
             Fits(worker'[w].task, worker'[w].step)
      PROVE  StepsFit'
  BY <1>3 DEF OthersStay, StepsFit
<1>4. ASSUME NEW r \in Runs, Start(r) PROVE StepsFit'
  <2>1. PICK w \in Workers, task \in {"sync"} \cup Attempted : Begin(w, task, r)
    BY <1>4 DEF Start, BeginSync, BeginAttempt
  <2> QED BY <1>2, <1>3, <2>1, BeginEffect
<1>5. ASSUME NEW w \in Workers, Moves(w) PROVE StepsFit'
  BY <1>2, <1>3, <1>5 DEF Moves, Keeps, Drops, IdleWorker
<1>6. ASSUME NEW w \in Workers, Overrun(w) PROVE StepsFit'
  BY <1>3, <1>6, OverrunEffect DEF StepsFit
<1>7. CASE Crash
  <2>1. \A v \in Workers : worker'[v] \in {worker[v], IdleWorker}
    BY <1>7 DEF Crash
  <2> QED BY <1>2, <2>1 DEF StepsFit, IdleWorker
<1>8. CASE Next
  <2>1. ASSUME NEW s \in Sessions,
               \/ CommitStart(s) \/ FallsBack(s) \/ Dispatches(s)
               \/ Schedules(s) \/ DispatchAmbiguous(s)
        PROVE  worker' = worker
    BY <2>1 DEF CommitStart, FallsBack, Dispatches, Schedules,
         DispatchAmbiguous, FallBack
  <2> QED BY <1>1, <1>4, <1>5, <1>6, <1>7, <1>8, <2>1, EveryStepMoves
          DEF Rests, Evaluates
<1> QED BY <1>1, <1>8 DEF vars

LEMMA InitStepsFit == ASSUME Init PROVE StepsFit
BY DEF Init, StepsFit, IdleWorker, Fits

-----------------------------------------------------------------------------
(* The recorded mode.                                                      *)

NoAmbiguity == "ambiguous" \notin Faults

\* A dispatch is the first anyone does with a run, and only one session does it.
DispatchComesFirst ==
    /\ \A s, t \in Sessions, r \in Runs :
          Requesting(s, r) /\ Requesting(t, r) => s = t
    /\ \A s \in Sessions, r \in Runs :
          req[s].op = "dispatch" /\ req[s].run = r =>
              flow[r].stage = "none" /\ mode[r] = "hatchet"
    /\ \A w \in Workers :
          worker[w].task \in Attempted => flow[worker[w].run].stage # "none"

LEMMA StagesMove ==
    ASSUME TypeOK, NEW r \in Runs,
           \/ flow' = [flow EXCEPT ![r] = Advance(r)]
           \/ flow' = [flow EXCEPT ![r] = Retry(r)]
    PROVE  /\ \A q \in Runs \ {r} : flow'[q] = flow[q]
           /\ flow'[r].stage \in {flow[r].stage, "onfail", "evaluate",
                                  "succeeded", "failed"}
<1>1. flow[r] \in Flow
  BY DEF TypeOK
<1>2. CASE flow' = [flow EXCEPT ![r] = Advance(r)]
  <2>1. Advance(r).stage \in {"evaluate", "succeeded", "failed"}
    BY <1>1 DEF Advance, Flow
  <2> QED BY <1>2, <2>1 DEF TypeOK
<1>3. CASE flow' = [flow EXCEPT ![r] = Retry(r)]
  <2>1. Retry(r).stage \in {flow[r].stage, "onfail", "failed"}
    BY <1>1 DEF Retry, Flow
  <2> QED BY <1>3, <2>1 DEF TypeOK
<1> QED BY <1>2, <1>3

\* Worker w executes run r.
On(w, r) == worker[w].task # "idle" /\ worker[w].run = r

\* Nobody knows a run that was not inserted yet.
LEMMA FreshRun ==
    ASSUME TypeOK, Refers, NEW r \in Runs, run[r] = "none"
    PROVE  /\ flow[r].stage = "none" /\ r \notin background
           /\ \A s \in Sessions : ~Requesting(s, r)
           /\ \A w \in Workers : ~On(w, r)
BY DEF Refers, RequestsRefer, DriversRefer, Requesting, On

LEMMA StartEffect ==
    ASSUME TypeOK, Refers, NEW s \in Sessions, CommitStart(s)
    PROVE  \E r \in Runs :
             /\ run[r] = "none" /\ run' = [run EXCEPT ![r] = "queued"]
             /\ mode' = [mode EXCEPT ![r] = IF UseHatchet THEN "hatchet"
                                                          ELSE "sync"]
             /\ req'[s].run = r
             /\ req'[s].op = IF UseHatchet THEN "dispatch" ELSE "reply"
             /\ \A t \in Sessions \ {s} : req'[t] = req[t]
             /\ UNCHANGED <<results, background, flow, worker>>
<1>1. PICK r \in Runs :
        /\ InsertRun(req[s].app, r)
        /\ req' = [req EXCEPT ![s].run = r,
                             ![s].op = IF UseHatchet THEN "dispatch"
                                                     ELSE "reply"]
  BY DEF CommitStart
<1> DEFINE op == IF UseHatchet THEN "dispatch" ELSE "reply"
<1>2. req' = [req EXCEPT ![s] = [req[s] EXCEPT !.run = r, !.op = op]]
  BY <1>1 DEF TypeOK
<1>3. req[s] \in Request
  BY DEF TypeOK
<1>4. /\ req'[s].run = r /\ req'[s].op = op
      /\ \A t \in Sessions \ {s} : req'[t] = req[t]
  BY <1>2, <1>3 DEF TypeOK, Request
<1> QED BY <1>1, <1>4 DEF InsertRun, CommitStart

LEMMA StepMode ==
    ASSUME TypeOK, Refers, StepsFit, NoAmbiguity, DispatchComesFirst,
           ModeTellsDriver, Next
    PROVE  (DispatchComesFirst /\ ModeTellsDriver)'
<1> USE DEF DispatchComesFirst, ModeTellsDriver
<1>0. \A w \in Workers : worker[w].task \in Attempted => worker[w].run \in Runs
  BY DEF Refers, DriversRefer, Attempted
<1>1. CASE Rests
  <2>1. \A s \in Sessions, r \in Runs :
          /\ Requesting(s, r)' => Requesting(s, r)
          /\ req'[s].op = "dispatch" => req'[s] = req[s]
    BY <1>1 DEF Rests, Requesting
  <2> QED BY <1>1, <2>1 DEF Rests
<1>2. ASSUME NEW s \in Sessions, CommitStart(s)
      PROVE  (DispatchComesFirst /\ ModeTellsDriver)'
  <2>1. PICK r \in Runs :
          /\ run[r] = "none"
          /\ mode' = [mode EXCEPT ![r] = IF UseHatchet THEN "hatchet" ELSE "sync"]
          /\ req'[s].run = r
          /\ req'[s].op = IF UseHatchet THEN "dispatch" ELSE "reply"
          /\ \A t \in Sessions \ {s} : req'[t] = req[t]
          /\ UNCHANGED <<background, flow, worker>>
    BY <1>2, StartEffect
  <2>2. /\ flow[r].stage = "none" /\ \A t \in Sessions : ~Requesting(t, r)
        /\ \A w \in Workers : ~On(w, r)
    BY <2>1, FreshRun
  <2>3. \A t \in Sessions, q \in Runs :
          Requesting(t, q)' => IF t = s THEN q = r ELSE Requesting(t, q)
    BY <2>1 DEF Requesting
  <2>4. DispatchComesFirst'
    BY <2>1, <2>2, <2>3 DEF TypeOK, Requesting, On
  <2> QED BY <2>1, <2>2, <2>4 DEF TypeOK
<1>3. ASSUME NEW s \in Sessions, FallsBack(s)
      PROVE  (DispatchComesFirst /\ ModeTellsDriver)'
  <2> DEFINE r == req[s].run
  <2>1. r \in Runs /\ flow[r].stage = "none" /\ Requesting(s, r)
    BY <1>3 DEF FallsBack, Requesting
  <2>2. /\ req'[s].op = "reply" /\ req'[s].run = r
        /\ \A t \in Sessions \ {s} : req'[t] = req[t]
    BY <1>3 DEF FallsBack, TypeOK, Request
  <2>3. \A t \in Sessions, q \in Runs : Requesting(t, q)' => Requesting(t, q)
    BY <1>3, <2>2 DEF FallsBack, Requesting
  <2>4. /\ UNCHANGED <<flow, worker>> /\ mode'[r] = "sync"
        /\ \A q \in Runs \ {r} : mode'[q] = mode[q]
    BY <1>3, <2>1 DEF FallsBack, TypeOK
  <2> HIDE DEF r
  <2>5. ASSUME NEW t \in Sessions, NEW q \in Runs,
               req'[t].op = "dispatch", req'[t].run = q
        PROVE  q # r /\ req[t].op = "dispatch" /\ req[t].run = q
    <3>1. t # s /\ req'[t] = req[t]
      BY <2>2, <2>5
    <3> QED BY <2>1, <2>5, <3>1 DEF Requesting
  <2> QED BY <2>1, <2>3, <2>4, <2>5
<1>4. ASSUME NEW s \in Sessions, Dispatches(s)
      PROVE  (DispatchComesFirst /\ ModeTellsDriver)'
  <2> DEFINE r == req[s].run
  <2>1. r \in Runs /\ mode[r] = "hatchet" /\ Requesting(s, r)
    BY <1>4 DEF Dispatches, Requesting
  <2>2. /\ UNCHANGED <<mode, worker>> /\ flow'[r].stage = "prepare"
        /\ \A q \in Runs \ {r} : flow'[q] = flow[q]
    BY <1>4, <2>1 DEF Dispatches, db, Enqueue, TypeOK, Flow
  <2>3. \A t \in Sessions, q \in Runs :
          Requesting(t, q)' => t # s /\ Requesting(t, q) /\ req'[t] = req[t]
    BY <1>4 DEF Dispatches, Answer, Requesting, IdleRequest, TypeOK
  <2> HIDE DEF r
  <2>4. ASSUME NEW t \in Sessions, NEW q \in Runs,
               req'[t].op = "dispatch", req'[t].run = q
        PROVE  q # r /\ req[t].op = "dispatch" /\ req[t].run = q
    <3>1. t # s /\ Requesting(t, q) /\ req'[t] = req[t]
      BY <2>3, <2>4 DEF Requesting
    <3> QED BY <2>1, <2>4, <3>1
  <2>5. \A q \in Runs : flow'[q].stage = "none" => q # r /\ flow[q].stage = "none"
    BY <2>1, <2>2
  <2>6. \A q \in Runs : q # r => flow'[q].stage = flow[q].stage
    BY <2>2
  <2> QED BY <1>0, <2>1, <2>2, <2>3, <2>4, <2>5, <2>6
<1>5. ASSUME NEW s \in Sessions, Schedules(s)
      PROVE  (DispatchComesFirst /\ ModeTellsDriver)'
  <2>1. \A t \in Sessions, q \in Runs :
          /\ Requesting(t, q)' => Requesting(t, q)
          /\ req'[t].op = "dispatch" => req'[t] = req[t]
    BY <1>5 DEF Schedules, Answer, Requesting, IdleRequest, TypeOK
  <2> QED BY <1>5, <2>1 DEF Schedules, db
<1>6. ASSUME NEW r \in Runs, Start(r)
      PROVE  (DispatchComesFirst /\ ModeTellsDriver)'
  <2>1. PICK w \in Workers, task \in {"sync"} \cup Attempted :
           /\ Begin(w, task, r) /\ UNCHANGED <<db, req, flow>>
           /\ task \in Attempted => flow[r].stage # "none"
    BY <1>6 DEF Start, BeginSync, BeginAttempt, Attempted
  <2>2. /\ \A v \in Workers \ {w} : worker'[v] = worker[v]
        /\ worker'[w].task = task /\ worker'[w].run = r
    BY <2>1, BeginEffect DEF OthersStay
  <2> QED BY <2>1, <2>2 DEF db, Requesting
<1>7. ASSUME NEW r \in Runs, Evaluates(r)
      PROVE  (DispatchComesFirst /\ ModeTellsDriver)'
  <2>1. /\ UNCHANGED <<mode, req, worker>>
        /\ \A q \in Runs : flow'[q].stage = "none" <=> flow[q].stage = "none"
    BY <1>7 DEF Evaluates, db
  <2> QED BY <1>0, <2>1 DEF Requesting
<1>8. ASSUME NEW w \in Workers,
             Moves(w) \/ Overrun(w)
      PROVE  (DispatchComesFirst /\ ModeTellsDriver)'
  <2>1. UNCHANGED <<mode, req>>
    BY <1>8, OverrunEffect DEF Moves, db
  <2>2. \A v \in Workers : worker'[v].task \in Attempted =>
          worker'[v].task = worker[v].task /\ worker'[v].run = worker[v].run
    BY <1>8, OverrunEffect DEF Moves, Keeps, Drops, OthersStay, IdleWorker,
         Attempted
  <2>3. \A r \in Runs : flow'[r].stage = "none" <=> flow[r].stage = "none"
    <3>1. CASE UNCHANGED flow
      BY <3>1
    <3>2. CASE ~UNCHANGED flow
      <4> DEFINE r == worker[w].run
      <4>1. /\ r \in Runs /\ worker[w].task \in Attempted
            /\ \/ flow' = [flow EXCEPT ![r] = Advance(r)]
               \/ flow' = [flow EXCEPT ![r] = Retry(r)]
        <5>1. CASE Moves(w)
          BY <3>2, <5>1 DEF Moves
        <5>2. CASE Overrun(w)
          BY <5>2 DEF Overrun, Refers, DriversRefer, Attempted
        <5> QED BY <1>8, <5>1, <5>2
      <4>2. flow[r].stage # "none"
        BY <4>1
      <4>3. /\ \A q \in Runs \ {r} : flow'[q] = flow[q]
            /\ flow'[r].stage # "none"
        BY <4>1, <4>2, StagesMove
      <4> QED BY <4>1, <4>2, <4>3
    <3> QED BY <3>1, <3>2
  <2> QED BY <1>0, <2>1, <2>2, <2>3 DEF Requesting
<1>9. CASE Crash
  <2>1. \A s \in Sessions : req'[s].op = "idle"
    BY <1>9 DEF Crash, IdleRequest
  <2>2. \A v \in Workers : worker'[v] \in {worker[v], IdleWorker}
    BY <1>9 DEF Crash
  <2>3. UNCHANGED <<mode, flow>>
    BY <1>9 DEF Crash, db
  <2> QED BY <2>1, <2>2, <2>3 DEF Requesting, IdleWorker, Attempted
<1>10. ASSUME NEW s \in Sessions, DispatchAmbiguous(s) PROVE FALSE
  BY <1>10 DEF DispatchAmbiguous, Inject, NoAmbiguity
<1> QED BY <1>1, <1>2, <1>3, <1>4, <1>5, <1>6, <1>7, <1>8, <1>9, <1>10,
          EveryStepMoves

LEMMA InitMode == ASSUME Init PROVE DispatchComesFirst /\ ModeTellsDriver
BY DEF Init, DispatchComesFirst, ModeTellsDriver, Requesting, IdleRequest,
       IdleWorker, Attempted

LEMMA StepsFitHolds == Spec => []StepsFit
<1>1. Init => TypeOK /\ Refers /\ StepsFit
  BY InitTyped, InitStepsFit
<1>2. TypeOK /\ Refers /\ StepsFit /\ [Next]_vars =>
        (TypeOK /\ Refers /\ StepsFit)'
  BY StepTyped, StepStepsFit
<1> QED BY <1>1, <1>2, PTL DEF Spec

\* Unless Hatchet accepts a dispatch that the caller saw fail, no workflow ever
\* works on a run whose recorded mode is the in-process one.
THEOREM ModeTellsDriverHolds == ASSUME NoAmbiguity PROVE Spec => []ModeTellsDriver
<1> DEFINE IInv == TypeOK /\ Refers /\ StepsFit /\ DispatchComesFirst
                   /\ ModeTellsDriver
<1>1. Init => IInv
  BY InitTyped, InitStepsFit, InitMode
<1>2. IInv /\ [Next]_vars => IInv'
  <2>1. SUFFICES ASSUME IInv, [Next]_vars
                 PROVE  (DispatchComesFirst /\ ModeTellsDriver)'
    BY StepTyped, StepStepsFit
  <2>2. CASE UNCHANGED vars
    BY <2>1, <2>2 DEF vars, DispatchComesFirst, ModeTellsDriver, Requesting
  <2> QED BY <2>1, <2>2, StepMode
<1>3. IInv => ModeTellsDriver
  OBVIOUS
<1> QED BY <1>1, <1>2, <1>3, PTL DEF Spec

-----------------------------------------------------------------------------
(* One executor per run.                                                   *)

\* Hatchet gives no attempt up that still runs, and a refused dispatch is one.
OneAttempt == NoAmbiguity /\ "overrun" \notin Faults

\* Nobody executes r.
Free(r) == flow[r].stage = "none" /\ \A w \in Workers : ~On(w, r)

\* The run is with one request, or scheduled, or with one worker in the API
\* process, or in its workflow with one attempt at most.
Exclusive ==
    /\ \A s, t \in Sessions, r \in Runs :
          Requesting(s, r) /\ Requesting(t, r) => s = t
    /\ \A v, w \in Workers, r \in Runs : On(v, r) /\ On(w, r) => v = w
    /\ \A s \in Sessions, r \in Runs :
          Requesting(s, r) => Free(r) /\ r \notin background
    /\ \A r \in background : Free(r)
    /\ \A w \in Workers, r \in Runs : On(w, r) =>
          IF worker[w].task = "sync"
          THEN flow[r].stage = "none"
          ELSE worker[w].live /\ flow[r].stage = worker[w].task

LEMMA InitExclusive == ASSUME Init PROVE Exclusive
BY DEF Init, Exclusive, Requesting, On, IdleRequest, IdleWorker

\* The run moves from one executor to the next.
LEMMA Handover ==
    ASSUME Exclusive, NEW r \in Runs,
           \A q \in Runs \ {r} :
              /\ flow'[q] = flow[q]
              /\ q \in background' => q \in background
              /\ \A s \in Sessions : Requesting(s, q)' => Requesting(s, q)
              /\ \A w \in Workers : On(w, q)' => /\ On(w, q)
                                                 /\ worker'[w].task = worker[w].task
                                                 /\ worker'[w].live = worker[w].live,
           \A s, t \in Sessions : Requesting(s, r)' /\ Requesting(t, r)' => s = t,
           \A v, w \in Workers : On(v, r)' /\ On(w, r)' => v = w,
           \A s \in Sessions : Requesting(s, r)' => Free(r)' /\ r \notin background',
           r \in background' => Free(r)',
           \A w \in Workers : On(w, r)' =>
              IF worker'[w].task = "sync"
              THEN flow'[r].stage = "none"
              ELSE worker'[w].live /\ flow'[r].stage = worker'[w].task,
           background' \subseteq Runs
    PROVE  Exclusive'
<1>1. \A q \in Runs \ {r} : Free(q) => Free(q)'
  BY DEF Free
<1>2. (\A s, t \in Sessions, q \in Runs :
         Requesting(s, q) /\ Requesting(t, q) => s = t)'
  BY DEF Exclusive
<1>3. (\A v, w \in Workers, q \in Runs : On(v, q) /\ On(w, q) => v = w)'
  BY DEF Exclusive
<1>4. (\A s \in Sessions, q \in Runs :
         Requesting(s, q) => Free(q) /\ q \notin background)'
  BY <1>1 DEF Exclusive
<1>5. (\A q \in background : Free(q))'
  BY <1>1 DEF Exclusive
<1>6. (\A w \in Workers, q \in Runs : On(w, q) =>
          IF worker[w].task = "sync"
          THEN flow[q].stage = "none"
          ELSE worker[w].live /\ flow[q].stage = worker[w].task)'
  BY DEF Exclusive
<1> QED BY <1>2, <1>3, <1>4, <1>5, <1>6 DEF Exclusive

LEMMA RequestExclusive ==
    ASSUME TypeOK, Refers, Exclusive, NEW s \in Sessions,
           CommitStart(s) \/ FallsBack(s) \/ Dispatches(s) \/ Schedules(s)
    PROVE  Exclusive'
<1>1. CASE CommitStart(s)
  <2>1. PICK r \in Runs :
          /\ run[r] = "none" /\ req'[s].run = r
          /\ \A t \in Sessions \ {s} : req'[t] = req[t]
          /\ UNCHANGED <<background, flow, worker>>
    BY <1>1, StartEffect
  <2>2. /\ flow[r].stage = "none" /\ \A t \in Sessions : ~Requesting(t, r)
        /\ \A w \in Workers : ~On(w, r)
        /\ r \notin background
    BY <2>1, FreshRun
  <2>3. \A t \in Sessions, q \in Runs :
          Requesting(t, q)' => IF t = s THEN q = r ELSE Requesting(t, q)
    BY <2>1 DEF Requesting
  <2>4. \A w \in Workers, q \in Runs : On(w, q)' = On(w, q)
    BY <2>1 DEF On
  <2> QED BY <2>1, <2>2, <2>3, <2>4, Handover DEF Free, TypeOK
<1>2. CASE FallsBack(s)
  <2>1. \A t \in Sessions, q \in Runs : Requesting(t, q)' => Requesting(t, q)
    BY <1>2 DEF FallsBack, Requesting, TypeOK, Request
  <2> QED BY <1>2, <2>1 DEF FallsBack, Exclusive, Free, On
<1>3. CASE Dispatches(s)
  <2>0. PICK r \in Runs : req[s].run = r
    BY <1>3 DEF Dispatches
  <2>1. Requesting(s, r) /\ Free(r) /\ r \notin background
    BY <1>3, <2>0 DEF Dispatches, Requesting, Exclusive
  <2>2. /\ UNCHANGED <<background, worker>>
        /\ \A q \in Runs \ {r} : flow'[q] = flow[q]
    BY <1>3, <2>0 DEF Dispatches, Enqueue, TypeOK
  <2>3. \A t \in Sessions, q \in Runs :
          Requesting(t, q)' => t # s /\ Requesting(t, q)
    BY <1>3 DEF Dispatches, Answer, Requesting, IdleRequest, TypeOK
  <2>4. \A t \in Sessions : ~Requesting(t, r)'
    BY <2>1, <2>3 DEF Exclusive
  <2>5. \A w \in Workers, q \in Runs : On(w, q)' = On(w, q)
    BY <2>2 DEF On
  <2> QED BY <2>1, <2>2, <2>3, <2>4, <2>5, Handover DEF Free, TypeOK
<1>4. CASE Schedules(s)
  <2>0. PICK r \in Runs : req[s].run = r
    BY <1>4 DEF Schedules
  <2>1. Requesting(s, r) /\ Free(r)
    BY <1>4, <2>0 DEF Schedules, Requesting, Exclusive
  <2>2. UNCHANGED <<flow, worker>> /\ background' = background \cup {r}
    BY <1>4, <2>0 DEF Schedules
  <2>3. \A t \in Sessions, q \in Runs :
          Requesting(t, q)' => t # s /\ Requesting(t, q)
    BY <1>4 DEF Schedules, Answer, Requesting, IdleRequest, TypeOK
  <2>4. \A t \in Sessions : ~Requesting(t, r)'
    BY <2>1, <2>3 DEF Exclusive
  <2>5. /\ \A w \in Workers, q \in Runs : On(w, q)' = On(w, q)
        /\ Free(r)'
    BY <2>1, <2>2 DEF On, Free
  <2> QED BY <2>1, <2>2, <2>3, <2>4, <2>5, Handover DEF Free, TypeOK
<1> QED BY <1>1, <1>2, <1>3, <1>4

LEMMA WorkExclusive ==
    ASSUME TypeOK, Refers, Exclusive, StepsFit, NEW w \in Workers, Moves(w)
    PROVE  Exclusive'
<1>0. PICK r \in Runs : worker[w].run = r
  BY DEF Moves
<1>1. /\ On(w, r) /\ UNCHANGED <<req, background>>
      /\ OthersStay(w)
      /\ worker[w].task \in {"sync"} \cup Attempted
  BY <1>0, TaskKind DEF Moves, Keeps, Drops, On, Attempted
<1>2. \A s \in Sessions, q \in Runs : Requesting(s, q)' = Requesting(s, q)
  BY <1>1 DEF Requesting
<1>3. /\ \A s \in Sessions : ~Requesting(s, r)
      /\ r \notin background
      /\ \A v \in Workers : On(v, r) => v = w
  BY <1>1 DEF Exclusive, Free
<1>4. \A q \in Runs \ {r} : flow'[q] = flow[q]
  BY <1>0, <1>1, StagesMove DEF Moves
<1>5. \A v \in Workers, q \in Runs :
        On(v, q)' => /\ On(v, q)
                     /\ worker'[v].task = worker[v].task
                     /\ worker'[v].live = worker[v].live
  BY <1>1 DEF Moves, Keeps, Drops, OthersStay, On, IdleWorker
<1>6. ASSUME NEW v \in Workers, On(v, r)'
      PROVE  IF worker'[v].task = "sync"
             THEN flow'[r].stage = "none"
             ELSE worker'[v].live /\ flow'[r].stage = worker'[v].task
  <2>1. v = w /\ On(v, r)
    BY <1>3, <1>5, <1>6
  <2>2. ~Drops(w)
    BY <1>6, <2>1 DEF Drops, On, IdleWorker
  <2>3. UNCHANGED flow
    BY <2>2 DEF Moves
  <2> QED BY <1>1, <1>5, <1>6, <2>1, <2>3 DEF Exclusive
<1> QED BY <1>1, <1>2, <1>3, <1>4, <1>5, <1>6, Handover DEF TypeOK

LEMMA StepExclusive ==
    ASSUME TypeOK, Refers, StepsFit, Exclusive, OneAttempt, Next
    PROVE  Exclusive'
<1>1. CASE Rests
  <2>1. \A s \in Sessions, r \in Runs : Requesting(s, r)' => Requesting(s, r)
    BY <1>1 DEF Rests, Requesting
  <2> QED BY <1>1, <2>1 DEF Rests, Exclusive, Free, On
<1>2. ASSUME NEW r \in Runs, Start(r) PROVE Exclusive'
  <2>1. PICK w \in Workers, task \in {"sync"} \cup Attempted :
           /\ Begin(w, task, r) /\ UNCHANGED <<req, flow>>
           /\ IF task = "sync"
              THEN r \in background /\ background' = background \ {r}
              ELSE /\ task = flow[r].stage /\ UNCHANGED background
                   /\ ~\E v \in Workers : /\ worker[v].live
                                          /\ worker[v].run = r
                                          /\ worker[v].task = flow[r].stage
    BY <1>2 DEF Start, BeginSync, BeginAttempt, Attempted
  <2>2. /\ \A v \in Workers \ {w} : worker'[v] = worker[v]
        /\ worker'[w].task = task /\ worker'[w].run = r /\ worker'[w].live
    BY <2>1, BeginEffect DEF OthersStay
  <2>3. \A v \in Workers : ~On(v, r)
    <3>1. CASE task = "sync"
      BY <2>1, <3>1 DEF Exclusive, Free
    <3>2. CASE task # "sync"
      BY <2>1, <3>2 DEF Exclusive, On, Attempted
    <3> QED BY <3>1, <3>2
  <2>4. /\ \A s \in Sessions : ~Requesting(s, r)
        /\ r \notin background'
        /\ task = "sync" => flow[r].stage = "none"
    BY <2>1 DEF Exclusive, Free, Attempted
  <2>5. \A v \in Workers, q \in Runs : On(v, q)' => IF v = w THEN q = r
                                                            ELSE On(v, q)
    BY <2>2 DEF On
  <2>6. \A s \in Sessions, q \in Runs : Requesting(s, q)' = Requesting(s, q)
    BY <2>1 DEF Requesting
  <2>7. background' \subseteq background /\ background \subseteq Runs
    BY <2>1 DEF TypeOK
  <2>8. \A v \in Workers : On(v, r)' => v = w
    BY <2>3, <2>5
  <2> QED BY <2>1, <2>2, <2>4, <2>5, <2>6, <2>7, <2>8, Handover
<1>3. ASSUME NEW r \in Runs, Evaluates(r) PROVE Exclusive'
  <2>1. /\ UNCHANGED <<req, background, worker>>
        /\ \A q \in Runs \ {r} : flow'[q] = flow[q]
        /\ flow[r].stage = "evaluate"
    BY <1>3 DEF Evaluates
  <2>2. /\ \A s \in Sessions : ~Requesting(s, r)
        /\ r \notin background
    BY <2>1 DEF Exclusive, Free
  <2>3. \A v \in Workers : ~On(v, r)
    <3>1. \A v \in Workers : worker[v].task # "evaluate"
      BY DEF TypeOK, Worker, Attempted
    <3> QED BY <2>1, <3>1 DEF Exclusive
  <2>4. /\ \A v \in Workers, q \in Runs : On(v, q)' = On(v, q)
        /\ \A s \in Sessions, q \in Runs : Requesting(s, q)' = Requesting(s, q)
    BY <2>1 DEF On, Requesting
  <2> QED BY <2>1, <2>2, <2>3, <2>4, Handover DEF TypeOK
<1>4. CASE Crash
  <2>1. /\ \A s \in Sessions, r \in Runs : ~Requesting(s, r)'
        /\ background' = {} /\ UNCHANGED flow
    BY <1>4 DEF Crash, Requesting, IdleRequest
  <2>2. \A v \in Workers, q \in Runs : On(v, q)' => /\ On(v, q)
                                                    /\ worker'[v] = worker[v]
    BY <1>4 DEF Crash, On, IdleWorker
  <2> QED BY <2>1, <2>2 DEF Exclusive
<1>5. \A w \in Workers : ~Overrun(w)
  BY DEF Overrun, Inject, OneAttempt
<1>6. \A s \in Sessions : ~DispatchAmbiguous(s)
  BY DEF DispatchAmbiguous, Inject, OneAttempt, NoAmbiguity
<1> QED BY <1>1, <1>2, <1>3, <1>4, <1>5, <1>6, RequestExclusive, WorkExclusive,
          EveryStepMoves

-----------------------------------------------------------------------------
(* What a step of a task reads and writes, case by case.                   *)

Raises(w) ==
    /\ worker[w].step \in {"mark", "marking", "build", "read", "replace", "commit"}
    /\ UNCHANGED db
    /\ IF worker[w].task = "sync"
       THEN Keeps(w, "fail") /\ UNCHANGED flow
       ELSE Drops(w) /\ flow' = IF worker[w].live
                                THEN [flow EXCEPT ![worker[w].run] =
                                                    Retry(worker[w].run)]
                                ELSE flow

ReadsRow(w) ==
    /\ UNCHANGED <<db, flow>>
    /\ HasRow(worker[w].run) /\ Reads(w)
    /\ \/ worker[w].step = "mark" /\ Keeps(w, "marking")
       \/ worker[w].step = "read" /\ Keeps(w, "replace")
       \/ worker[w].step = "fail" /\ Keeps(w, "failing")

FindsNoRow(w) ==
    /\ UNCHANGED <<db, flow>>
    /\ worker[w].step = "fail" /\ ~HasRow(worker[w].run) /\ Returns(w)

Marks(w) ==
    /\ worker[w].step = "marking" /\ Keeps(w, "build")
    /\ worker[w].st = "running" \/ HasRow(worker[w].run)
    /\ worker'[w].st = "running" /\ worker'[w].app = worker[w].app
    /\ run' = [run EXCEPT ![worker[w].run] = Write(@, worker[w].st, "running")]
    /\ UNCHANGED <<app, owner, mode, results, flow>>

Builds(w) ==
    /\ UNCHANGED <<db, flow>>
    /\ worker[w].step = "build"
    /\ IF worker[w].task = "sync" THEN Keeps(w, "replace") /\ Holds(w)
                                  ELSE Keeps(w, "ack")

Replaces(w) ==
    /\ UNCHANGED <<db, flow>>
    /\ worker[w].step = "replace" /\ Keeps(w, "commit") /\ Holds(w)
    /\ worker'[w].old = results[worker[w].run]

Completes(w) ==
    LET r == worker[w].run IN
    /\ worker[w].step = "commit" /\ HasRow(r) /\ Returns(w)
    /\ results' = [results EXCEPT ![r] = (@ \ worker[w].old) \cup Inserted(w)]
    /\ run' = [run EXCEPT ![r] = Write(@, worker[w].st, "completed")]
    /\ app' = [app EXCEPT ![owner[r]] = Write(@, worker[w].app, "completed")]
    /\ UNCHANGED <<owner, mode, flow>>

Fails(w) ==
    LET r == worker[w].run IN
    /\ worker[w].step = "failing" /\ Returns(w)
    /\ IF HasRow(r)
       THEN /\ run' = [run EXCEPT ![r] = Write(@, worker[w].st, "failed")]
            /\ app' = [app EXCEPT ![owner[r]] = Write(@, worker[w].app, "submitted")]
       ELSE UNCHANGED <<app, run>>
    /\ UNCHANGED <<owner, mode, results, flow>>

Ends(w) ==
    /\ worker[w].step = "ack" /\ UNCHANGED db /\ Drops(w)
    /\ \/ flow' = IF worker[w].live
                  THEN [flow EXCEPT ![worker[w].run] = Advance(worker[w].run)]
                  ELSE flow
       \/ /\ "lost" \in Faults
          /\ flow' = [flow EXCEPT ![worker[w].run] = Retry(worker[w].run)]

GivesUp(w) ==
    /\ "unrecorded" \in Faults
    /\ worker[w].step \in {"fail", "failing"} /\ UNCHANGED db /\ Drops(w)
    /\ flow' = IF worker[w].task = "onfail" /\ worker[w].live
               THEN [flow EXCEPT ![worker[w].run] = Retry(worker[w].run)]
               ELSE flow

LEMMA TaskCases ==
    ASSUME TypeOK, Refers, NEW w \in Workers,
           \/ TaskStep(w) \/ TaskError(w) \/ FailureUnrecorded(w)
           \/ AcknowledgementLost(w)
    PROVE  \/ Raises(w) \/ ReadsRow(w) \/ FindsNoRow(w) \/ Marks(w) \/ Builds(w)
           \/ Replaces(w) \/ Completes(w) \/ Fails(w) \/ Ends(w) \/ GivesUp(w)
<1>1. CASE Raise(w) /\ worker[w].step \in {"mark", "marking", "build", "read",
                                           "replace", "commit"}
  BY <1>1, RaiseEffect DEF Raises
<1>2. CASE (MarkRead(w) \/ ReadRun(w) \/ FailRead(w)) /\ ~Raise(w)
  BY <1>2, ReadEffect DEF ReadsRow, FindsNoRow
<1>3. CASE MarkCommit(w) /\ ~Raise(w)
  BY <1>3, MarkCommitEffect DEF Marks
<1>4. CASE Build(w) /\ ~Raise(w)
  BY <1>4, BuildEffect DEF Builds
<1>5. CASE Replace(w) /\ ~Raise(w)
  <2>1. worker[w].run \in Runs
    BY <1>5, Executing DEF Replace
  <2> QED BY <1>5, <2>1, ReplaceEffect DEF Replaces
<1>6. CASE Commit(w) /\ ~Raise(w)
  BY <1>6, CommitEffect DEF Completes
<1>7. CASE FailCommit(w)
  BY <1>7, FailCommitEffect DEF Fails
<1>8. CASE Acknowledge(w) \/ AcknowledgementLost(w)
  BY <1>8, FinishEffect DEF Acknowledge, AcknowledgementLost, Inject, Ends
<1>9. CASE FailureUnrecorded(w)
  BY <1>9, FinishEffect DEF FailureUnrecorded, Inject, GivesUp
<1>10. CASE TaskError(w)
  BY <1>1, <1>10 DEF TaskError
<1>11. CASE TaskStep(w) /\ Raise(w)
  <2>1. CASE MarkRead(w) \/ MarkCommit(w) \/ Build(w) \/ ReadRun(w) \/ Replace(w)
             \/ Commit(w)
    BY <1>1, <1>11, <2>1 DEF MarkRead, MarkCommit, Build, ReadRun, Replace,
         Commit
  <2>2. CASE FailRead(w)
    BY <2>2, SeenEffect, ReturnEffect DEF FailRead, ReadsRow, FindsNoRow
  <2> QED BY <1>7, <1>8, <1>11, <2>1, <2>2 DEF TaskStep
<1> QED BY <1>1, <1>2, <1>3, <1>4, <1>5, <1>6, <1>7, <1>8, <1>9, <1>10, <1>11
        DEF TaskStep

-----------------------------------------------------------------------------
(* One list of results.                                                    *)

\* With one executor, a session still knows the status of its run and the rows
\* it is about to replace.
Current ==
    \A w \in Workers :
        LET r == worker[w].run IN
        /\ worker[w].step \in Holding => run[r] \in {"gone", worker[w].st}
        /\ worker[w].step = "commit" => results[r] \subseteq worker[w].old

LEMMA InitCurrent == ASSUME Init PROVE Current /\ ResultsAreOneBatch
<1>1. Cardinality({}) = 0 /\ 0 <= 1
  BY FS_EmptySet
<1> QED BY <1>1 DEF Init, Current, ResultsAreOneBatch, IdleWorker, Holding

\* A run changes under no session but that of the worker that executes it.
LEMMA OthersCurrent ==
    ASSUME TypeOK, Refers, StepsFit, Exclusive, Current, NEW w \in Workers,
           Moves(w),
           \A r \in Runs : r # worker[w].run => /\ run'[r] = run[r]
                                                /\ results'[r] = results[r],
           LET r == worker'[w].run IN
           /\ worker'[w].step \in Holding => run'[r] \in {"gone", worker'[w].st}
           /\ worker'[w].step = "commit" => results'[r] \subseteq worker'[w].old
    PROVE  Current'
<1>1. SUFFICES ASSUME NEW v \in Workers \ {w}
               PROVE  LET r == worker'[v].run IN
                      /\ worker'[v].step \in Holding =>
                            run'[r] \in {"gone", worker'[v].st}
                      /\ worker'[v].step = "commit" =>
                            results'[r] \subseteq worker'[v].old
  BY DEF Current
<1>2. worker'[v] = worker[v]
  BY DEF Moves, Keeps, Drops, OthersStay
<1>3. SUFFICES ASSUME worker[v].step \in Holding
               PROVE  worker[v].run \in Runs /\ worker[v].run # worker[w].run
  BY <1>2 DEF Current, Holding
<1>4. worker[v].step # "idle" /\ worker[w].step # "idle"
  BY <1>3 DEF Moves, Holding
<1>5. /\ worker[v].run \in Runs /\ worker[w].run \in Runs
      /\ worker[v].task # "idle" /\ worker[w].task # "idle"
  BY <1>4, Executing DEF StepsFit, Fits
<1> QED BY <1>5 DEF Exclusive, On

Works(w) ==
    /\ Moves(w)
    /\ \/ Raises(w) \/ ReadsRow(w) \/ FindsNoRow(w) \/ Marks(w) \/ Builds(w)
       \/ Replaces(w) \/ Completes(w) \/ Fails(w) \/ Ends(w) \/ GivesUp(w)

\* Every step, when nothing times out and no dispatch is ambiguous.
LEMMA EveryStepWorks ==
    ASSUME TypeOK, Refers, StepsFit, OneAttempt, Next
    PROVE  \/ Rests
           \/ \E s \in Sessions : \/ CommitStart(s) \/ FallsBack(s)
                                  \/ Dispatches(s) \/ Schedules(s)
           \/ \E r \in Runs : Start(r) \/ Evaluates(r)
           \/ \E w \in Workers : Works(w)
           \/ Crash
<1>1. \A w \in Workers : ~Overrun(w)
  BY DEF Overrun, Inject, OneAttempt
<1>2. \A s \in Sessions : ~DispatchAmbiguous(s)
  BY DEF DispatchAmbiguous, Inject, OneAttempt, NoAmbiguity
<1>3. ASSUME NEW w \in Workers, Moves(w),
             \/ TaskStep(w) \/ TaskError(w) \/ FailureUnrecorded(w)
             \/ AcknowledgementLost(w)
      PROVE  Works(w)
  BY <1>3, TaskCases DEF Works
<1> QED BY <1>1, <1>2, <1>3, EveryStepMoves

LEMMA WorkCurrent ==
    ASSUME TypeOK, Refers, StepsFit, Exclusive, Current, NEW w \in Workers,
           Works(w)
    PROVE  Current'
<1> DEFINE r == worker[w].run
<1>1. /\ r \in Runs /\ Moves(w) /\ owner[r] \in Apps
      /\ worker[w].task \in {"sync"} \cup Attempted
  BY Executing, TaskKind DEF Works, Moves
<1>2. Keeps(w, "ack") \/ Keeps(w, "fail") \/ Drops(w) =>
        worker'[w].step \notin Holding
  BY DEF Keeps, Drops, IdleWorker, Holding
<1>3. Returns(w) => worker'[w].step \notin Holding
  BY <1>2 DEF Returns
<1> HIDE DEF r
<1> USE DEF Holding
<1>4. CASE Raises(w) \/ FindsNoRow(w) \/ Ends(w) \/ GivesUp(w)
  <2>1. UNCHANGED <<run, results>> /\ worker'[w].step \notin Holding
    BY <1>2, <1>3, <1>4 DEF Raises, FindsNoRow, Ends, GivesUp, db
  <2> QED BY <1>1, <2>1, OthersCurrent
<1>5. CASE ReadsRow(w)
  <2>1. /\ UNCHANGED <<run, results>> /\ worker'[w].run = r
        /\ worker'[w].st = run[r] /\ worker'[w].step # "commit"
    BY <1>5 DEF ReadsRow, Reads, Keeps, db, r
  <2> QED BY <1>1, <2>1, OthersCurrent
<1>6. CASE Marks(w)
  <2>1. worker[w].step \in Holding => run[r] \in {"gone", worker[w].st}
    BY DEF Current, r
  <2>2. /\ run' = [run EXCEPT ![r] = Write(@, worker[w].st, "running")]
        /\ UNCHANGED results /\ worker'[w].run = r
        /\ worker'[w].st = "running" /\ worker'[w].step = "build"
    BY <1>6 DEF Marks, Keeps, r
  <2>3. \A q \in Runs : q # r => run'[q] = run[q] /\ results'[q] = results[q]
    BY <2>2 DEF TypeOK
  <2>4. run'[r] \in {"gone", "running"}
    BY <1>1, <1>6, <2>1, <2>2 DEF Marks, Write, TypeOK
  <2> QED BY <1>1, <2>2, <2>3, <2>4, OthersCurrent DEF r
<1>7. CASE Builds(w)
  <2>1. worker[w].step = "build" => run[r] \in {"gone", worker[w].st}
    BY DEF Current, r
  <2>2. CASE worker[w].task = "sync"
    <3>1. /\ UNCHANGED <<run, results>> /\ worker'[w].run = r
          /\ worker'[w].st = worker[w].st /\ worker'[w].step = "replace"
      BY <1>7, <2>2 DEF Builds, Keeps, Holds, db, r
    <3> QED BY <1>1, <1>7, <2>1, <3>1, OthersCurrent DEF Builds
  <2>3. CASE worker[w].task # "sync"
    <3>1. UNCHANGED <<run, results>> /\ worker'[w].step \notin Holding
      BY <1>2, <1>7, <2>3 DEF Builds, db
    <3> QED BY <1>1, <3>1, OthersCurrent
  <2> QED BY <2>2, <2>3
<1>8. CASE Replaces(w)
  <2>1. worker[w].step = "replace" => run[r] \in {"gone", worker[w].st}
    BY DEF Current, r
  <2>2. /\ UNCHANGED <<run, results>> /\ worker'[w].run = r
        /\ worker'[w].st = worker[w].st /\ worker'[w].old = results[r]
    BY <1>8 DEF Replaces, Keeps, Holds, db, r
  <2> QED BY <1>1, <1>8, <2>1, <2>2, OthersCurrent DEF Replaces
<1>9. CASE Completes(w) \/ Fails(w)
  <2>1. /\ worker'[w].step \notin Holding
        /\ \A q \in Runs : q # r => run'[q] = run[q] /\ results'[q] = results[q]
    BY <1>3, <1>9 DEF Completes, Fails, TypeOK, r
  <2> QED BY <1>1, <2>1, OthersCurrent DEF r
<1> QED BY <1>4, <1>5, <1>6, <1>7, <1>8, <1>9 DEF Works

LEMMA StepCurrent ==
    ASSUME TypeOK, Refers, StepsFit, Exclusive, Current, OneAttempt, Next
    PROVE  Current'
<1>1. \A w \in Workers : worker[w].step \in Holding => worker[w].run \in Runs
  BY Executing DEF Holding
<1>2. CASE Rests
  <2>1. \A r \in Runs : \/ run'[r] = run[r] /\ results'[r] = results[r]
                        \/ run'[r] = "gone" /\ results'[r] = {}
    BY <1>2 DEF Rests
  <2> QED BY <1>1, <1>2, <2>1 DEF Rests, Current, Holding
<1>3. ASSUME NEW s \in Sessions, CommitStart(s) PROVE Current'
  <2>1. PICK r \in Runs : /\ run[r] = "none"
                          /\ run' = [run EXCEPT ![r] = "queued"]
                          /\ UNCHANGED <<results, worker>>
    BY <1>3, StartEffect
  <2>2. \A w \in Workers : worker[w].step \in Holding => worker[w].run # r
    BY <2>1, Executing DEF Holding
  <2> QED BY <1>1, <2>1, <2>2 DEF Current, Holding, TypeOK
<1>4. ASSUME NEW s \in Sessions,
             FallsBack(s) \/ Dispatches(s) \/ Schedules(s)
      PROVE  Current'
  BY <1>4 DEF FallsBack, Dispatches, Schedules, db, Current
<1>5. ASSUME NEW r \in Runs, Start(r) PROVE Current'
  <2>1. PICK w \in Workers, task \in {"sync"} \cup Attempted :
           Begin(w, task, r) /\ UNCHANGED <<run, results>>
    BY <1>5 DEF Start, BeginSync, BeginAttempt, db
  <2>2. /\ \A v \in Workers \ {w} : worker'[v] = worker[v]
        /\ worker'[w].step \notin Holding
    BY <2>1, BeginEffect DEF OthersStay, FirstStep, Holding
  <2> QED BY <2>1, <2>2 DEF Current, Holding
<1>6. ASSUME NEW r \in Runs, Evaluates(r) PROVE Current'
  BY <1>6 DEF Evaluates, db, Current
<1>7. CASE Crash
  <2>1. /\ UNCHANGED <<run, results>>
        /\ \A v \in Workers : worker'[v] \in {worker[v], IdleWorker}
    BY <1>7 DEF Crash, db
  <2> QED BY <2>1 DEF Current, IdleWorker, Holding
<1> QED BY <1>2, <1>3, <1>4, <1>5, <1>6, <1>7, WorkCurrent, EveryStepWorks

LEMMA StepOneBatch ==
    ASSUME TypeOK, Refers, StepsFit, Current, ResultsAreOneBatch, OneAttempt,
           Next
    PROVE  ResultsAreOneBatch'
<1> USE DEF ResultsAreOneBatch
<1>1. Cardinality({}) <= 1 /\ \A b : Cardinality({b}) <= 1
  BY FS_EmptySet, FS_Singleton
<1>2. CASE UNCHANGED results
  BY <1>2
<1>3. CASE Rests
  <2>1. \A r \in Runs : results'[r] \in {results[r], {}}
    BY <1>3 DEF Rests
  <2> QED BY <1>1, <2>1
<1>4. ASSUME NEW w \in Workers, Completes(w) PROVE ResultsAreOneBatch'
  <2> DEFINE r == worker[w].run
  <2>1. \A q \in Runs : q # r => results'[q] = results[q]
    BY <1>4 DEF Completes, TypeOK
  <2>2. r \in Runs => results'[r] = Inserted(w)
    <3>1. results[r] \ worker[w].old = {}
      BY <1>4 DEF Current, Completes
    <3> QED BY <1>4, <3>1 DEF Completes, TypeOK
  <2>3. Cardinality(Inserted(w)) <= 1
    BY <1>1 DEF Inserted
  <2> QED BY <2>1, <2>2, <2>3
<1>5. ASSUME NEW w \in Workers, Works(w), ~Completes(w) PROVE UNCHANGED results
  BY <1>5 DEF Works, Raises, ReadsRow, FindsNoRow, Marks, Builds, Replaces,
       Fails, Ends, GivesUp, db
<1>6. ASSUME NEW s \in Sessions,
             CommitStart(s) \/ FallsBack(s) \/ Dispatches(s) \/ Schedules(s)
      PROVE  UNCHANGED results
  BY <1>6, StartEffect DEF FallsBack, Dispatches, Schedules, db
<1>7. ASSUME NEW r \in Runs, Start(r) \/ Evaluates(r) PROVE UNCHANGED results
  BY <1>7 DEF Start, BeginSync, BeginAttempt, Evaluates, db
<1>8. CASE Crash
  BY <1>2, <1>8 DEF Crash, db
<1> QED BY <1>2, <1>3, <1>4, <1>5, <1>6, <1>7, <1>8, EveryStepWorks

\* The strengthening of ResultsAreOneBatch.
OneExecutor == /\ StepsFit /\ Exclusive /\ Current
               /\ ResultsAreOneBatch

LEMMA StepOneExecutor ==
    ASSUME OneAttempt, TypeOK, Refers, OneExecutor, [Next]_vars
    PROVE  OneExecutor'
<1> USE DEF OneExecutor
<1>1. CASE UNCHANGED vars
  BY <1>1 DEF vars, StepsFit, Exclusive, Current, ResultsAreOneBatch, Requesting,
       On, Free
<1>2. CASE Next
  BY <1>2, StepStepsFit, StepExclusive, StepCurrent, StepOneBatch
<1> QED BY <1>1, <1>2

LEMMA OneExecutorHolds == ASSUME OneAttempt PROVE Spec => []OneExecutor
<1>1. Init => TypeOK /\ Refers /\ OneExecutor
  BY InitTyped, InitStepsFit, InitExclusive, InitCurrent DEF OneExecutor
<1>2. TypeOK /\ Refers /\ OneExecutor /\ [Next]_vars =>
        (TypeOK /\ Refers /\ OneExecutor)'
  BY StepTyped, StepOneExecutor
<1> QED BY <1>1, <1>2, PTL DEF Spec

\* As long as Hatchet waits for every attempt and a refused dispatch is one, a
\* retry replaces the rows of the attempt before it: no run ever shows two
\* lists of results, whatever else fails.
THEOREM ResultsAreOneBatchHolds ==
    ASSUME OneAttempt PROVE Spec => []ResultsAreOneBatch
BY OneExecutorHolds, PTL DEF OneExecutor

-----------------------------------------------------------------------------
(* Results that are final.                                                 *)

\* Hatchet hears of every attempt that committed, and gives none up.
NothingRepeats == OneAttempt /\ "lost" \notin Faults

\* The attempt that settled r has yet to be acknowledged.
Acking(r) == \E w \in Workers : /\ On(w, r) /\ worker[w].step = "ack"
                                /\ worker[w].task \in {"persist", "onfail"}
Unsettled(r) == run[r] \in Active \cup {"gone"}

\* Whatever would still execute a run finds it unsettled.
DriversAreNeeded ==
    /\ \A r \in Runs : HasDriver(r) => Acking(r) \/ Unsettled(r)
    /\ \A r \in Runs : run[r] \in Active \cup {"none", "gone"} => results[r] = {}

LEMMA InitDrivers == ASSUME Init PROVE DriversAreNeeded
BY DEF Init, DriversAreNeeded, HasDriver, IdleRequest, IdleWorker

\* The worker that executes a run is its only driver.
LEMMA OnlyDriver ==
    ASSUME TypeOK, StepsFit, Exclusive, NEW w \in Workers, NEW r \in Runs,
           On(w, r)
    PROVE  /\ HasDriver(r)
           /\ r \notin background /\ \A s \in Sessions : ~Requesting(s, r)
           /\ \A v \in Workers : On(v, r) => v = w
           /\ worker[w].task = "sync" => flow[r].stage = "none"
           /\ worker[w].task # "sync" => /\ worker[w].live
                                         /\ flow[r].stage = worker[w].task
                                         /\ worker[w].task \in Attempted
<1>1. worker[w].task \in {"sync"} \cup Attempted /\ worker[w].run = r
  BY DEF On, TypeOK, Worker
<1>2. /\ r \notin background /\ \A s \in Sessions : ~Requesting(s, r)
      /\ \A v \in Workers : On(v, r) => v = w
      /\ IF worker[w].task = "sync"
         THEN flow[r].stage = "none"
         ELSE worker[w].live /\ flow[r].stage = worker[w].task
  BY DEF Exclusive, Free
<1>3. HasDriver(r)
  BY <1>1, <1>2 DEF HasDriver, Attempted
<1> QED BY <1>1, <1>2, <1>3

LEMMA ExecutedIsUnsettled ==
    ASSUME TypeOK, StepsFit, Exclusive, DriversAreNeeded, NEW w \in Workers,
           NEW r \in Runs, On(w, r),
           worker[w].step # "ack" \/ worker[w].task = "prepare"
    PROVE  Unsettled(r)
<1>1. ~Acking(r)
  BY OnlyDriver DEF Acking
<1> QED BY <1>1, OnlyDriver DEF DriversAreNeeded

LEMMA MoveDrivers ==
    ASSUME TypeOK, StepsFit, Exclusive, NEW w \in Workers, Moves(w),
           NEW r \in Runs, worker[w].run = r
    PROVE  /\ On(w, r) /\ OthersStay(w)
           /\ \A q \in Runs \ {r} : HasDriver(q)' = HasDriver(q)
           /\ \A q \in Runs \ {r} : Acking(q)' = Acking(q)
           /\ HasDriver(r)' => \/ flow'[r].stage \notin {"none", "succeeded",
                                                         "failed"}
                               \/ worker'[w].task = "sync"
           /\ worker'[w].task = "sync" => worker[w].task = "sync"
<1>1. /\ On(w, r) /\ OthersStay(w)
      /\ worker'[w].task = "idle" \/ /\ worker'[w].run = r
                                     /\ worker'[w].task = worker[w].task
      /\ UNCHANGED <<req, background>>
      /\ worker[w].task \in {"sync"} \cup Attempted
  BY TaskKind DEF Moves, Keeps, Drops, On, IdleWorker, Attempted
<1>2. \A q \in Runs \ {r} : flow'[q] = flow[q]
  BY StagesMove DEF Moves
<1>3. \A v \in Workers, q \in Runs \ {r} :
        /\ On(v, q)' <=> On(v, q)
        /\ On(v, q) => worker'[v] = worker[v]
  BY <1>1 DEF On, OthersStay
<1>4. ASSUME NEW q \in Runs \ {r} PROVE HasDriver(q)' = HasDriver(q)
  <2>1. (\E v \in Workers : worker'[v].task = "sync" /\ worker'[v].run = q)
        <=> (\E v \in Workers : worker[v].task = "sync" /\ worker[v].run = q)
    BY <1>3 DEF On
  <2> QED BY <1>1, <1>2, <2>1 DEF HasDriver
<1>5. ASSUME NEW q \in Runs \ {r} PROVE Acking(q)' = Acking(q)
  BY <1>3 DEF Acking
<1>6. ASSUME HasDriver(r)', worker'[w].task # "sync"
      PROVE  flow'[r].stage \notin {"none", "succeeded", "failed"}
  <2>1. /\ r \notin background
        /\ \A s \in Sessions : ~Requesting(s, r)
        /\ \A v \in Workers : On(v, r) => v = w
    BY <1>1, OnlyDriver
  <2>2. ~\E v \in Workers : worker'[v].task = "sync" /\ worker'[v].run = r
    BY <1>1, <1>6, <2>1 DEF OthersStay, On
  <2> QED BY <1>1, <1>6, <2>1, <2>2 DEF HasDriver, Requesting
<1> QED BY <1>1, <1>4, <1>5, <1>6, Zenon

\* What a step of the executor of r does to r, and that it does it to no other.
LEMMA WorkWrites ==
    ASSUME TypeOK, Refers, StepsFit, Exclusive, Current, NEW w \in Workers,
           Works(w), NEW r \in Runs, worker[w].run = r
    PROVE  /\ \A q \in Runs \ {r} : run'[q] = run[q] /\ results'[q] = results[q]
           /\ \/ UNCHANGED <<run, results>>
              \/ Marks(w) /\ HasRow(r) /\ run'[r] = "running" /\ UNCHANGED results
              \/ /\ Completes(w) /\ HasRow(r)
                 /\ run'[r] = IF run[r] = "completed" THEN run[r] ELSE "completed"
              \/ /\ Fails(w) /\ HasRow(r)
                 /\ run'[r] = IF run[r] = "failed" THEN run[r] ELSE "failed"
                 /\ UNCHANGED results
           /\ Completes(w) \/ Fails(w) => run'[r] \notin Active
<1>1. worker[w].step \in Holding => run[r] \in {"gone", worker[w].st}
  BY DEF Current
<1>2. CASE UNCHANGED <<run, results>> /\ ~Completes(w) /\ ~Fails(w)
  BY <1>2
<1>3. CASE Marks(w) /\ ~UNCHANGED run
  <2>1. worker[w].st # "running"
    BY <1>3 DEF Marks, Write, TypeOK
  <2> QED BY <1>3, <2>1 DEF Marks, Completes, Fails, Write, TypeOK
<1>4. CASE Completes(w)
  <2>1. run[r] = worker[w].st
    BY <1>1, <1>4 DEF Completes, Holding, HasRow
  <2>2. run'[r] = IF run[r] = "completed" THEN run[r] ELSE "completed"
    BY <1>4, <2>1 DEF Completes, Write, TypeOK
  <2> QED BY <1>4, <2>2 DEF Completes, TypeOK, Active
<1>5. CASE Fails(w) /\ HasRow(r)
  <2>1. run[r] = worker[w].st
    BY <1>1, <1>5 DEF Fails, Holding, HasRow
  <2>2. run'[r] = IF run[r] = "failed" THEN run[r] ELSE "failed"
    BY <1>5, <2>1 DEF Fails, Write, TypeOK
  <2> QED BY <1>5, <2>2 DEF Fails, TypeOK, Active
<1>6. CASE Fails(w) /\ ~HasRow(r)
  BY <1>6 DEF Fails, HasRow, Active
<1> QED BY <1>2, <1>3, <1>4, <1>5, <1>6 DEF Works, Raises, ReadsRow, FindsNoRow,
          Marks, Builds, Replaces, Fails, Ends, GivesUp, db

LEMMA WorkDrivers ==
    ASSUME TypeOK, Refers, StepsFit, Exclusive, Current, NothingRepeats,
           DriversAreNeeded, NEW w \in Workers, Works(w)
    PROVE  DriversAreNeeded'
<1>1. PICK r \in Runs : worker[w].run = r
  BY DEF Works, Moves
<1>2. /\ On(w, r) /\ OthersStay(w)
      /\ \A q \in Runs \ {r} : HasDriver(q)' = HasDriver(q)
      /\ \A q \in Runs \ {r} : Acking(q)' = Acking(q)
      /\ HasDriver(r)' => \/ flow'[r].stage \notin {"none", "succeeded", "failed"}
                          \/ worker'[w].task = "sync"
  BY <1>1, MoveDrivers DEF Works
<1>3. /\ \A q \in Runs \ {r} : run'[q] = run[q] /\ results'[q] = results[q]
      /\ \/ UNCHANGED <<run, results>>
         \/ Marks(w) /\ HasRow(r) /\ run'[r] = "running" /\ UNCHANGED results
         \/ Completes(w) /\ run'[r] \in Settled
         \/ Fails(w) /\ run'[r] \in Settled
  BY <1>1, WorkWrites DEF Settled
<1>4. worker[w].step # "ack" \/ worker[w].task = "prepare" => Unsettled(r)
  BY <1>2, ExecutedIsUnsettled
<1>5. results'[r] = {} \/ run'[r] \notin Active \cup {"none", "gone"}
  <2>1. CASE UNCHANGED <<run, results>>
    BY <2>1 DEF DriversAreNeeded
  <2>2. CASE Marks(w) /\ UNCHANGED results
    BY <1>4, <2>2 DEF Marks, Unsettled, DriversAreNeeded
  <2> QED BY <1>3, <2>1, <2>2 DEF Settled, Active
<1>6. ASSUME HasDriver(r)', ~Acking(r)' PROVE Unsettled(r)'
  <2>1. Fits(worker[w].task, worker[w].step)
    BY DEF StepsFit
  <2>2. ASSUME Returns(w), worker[w].step \in {"commit", "fail", "failing"}
        PROVE  FALSE
    <3>1. worker[w].task \in {"sync", "persist", "onfail"}
      BY <2>1, <2>2, TaskKind DEF Fits, Attempted
    <3>2. CASE worker[w].task = "sync"
      <4>1. flow[r].stage = "none"
        BY <1>2, <3>2, OnlyDriver
      <4>2. worker'[w].task = "idle" /\ UNCHANGED flow
        <5>1. Drops(w)
          BY <2>2, <3>2 DEF Returns
        <5>2. worker'[w].task = "idle"
          BY <5>1 DEF Drops, IdleWorker
        <5> QED BY <3>2, <5>2 DEF Works, Moves, Attempted
      <4> QED BY <1>2, <1>6, <4>1, <4>2
    <3>3. CASE worker[w].task # "sync"
      <4>1. Keeps(w, "ack")
        BY <2>2, <3>3 DEF Returns
      <4> QED BY <1>1, <1>2, <1>6, <3>1, <3>3, <4>1 DEF Keeps, Acking, On
    <3> QED BY <3>2, <3>3
  <2>3. CASE Ends(w) /\ worker[w].task # "prepare"
    <3>1. worker[w].task \in {"persist", "onfail"} /\ worker[w].step = "ack"
      BY <2>1, <2>3, TaskKind DEF Ends, Fits, Attempted
    <3>2. worker[w].live /\ flow[r].stage = worker[w].task
      BY <1>2, <3>1, OnlyDriver
    <3>3. flow' = [flow EXCEPT ![r] = Advance(r)] /\ worker'[w].task = "idle"
      BY <1>1, <2>3, <3>2 DEF Ends, NothingRepeats, Drops, IdleWorker
    <3>4. flow[r] \in Flow
      BY DEF TypeOK
    <3>5. flow'[r].stage \in {"succeeded", "failed"}
      <4>1. Advance(r).stage \in {"succeeded", "failed"}
        BY <3>1, <3>2, <3>4 DEF Advance, Flow
      <4> QED BY <3>3, <4>1 DEF TypeOK
    <3> QED BY <1>2, <1>6, <3>3, <3>5
  <2>4. CASE (Ends(w) /\ worker[w].task = "prepare") \/ ~Ends(w)
    <3>1. CASE Unsettled(r)
      BY <1>3, <2>2, <3>1 DEF Unsettled, Active, Completes, Fails
    <3>2. CASE ~Unsettled(r)
      <4>1. worker[w].step = "ack" /\ worker[w].task # "prepare"
        BY <1>4, <3>2
      <4> QED BY <2>4, <4>1 DEF Works, Raises, ReadsRow, FindsNoRow, Marks,
               Builds, Replaces, Completes, Fails, Ends, GivesUp
    <3> QED BY <3>1, <3>2
  <2> QED BY <2>3, <2>4
<1>7. ASSUME NEW q \in Runs PROVE HasDriver(q)' => Acking(q)' \/ Unsettled(q)'
  <2>1. CASE q = r
    BY <1>6, <2>1
  <2>2. CASE q # r
    <3>1. Unsettled(q)' = Unsettled(q)
      BY <1>3, <2>2 DEF Unsettled
    <3> QED BY <1>2, <2>2, <3>1 DEF DriversAreNeeded
  <2> QED BY <2>1, <2>2
<1> QED BY <1>3, <1>5, <1>7 DEF DriversAreNeeded

\* Every other step leaves the drivers of every run but one, which has one.
LEMMA OtherDrivers ==
    ASSUME TypeOK, Refers, StepsFit, NEW r \in Runs,
           \/ Rests \/ Crash
           \/ \E s \in Sessions : FallsBack(s) \/ Dispatches(s) \/ Schedules(s)
           \/ \E q \in Runs : Start(q) \/ Evaluates(q)
    PROVE  /\ HasDriver(r)' => HasDriver(r)
           /\ Acking(r)' = Acking(r)
<1>1. CASE Rests
  BY <1>1 DEF Rests, HasDriver, Acking, On
<1>2. CASE Crash
  <2>1. /\ \A s \in Sessions : ~Requesting(s, r)'
        /\ background' = {} /\ UNCHANGED flow
        /\ \A v \in Workers : worker'[v] = IF worker[v].task = "sync"
                                           THEN IdleWorker ELSE worker[v]
    BY <1>2 DEF Crash, Requesting, IdleRequest
  <2>2. ~\E v \in Workers : worker'[v].task = "sync" /\ worker'[v].run = r
    BY <2>1 DEF IdleWorker
  <2>3. HasDriver(r)' => HasDriver(r)
    BY <2>1, <2>2 DEF HasDriver, Requesting
  <2>4. Acking(r)' = Acking(r)
    BY <2>1 DEF Acking, On, IdleWorker
  <2> QED BY <2>3, <2>4
<1>3. ASSUME NEW s \in Sessions, FallsBack(s) \/ Dispatches(s) \/ Schedules(s)
      PROVE  /\ HasDriver(r)' => HasDriver(r)
             /\ Acking(r)' = Acking(r)
  <2>0. \A t \in Sessions : Requesting(t, r)' => Requesting(t, r)
    <3>1. CASE FallsBack(s)
      BY <3>1 DEF FallsBack, Requesting, TypeOK, Request
    <3>2. CASE Dispatches(s) \/ Schedules(s)
      <4>1. \A t \in Sessions : req'[t] \in {req[t], IdleRequest}
        BY <3>2 DEF Dispatches, Schedules, Answer, TypeOK
      <4> QED BY <4>1 DEF Requesting, IdleRequest
    <3> QED BY <1>3, <3>1, <3>2
  <2>1. /\ UNCHANGED worker
        /\ \A t \in Sessions : Requesting(t, r)' => Requesting(t, r)
    BY <1>3, <2>0 DEF FallsBack, Dispatches, Schedules
  <2>2. \/ Requesting(s, r)
        \/ flow'[r] = flow[r] /\ (r \in background' => r \in background)
    BY <1>3 DEF FallsBack, Dispatches, Schedules, Enqueue, Requesting, TypeOK
  <2>3. HasDriver(r)' => HasDriver(r)
    BY <2>1, <2>2 DEF HasDriver, Requesting
  <2> QED BY <2>1, <2>3 DEF Acking, On
<1>4. ASSUME NEW q \in Runs, Start(q)
      PROVE  /\ HasDriver(r)' => HasDriver(r)
             /\ Acking(r)' = Acking(r)
  <2>1. PICK w \in Workers, task \in {"sync"} \cup Attempted :
           /\ Begin(w, task, q) /\ UNCHANGED <<req, flow>>
           /\ background' \subseteq background
           /\ task = "sync" => q \in background
    BY <1>4 DEF Start, BeginSync, BeginAttempt, Attempted
  <2>2. /\ \A v \in Workers \ {w} : worker'[v] = worker[v]
        /\ worker[w] = IdleWorker /\ worker'[w].task = task
        /\ worker'[w].run = q /\ worker'[w].step = FirstStep(task)
    BY <2>1, BeginEffect DEF OthersStay
  <2>3. HasDriver(r)' => HasDriver(r)
    BY <2>1, <2>2 DEF HasDriver
  <2>4. Acking(r)' = Acking(r)
    BY <2>2 DEF Acking, On, FirstStep, IdleWorker
  <2> QED BY <2>3, <2>4
<1>5. ASSUME NEW q \in Runs, Evaluates(q)
      PROVE  /\ HasDriver(r)' => HasDriver(r)
             /\ Acking(r)' = Acking(r)
  <2>1. UNCHANGED <<req, background, worker>>
    BY <1>5 DEF Evaluates
  <2>2. \/ flow'[r] = flow[r]
        \/ flow[r].stage = "evaluate" /\ flow'[r].stage \in {"persist", "onfail"}
    BY <1>5 DEF Evaluates
  <2> QED BY <2>1, <2>2 DEF HasDriver, Acking, On
<1> QED BY <1>1, <1>2, <1>3, <1>4, <1>5

LEMMA StepDrivers ==
    ASSUME TypeOK, Refers, StepsFit, Exclusive, Current, NothingRepeats,
           DriversAreNeeded, Next
    PROVE  DriversAreNeeded'
<1>1. CASE Rests
  <2>1. \A r \in Runs : \/ run'[r] = run[r] /\ results'[r] = results[r]
                        \/ run'[r] = "gone" /\ results'[r] = {}
    BY <1>1 DEF Rests
  <2> QED BY <1>1, <2>1, OtherDrivers DEF DriversAreNeeded, Unsettled
<1>2. CASE UNCHANGED <<run, results>> /\ \A r \in Runs :
             (HasDriver(r)' => HasDriver(r)) /\ Acking(r)' = Acking(r)
  BY <1>2 DEF DriversAreNeeded, Unsettled
<1>3. CASE \/ \E s \in Sessions : FallsBack(s) \/ Dispatches(s) \/ Schedules(s)
           \/ \E r \in Runs : Start(r) \/ Evaluates(r)
           \/ Crash
  <2>1. UNCHANGED <<run, results>>
    BY <1>3 DEF FallsBack, Dispatches, Schedules, Start, BeginSync,
         BeginAttempt, Evaluates, Crash, db
  <2> QED BY <1>2, <1>3, <2>1, OtherDrivers
<1>4. ASSUME NEW s \in Sessions, CommitStart(s) PROVE DriversAreNeeded'
  <2>1. PICK r \in Runs : /\ run[r] = "none"
                          /\ run' = [run EXCEPT ![r] = "queued"]
                          /\ req'[s].run = r
                          /\ \A t \in Sessions \ {s} : req'[t] = req[t]
                          /\ UNCHANGED <<results, background, flow, worker>>
    BY <1>4, StartEffect
  <2>2. \A q \in Runs \ {r} : HasDriver(q)' => HasDriver(q)
    BY <2>1 DEF HasDriver
  <2>3. \A q \in Runs : Acking(q)' = Acking(q)
    BY <2>1 DEF Acking, On
  <2>4. Unsettled(r)' /\ results'[r] = {}
    BY <2>1 DEF Unsettled, Active, DriversAreNeeded, TypeOK
  <2>5. \A q \in Runs \ {r} : run'[q] = run[q] /\ results'[q] = results[q]
    BY <2>1 DEF TypeOK
  <2> QED BY <2>2, <2>3, <2>4, <2>5 DEF DriversAreNeeded, Unsettled
<1> QED BY <1>1, <1>3, <1>4, WorkDrivers, EveryStepWorks DEF NothingRepeats

\* The strengthening of ResultsAreFinal.
OneSettlement == OneExecutor /\ DriversAreNeeded

LEMMA OneSettlementHolds ==
    ASSUME NothingRepeats PROVE Spec => [](TypeOK /\ Refers /\ OneSettlement)
<1>1. Init => TypeOK /\ Refers /\ OneSettlement
  BY InitTyped, InitStepsFit, InitExclusive, InitCurrent, InitDrivers
     DEF OneExecutor, OneSettlement
<1>2. TypeOK /\ Refers /\ OneSettlement /\ [Next]_vars =>
        (TypeOK /\ Refers /\ OneSettlement)'
  <2>1. SUFFICES ASSUME TypeOK, Refers, OneSettlement, [Next]_vars
                 PROVE  DriversAreNeeded'
    BY StepTyped, StepOneExecutor DEF NothingRepeats, OneSettlement
  <2>2. CASE UNCHANGED vars
    BY <2>1, <2>2 DEF vars, OneSettlement, DriversAreNeeded, HasDriver, Acking,
         On, Unsettled
  <2> QED BY <2>1, <2>2, StepDrivers DEF OneExecutor, OneSettlement
<1> QED BY <1>1, <1>2, PTL DEF Spec

LEMMA StepFinal ==
    ASSUME TypeOK, Refers, OneSettlement, NothingRepeats, Next,
           NEW r \in Runs, results[r] # {}
    PROVE  results'[r] = results[r] \/ run'[r] = "gone"
<1>1. CASE Rests
  BY <1>1 DEF Rests
<1>2. ASSUME NEW w \in Workers, Works(w) PROVE results'[r] = results[r]
  <2>1. PICK q \in Runs : worker[w].run = q
    BY <1>2 DEF Works, Moves
  <2>2. /\ \A p \in Runs \ {q} : results'[p] = results[p]
        /\ UNCHANGED results \/ (Completes(w) /\ HasRow(q))
    BY <1>2, <2>1, WorkWrites DEF OneSettlement, OneExecutor
  <2>3. CASE Completes(w) /\ HasRow(q)
    <3>1. On(w, q)
      BY <1>2, <2>1, MoveDrivers DEF Works, OneSettlement, OneExecutor
    <3>2. Unsettled(q)
      BY <2>3, <3>1, ExecutedIsUnsettled DEF Completes, OneSettlement,
           OneExecutor
    <3>3. results[q] = {}
      BY <2>3, <3>2 DEF Unsettled, HasRow, OneSettlement, DriversAreNeeded
    <3> QED BY <2>2, <3>3
  <2> QED BY <2>2, <2>3
<1>3. ASSUME \/ \E s \in Sessions : \/ CommitStart(s) \/ FallsBack(s)
                                    \/ Dispatches(s) \/ Schedules(s)
             \/ \E q \in Runs : Start(q) \/ Evaluates(q)
             \/ Crash
      PROVE  UNCHANGED results
  BY <1>3, StartEffect DEF FallsBack, Dispatches, Schedules, Start, BeginSync,
       BeginAttempt, Evaluates, Crash, db
<1> QED BY <1>1, <1>2, <1>3, EveryStepWorks DEF OneSettlement, OneExecutor,
          NothingRepeats

\* If, besides, Hatchet hears of every attempt that committed, results are
\* final: they are never replaced, and only go with the run.
THEOREM ResultsAreFinalHolds ==
    ASSUME NothingRepeats PROVE Spec => ResultsAreFinal
<1>1. TypeOK /\ Refers /\ OneSettlement /\ [Next]_vars =>
        [\A r \in Runs : results[r] # {} =>
            results'[r] = results[r] \/ run'[r] = "gone"]_<<results, run>>
  <2>1. SUFFICES ASSUME TypeOK, Refers, OneSettlement, [Next]_vars,
                        ~UNCHANGED <<results, run>>
                 PROVE  \A r \in Runs : results[r] # {} =>
                           results'[r] = results[r] \/ run'[r] = "gone"
    OBVIOUS
  <2>2. Next
    BY <2>1 DEF vars
  <2> QED BY <2>1, <2>2, StepFinal
<1> QED BY <1>1, OneSettlementHolds, PTL DEF Spec, ResultsAreFinal

-----------------------------------------------------------------------------
(* Runs that still have a driver.                                          *)

\* Nobody who knows of a run is lost before someone else knows: the API process
\* stays up, responses are sent, dispatches and failures are recorded.
NothingForgotten == OneAttempt /\ ~Forgets /\ "crash" \notin Faults

\* An active run has a driver, and an attempt that only waits for its
\* acknowledgement has settled the run.
DriversRemain ==
    /\ \A r \in Runs : run[r] \in Active => HasDriver(r)
    /\ \A r \in Runs : Acking(r) => run[r] \notin Active

LEMMA InitRemain == ASSUME Init PROVE DriversRemain
BY DEF Init, DriversRemain, Acking, On, IdleWorker, Active

LEMMA OtherDriversRemain ==
    ASSUME TypeOK, Refers, NothingForgotten, NEW r \in Runs, HasDriver(r),
           \/ Rests /\ HasRow(r)
           \/ \E s \in Sessions : FallsBack(s) \/ Dispatches(s) \/ Schedules(s)
           \/ \E q \in Runs : Start(q) \/ Evaluates(q)
    PROVE  HasDriver(r)'
<1>1. CASE Rests /\ HasRow(r)
  <2>1. \A s \in Sessions : Requesting(s, r) => Requesting(s, r)'
    BY <1>1 DEF Rests, Requesting, NothingForgotten
  <2> QED BY <1>1, <2>1 DEF Rests, HasDriver, Requesting
<1>2. ASSUME NEW s \in Sessions, FallsBack(s) PROVE HasDriver(r)'
  <2>1. \A t \in Sessions : Requesting(t, r) => Requesting(t, r)'
    BY <1>2 DEF FallsBack, Requesting, TypeOK, Request
  <2> QED BY <1>2, <2>1 DEF FallsBack, HasDriver, Requesting
<1>3. ASSUME NEW s \in Sessions, Dispatches(s) \/ Schedules(s) PROVE HasDriver(r)'
  <2>1. \A t \in Sessions \ {s} : req'[t] = req[t]
    BY <1>3 DEF Dispatches, Schedules, Answer, TypeOK
  <2>2. background \subseteq background' /\ UNCHANGED worker
    BY <1>3 DEF Dispatches, Schedules
  <2>3. CASE req[s].run = r
    <3>1. r \in background' \/ flow'[r].stage = "prepare"
      BY <1>3, <2>3 DEF Dispatches, Schedules, Enqueue, TypeOK, Flow
    <3> QED BY <3>1 DEF HasDriver
  <2>4. CASE req[s].run # r
    <3>1. flow'[r] = flow[r]
      BY <1>3, <2>4 DEF Dispatches, Schedules, Enqueue, TypeOK
    <3> QED BY <2>1, <2>2, <2>4, <3>1 DEF HasDriver
  <2> QED BY <2>3, <2>4
<1>4. ASSUME NEW q \in Runs, Start(q) PROVE HasDriver(r)'
  <2>1. PICK w \in Workers, task \in {"sync"} \cup Attempted :
           /\ Begin(w, task, q) /\ UNCHANGED <<req, flow>>
           /\ background' = background \/ (task = "sync" /\
                                           background' = background \ {q})
    BY <1>4 DEF Start, BeginSync, BeginAttempt, Attempted
  <2>2. /\ \A v \in Workers \ {w} : worker'[v] = worker[v]
        /\ worker[w].task = "idle" /\ worker'[w].task = task
        /\ worker'[w].run = q
    BY <2>1, BeginEffect DEF OthersStay, IdleWorker
  <2> QED BY <2>1, <2>2 DEF HasDriver
<1>5. ASSUME NEW q \in Runs, Evaluates(q) PROVE HasDriver(r)'
  <2>1. /\ UNCHANGED <<req, background, worker>>
        /\ flow'[r] = flow[r] \/ flow'[r].stage \in {"persist", "onfail"}
    BY <1>5 DEF Evaluates
  <2> QED BY <2>1 DEF HasDriver
<1> QED BY <1>1, <1>2, <1>3, <1>4, <1>5

\* The executor of r goes on, hands r to the next one, or has settled it.
LEMMA WorkRemains ==
    ASSUME TypeOK, Refers, StepsFit, Exclusive, Current, NothingForgotten,
           DriversRemain, NEW w \in Workers, Works(w)
    PROVE  DriversRemain'
<1>1. PICK r \in Runs : worker[w].run = r
  BY DEF Works, Moves
<1>2. /\ On(w, r) /\ OthersStay(w)
      /\ \A q \in Runs \ {r} : HasDriver(q)' = HasDriver(q)
      /\ \A q \in Runs \ {r} : Acking(q)' = Acking(q)
  BY <1>1, MoveDrivers DEF Works
<1>3. /\ \A q \in Runs \ {r} : run'[q] = run[q]
      /\ \/ UNCHANGED run \/ Marks(w)
         \/ (Completes(w) \/ Fails(w)) /\ run'[r] \in Settled
  BY <1>1, WorkWrites DEF Settled
<1>4. /\ worker[w].task = "sync" => flow[r].stage = "none"
      /\ worker[w].task # "sync" => /\ worker[w].live
                                    /\ flow[r].stage = worker[w].task
                                    /\ worker[w].task \in Attempted
      /\ \A v \in Workers : On(v, r) => v = w
      /\ Fits(worker[w].task, worker[w].step)
  BY <1>2, OnlyDriver DEF StepsFit
<1>5. ASSUME NEW step, Keeps(w, step), UNCHANGED flow PROVE HasDriver(r)'
  BY <1>1, <1>4, <1>5 DEF Keeps, HasDriver, Attempted
<1>6. CASE run'[r] \notin Active
  BY <1>2, <1>3, <1>6 DEF DriversRemain
<1>7. CASE run'[r] \in Active
  <2>1. ~Completes(w) /\ ~Fails(w)
    BY <1>1, <1>7, WorkWrites
  <2>2. ~FindsNoRow(w)
    BY <1>1, <1>7 DEF FindsNoRow, HasRow, Active, db
  <2>3. ~GivesUp(w)
    BY DEF GivesUp, NothingForgotten, Forgets
  <2>4. HasDriver(r)' /\ (~Keeps(w, "ack") \/ worker[w].task = "prepare")
    <3>1. CASE ReadsRow(w) \/ Marks(w) \/ Replaces(w)
      BY <1>5, <3>1 DEF ReadsRow, Marks, Replaces, Keeps
    <3>2. CASE Builds(w)
      BY <1>4, <1>5, <3>2 DEF Builds, Keeps, Fits, Attempted
    <3>3. CASE Raises(w)
      <4>1. CASE worker[w].task = "sync"
        BY <1>5, <3>3, <4>1 DEF Raises, Keeps
      <4>2. CASE worker[w].task # "sync"
        <5>1. /\ flow' = [flow EXCEPT ![r] = Retry(r)] /\ Drops(w)
              /\ worker[w].task \in {"prepare", "persist"}
          BY <1>1, <1>4, <3>3, <4>2 DEF Raises, Fits, Attempted
        <5>2. flow'[r].stage \in {"prepare", "persist", "onfail"}
          BY <1>4, <5>1 DEF Retry, TypeOK, Flow
        <5> QED BY <5>1, <5>2 DEF HasDriver, Keeps, Drops, IdleWorker
      <4> QED BY <4>1, <4>2
    <3>4. CASE Ends(w)
      <4>1. run[r] \in Active
        BY <1>7, <3>4 DEF Ends, db
      <4>2. worker[w].task = "prepare" /\ worker[w].live
        BY <1>2, <1>4, <3>4, <4>1 DEF Ends, Fits, Attempted, Acking, DriversRemain
      <4>3. \/ flow' = [flow EXCEPT ![r] = Advance(r)]
            \/ flow' = [flow EXCEPT ![r] = Retry(r)]
        BY <1>1, <3>4, <4>2 DEF Ends
      <4>4. flow[r] \in Flow /\ flow[r].stage = "prepare"
        BY <1>4, <4>2 DEF TypeOK
      <4>5. Advance(r).stage = "evaluate"
        BY <4>4 DEF Advance, Flow
      <4>6. Retry(r).stage \in {"prepare", "onfail"}
        BY <4>4 DEF Retry, Flow
      <4>7. flow'[r].stage \in {"evaluate", "prepare", "onfail"}
        BY <4>3, <4>5, <4>6 DEF TypeOK
      <4> QED BY <4>2, <4>7 DEF HasDriver
    <3> QED BY <2>1, <2>2, <2>3, <3>1, <3>2, <3>3, <3>4 DEF Works
  <2>5. ~Acking(r)'
    <3>1. SUFFICES ASSUME NEW v \in Workers, On(v, r)', worker'[v].step = "ack",
                          worker'[v].task \in {"persist", "onfail"}
                   PROVE  FALSE
      BY DEF Acking
    <3>2. v = w
      BY <1>2, <1>4, <3>1 DEF OthersStay, On
    <3>3. Keeps(w, "ack")
      BY <3>1, <3>2 DEF Works, Moves, Keeps, Drops, IdleWorker
    <3> QED BY <2>4, <3>1, <3>2, <3>3 DEF Keeps
  <2> QED BY <1>2, <1>3, <2>4, <2>5 DEF DriversRemain
<1> QED BY <1>6, <1>7

LEMMA StepRemain ==
    ASSUME TypeOK, Refers, StepsFit, Exclusive, Current, NothingForgotten,
           DriversRemain, Next
    PROVE  DriversRemain'
<1>1. CASE Rests
  <2>1. \A r \in Runs : run'[r] = run[r] \/ run'[r] = "gone"
    BY <1>1 DEF Rests
  <2>2. \A r \in Runs : run'[r] \in Active => run[r] \in Active /\ HasRow(r)
    BY <2>1 DEF Active, HasRow
  <2> QED BY <1>1, <2>2, OtherDrivers, OtherDriversRemain DEF DriversRemain
<1>2. CASE \/ \E s \in Sessions : FallsBack(s) \/ Dispatches(s) \/ Schedules(s)
           \/ \E r \in Runs : Start(r) \/ Evaluates(r)
  <2>1. UNCHANGED run
    BY <1>2 DEF FallsBack, Dispatches, Schedules, Start, BeginSync,
         BeginAttempt, Evaluates, db
  <2> QED BY <1>2, <2>1, OtherDrivers, OtherDriversRemain DEF DriversRemain
<1>3. ~Crash
  BY DEF Crash, Inject, NothingForgotten
<1>4. ASSUME NEW s \in Sessions, CommitStart(s) PROVE DriversRemain'
  <2>1. PICK r \in Runs : /\ run[r] = "none"
                          /\ run' = [run EXCEPT ![r] = "queued"]
                          /\ req'[s].run = r
                          /\ req'[s].op \in {"dispatch", "reply"}
                          /\ \A t \in Sessions \ {s} : req'[t] = req[t]
                          /\ UNCHANGED <<background, flow, worker>>
    BY <1>4, StartEffect
  <2>2. \A q \in Runs : Acking(q)' = Acking(q)
    BY <2>1 DEF Acking, On
  <2>3. ~Acking(r) /\ HasDriver(r)'
    BY <2>1, FreshRun DEF Acking, HasDriver
  <2>4. ASSUME NEW q \in Runs \ {r}, HasDriver(q) PROVE HasDriver(q)'
    <3>1. ~(req[s].op \in {"dispatch", "reply"})
      BY <1>4 DEF CommitStart
    <3> QED BY <2>1, <2>4, <3>1 DEF HasDriver
  <2>5. \A q \in Runs \ {r} : run'[q] = run[q]
    BY <2>1 DEF TypeOK
  <2> QED BY <2>2, <2>3, <2>4, <2>5 DEF DriversRemain
<1> QED BY <1>1, <1>2, <1>3, <1>4, WorkRemains, EveryStepWorks
        DEF NothingForgotten

\* Unless the API process restarts, a response or a record of a dispatch or a
\* failure is lost, or an attempt times out, an application that shows
\* "underwriting" has an active run that something will still execute: a request
\* in flight, a scheduled or running task, or an open workflow.
THEOREM UnderwritingIsDrivenHolds ==
    ASSUME NothingForgotten PROVE Spec => []UnderwritingIsDriven
<1> DEFINE IInv == TypeOK /\ Refers /\ OneExecutor /\ DriversRemain
<1>1. Init => IInv
  BY InitTyped, InitStepsFit, InitExclusive, InitCurrent, InitRemain
     DEF OneExecutor
<1>2. IInv /\ [Next]_vars => IInv'
  <2>1. SUFFICES ASSUME IInv, [Next]_vars PROVE DriversRemain'
    BY StepTyped, StepOneExecutor DEF NothingForgotten
  <2>2. CASE UNCHANGED vars
    BY <2>1, <2>2 DEF vars, DriversRemain, HasDriver, Acking, On
  <2> QED BY <2>1, <2>2, StepRemain DEF OneExecutor
<1>3. IInv /\ UnderwritingHasActiveRun => UnderwritingIsDriven
  BY DEF DriversRemain, UnderwritingHasActiveRun, UnderwritingIsDriven
<1> QED BY <1>1, <1>2, <1>3, UnderwritingHasActiveRunHolds, PTL DEF Spec

-----------------------------------------------------------------------------
(* Underwriting implements RunLifecycle.                                   *)

\* The API serves one request at a time.
OneRequest == \A s, t \in Sessions : s = t

\* A run is marked as running before anything is computed for it.
MarkedBeforeUse ==
    /\ \A w \in Workers :
          \/ worker[w].step \in {"build", "read", "replace", "commit"}
          \/ worker[w].task = "prepare" /\ worker[w].step = "ack"
          => run[worker[w].run] = "running"
    /\ \A r \in Runs : flow[r].stage = "evaluate" => run[r] = "running"
    /\ \A r \in Runs : flow[r].stage = "persist" =>
          run[r] = "running" \/ Acking(r)

\* What a request or a task has read of an application is still true when it
\* commits; in particular nobody deletes an application that has a run.
ReadsHold ==
    /\ \A s \in Sessions :
          /\ req[s].op \in {"update", "delete", "submit"} =>
                app[req[s].app] = "draft"
          /\ req[s].op = "start" => app[req[s].app] \in {"submitted", "completed"}
    /\ \A r \in Runs : run[r] # "gone"
    /\ \A r \in Runs : run[r] \in Active => app[owner[r]] = "underwriting"
    /\ \A w \in Workers : worker[w].step \in Holding =>
          worker[w].app = "underwriting"

Sequential == MarkedBeforeUse /\ ReadsHold

LEMMA InitSequential == ASSUME Init PROVE Sequential
BY DEF Init, Sequential, MarkedBeforeUse, ReadsHold, IdleRequest, IdleWorker,
       Active, Holding

\* The runs of the steps that no worker makes.
LEMMA OtherMarked ==
    ASSUME TypeOK, Refers, StepsFit, Exclusive, MarkedBeforeUse, ReadsHold,
           (\A r \in Runs : run[r] # "gone")',
           \/ Rests \/ Crash
           \/ \E s \in Sessions : \/ CommitStart(s) \/ FallsBack(s)
                                  \/ Dispatches(s) \/ Schedules(s)
           \/ \E q \in Runs : Start(q) \/ Evaluates(q)
    PROVE  MarkedBeforeUse'
<1> DEFINE Using(w) ==
             \/ worker[w].step \in {"build", "read", "replace", "commit"}
             \/ worker[w].task = "prepare" /\ worker[w].step = "ack"
<1>1. \A w \in Workers : Using(w) => worker[w].run \in Runs
  BY Executing
<1>2. CASE Rests
  <2>1. \A r \in Runs : run'[r] = run[r] /\ Acking(r)' = Acking(r)
    BY <1>2, OtherDrivers DEF Rests
  <2> QED BY <1>1, <1>2, <2>1 DEF Rests, MarkedBeforeUse
<1>3. CASE Crash
  <2>1. \A r \in Runs : run'[r] = run[r] /\ Acking(r)' = Acking(r)
    BY <1>3, OtherDrivers DEF Crash, db
  <2>2. UNCHANGED flow /\ \A v \in Workers : worker'[v] \in {worker[v], IdleWorker}
    BY <1>3 DEF Crash
  <2> QED BY <1>1, <2>1, <2>2 DEF MarkedBeforeUse, IdleWorker
<1>4. ASSUME NEW s \in Sessions, CommitStart(s) PROVE MarkedBeforeUse'
  <2>1. PICK r \in Runs : /\ run[r] = "none"
                          /\ run' = [run EXCEPT ![r] = "queued"]
                          /\ UNCHANGED <<flow, worker>>
    BY <1>4, StartEffect
  <2>2. \A q \in Runs : /\ Acking(q)' = Acking(q)
                        /\ run[q] = "running" => run'[q] = "running"
    BY <2>1 DEF Acking, On, TypeOK
  <2> QED BY <1>1, <2>1, <2>2 DEF MarkedBeforeUse
<1>5. ASSUME NEW s \in Sessions, FallsBack(s) \/ Dispatches(s) \/ Schedules(s)
      PROVE  MarkedBeforeUse'
  <2>1. /\ \A q \in Runs : Acking(q)' = Acking(q)
        /\ UNCHANGED <<run, worker>>
    BY <1>5, OtherDrivers DEF FallsBack, Dispatches, Schedules, db
  <2>2. \A q \in Runs : flow'[q].stage \in {flow[q].stage, "prepare"}
    BY <1>5 DEF FallsBack, Dispatches, Schedules, Enqueue, TypeOK, Flow
  <2> QED BY <1>1, <2>1, <2>2 DEF MarkedBeforeUse
<1>6. ASSUME NEW r \in Runs, Start(r) PROVE MarkedBeforeUse'
  <2>1. PICK w \in Workers, task \in {"sync"} \cup Attempted :
           /\ Begin(w, task, r) /\ UNCHANGED <<run, flow>>
           /\ task = "sync" \/
                /\ task = flow[r].stage
                /\ ~\E v \in Workers : /\ worker[v].live
                                       /\ worker[v].run = r
                                       /\ worker[v].task = flow[r].stage
    BY <1>6 DEF Start, BeginSync, BeginAttempt, Attempted, db
  <2>2. /\ \A v \in Workers \ {w} : worker'[v] = worker[v]
        /\ worker'[w].step = FirstStep(task) /\ worker'[w].run = r
        /\ worker'[w].task = task
    BY <2>1, BeginEffect DEF OthersStay
  <2>3. \A q \in Runs : Acking(q)' = Acking(q)
    BY <1>6, OtherDrivers
  <2>4. worker'[w].step = "read" => run[r] = "running"
    <3>1. SUFFICES ASSUME task = "persist" PROVE ~Acking(r)
      BY <2>1, <2>2 DEF FirstStep, Attempted, MarkedBeforeUse
    <3>2. \A v \in Workers : ~On(v, r)
      BY <2>1, <3>1 DEF Exclusive, On
    <3> QED BY <3>2 DEF Acking
  <2>5. worker'[w].step \in {"mark", "read", "fail"}
    BY <2>2 DEF FirstStep
  <2> QED BY <1>1, <2>1, <2>2, <2>3, <2>4, <2>5 DEF MarkedBeforeUse
<1>7. ASSUME NEW r \in Runs, Evaluates(r) PROVE MarkedBeforeUse'
  <2>1. /\ \A q \in Runs : Acking(q)' = Acking(q)
        /\ UNCHANGED <<run, worker>>
        /\ \A q \in Runs \ {r} : flow'[q] = flow[q]
        /\ flow[r].stage = "evaluate" /\ flow'[r].stage \in {"persist", "onfail"}
    BY <1>7, OtherDrivers DEF Evaluates, db
  <2> QED BY <1>1, <2>1 DEF MarkedBeforeUse
<1> QED BY <1>2, <1>3, <1>4, <1>5, <1>6, <1>7

LEMMA WorkMarked ==
    ASSUME TypeOK, Refers, StepsFit, Exclusive, Current, NothingRepeats,
           MarkedBeforeUse, ReadsHold, NEW w \in Workers, Works(w)
    PROVE  MarkedBeforeUse'
<1>1. PICK r \in Runs : worker[w].run = r
  BY DEF Works, Moves
<1>2. /\ On(w, r) /\ OthersStay(w)
      /\ \A q \in Runs \ {r} : Acking(q)' = Acking(q)
      /\ \A q \in Runs \ {r} : run'[q] = run[q]
      /\ \A q \in Runs \ {r} : flow'[q] = flow[q]
  BY <1>1, MoveDrivers, WorkWrites, StagesMove DEF Works, Moves
<1>3. /\ worker[w].task = "sync" => flow[r].stage = "none"
      /\ worker[w].task # "sync" => /\ worker[w].live
                                    /\ flow[r].stage = worker[w].task
                                    /\ worker[w].task \in Attempted
      /\ \A v \in Workers : On(v, r) => v = w
      /\ Fits(worker[w].task, worker[w].step)
  BY <1>2, OnlyDriver DEF StepsFit
<1>4. ASSUME NEW v \in Workers \ {w},
             \/ worker'[v].step \in {"build", "read", "replace", "commit"}
             \/ worker'[v].task = "prepare" /\ worker'[v].step = "ack"
      PROVE  run'[worker'[v].run] = "running"
  <2>1. worker'[v] = worker[v]
    BY <1>2 DEF OthersStay
  <2>2. worker[v].run \in Runs /\ worker[v].run # r
    BY <1>3, <1>4, <2>1, Executing DEF StepsFit, Fits, On
  <2> QED BY <1>2, <1>4, <2>1, <2>2 DEF MarkedBeforeUse
<1>5. /\ worker[w].step \in {"build", "read", "replace", "commit"} \/
           (worker[w].task = "prepare" /\ worker[w].step = "ack")
         => run[r] = "running"
      /\ flow[r].stage = "evaluate" => run[r] = "running"
  BY <1>1 DEF MarkedBeforeUse
<1> DEFINE UsedOK ==
             \/ worker'[w].step \in {"build", "read", "replace", "commit"}
             \/ worker'[w].task = "prepare" /\ worker'[w].step = "ack"
             => run'[r] = "running"
           StageOK ==
             /\ flow'[r].stage # "evaluate" \/ run'[r] = "running"
             /\ flow'[r].stage # "persist" \/ run'[r] = "running" \/ Acking(r)'
<1>6. SUFFICES UsedOK /\ StageOK
  <2>1. worker'[w].step = "idle" \/ worker'[w].run = r
    BY <1>1 DEF Works, Moves, Keeps, Drops, IdleWorker
  <2> QED BY <1>2, <1>4, <1>6, <2>1 DEF MarkedBeforeUse, Drops, IdleWorker
<1>7. CASE ReadsRow(w) \/ Builds(w) \/ Replaces(w)
  BY <1>3, <1>5, <1>7 DEF ReadsRow, Builds, Replaces, Keeps, db, Fits, Attempted
<1>8. CASE Marks(w)
  <2>1. run'[r] = "running"
    BY <1>1, <1>8 DEF Marks, Write, Current, Holding, ReadsHold, TypeOK
  <2> QED BY <2>1
<1>9. CASE Completes(w) \/ Fails(w) \/ FindsNoRow(w)
  <2>1. UNCHANGED flow /\ Returns(w)
        /\ worker[w].step \in {"commit", "fail", "failing"}
    BY <1>9 DEF Completes, Fails, FindsNoRow
  <2>2. worker[w].task \in {"sync", "persist", "onfail"}
    BY <1>3, <2>1 DEF Fits, Attempted
  <2>3. CASE worker[w].task = "sync"
    BY <1>3, <2>1, <2>3 DEF Returns, Drops, IdleWorker
  <2>4. CASE worker[w].task # "sync"
    <3>1. Keeps(w, "ack")
      BY <2>1, <2>4 DEF Returns
    <3>2. Acking(r)'
      BY <1>1, <2>2, <2>4, <3>1 DEF Keeps, Acking, On
    <3> QED BY <1>3, <2>1, <2>2, <2>4, <3>1, <3>2 DEF Keeps
  <2> QED BY <2>3, <2>4
<1>10. CASE Raises(w)
  <2>1. CASE worker[w].task = "sync"
    BY <1>3, <1>10, <2>1 DEF Raises, Keeps
  <2>2. CASE worker[w].task # "sync"
    <3>1. /\ flow' = [flow EXCEPT ![r] = Retry(r)] /\ Drops(w) /\ UNCHANGED run
          /\ worker[w].task = "prepare" \/
               (worker[w].task = "persist" /\ run[r] = "running")
      BY <1>1, <1>3, <1>5, <1>10, <2>2 DEF Raises, db, Fits, Attempted
    <3>2. flow[r] \in Flow
      BY DEF TypeOK
    <3>3. Retry(r).stage \in {flow[r].stage, "onfail", "failed"}
      BY <3>2 DEF Retry, Flow
    <3>4. flow'[r].stage \in {flow[r].stage, "onfail", "failed"}
      BY <3>1, <3>3 DEF TypeOK
    <3> QED BY <1>3, <2>2, <3>1, <3>4 DEF Drops, IdleWorker
  <2> QED BY <2>1, <2>2
<1>11. CASE Ends(w)
  <2>1. /\ worker[w].task # "sync" /\ UNCHANGED run /\ Drops(w)
        /\ flow' = [flow EXCEPT ![r] = Advance(r)]
    BY <1>1, <1>3, <1>11 DEF Ends, Fits, NothingRepeats, db
  <2>2. flow[r] \in Flow /\ flow[r].stage = worker[w].task
    BY <1>3, <2>1 DEF TypeOK
  <2>3. Advance(r).stage \in {"evaluate", "succeeded", "failed"}
        /\ (Advance(r).stage = "evaluate" => worker[w].task = "prepare")
    BY <2>2 DEF Advance, Flow
  <2>4. /\ flow'[r].stage \in {"evaluate", "succeeded", "failed"}
        /\ flow'[r].stage = "evaluate" => worker[w].task = "prepare"
    BY <2>1, <2>3 DEF TypeOK
  <2> QED BY <1>5, <1>11, <2>1, <2>4 DEF Ends, Drops, IdleWorker
<1>12. CASE GivesUp(w)
  <2>1. /\ worker[w].task \in {"sync", "onfail"} /\ Drops(w) /\ UNCHANGED run
        /\ flow' = IF worker[w].task = "onfail"
                   THEN [flow EXCEPT ![r] = Retry(r)] ELSE flow
    BY <1>1, <1>3, <1>12 DEF GivesUp, db, Fits, Attempted
  <2>2. flow'[r].stage \in {"none", "failed"}
    BY <1>3, <2>1 DEF Retry, TypeOK, Flow
  <2> QED BY <2>1, <2>2 DEF Drops, IdleWorker
<1> QED BY <1>7, <1>8, <1>9, <1>10, <1>11, <1>12 DEF Works

LEMMA ReadsKept ==
    ASSUME ReadsHold, UNCHANGED <<app, owner>>,
           \A r \in Runs : /\ run'[r] # "gone"
                           /\ run'[r] \in Active => run[r] \in Active,
           \A s \in Sessions : req'[s].op \in {"update", "delete", "submit", "start"}
                                  => req'[s] = req[s],
           \A w \in Workers : worker'[w].step \in Holding =>
                                 worker'[w].app = "underwriting"
    PROVE  ReadsHold'
BY DEF ReadsHold

\* What the API does to an application, with nobody else on its mind.
Edits ==
    \/ \E a \in Apps : CreateApplication(a)
    \/ \E source, a \in Apps : DuplicateApplication(source, a)
    \/ \E s \in Sessions : CommitSubmit(s) \/ CommitDelete(s)

LEMMA EditsApp ==
    ASSUME TypeOK, Refers, Inductive, OneRequest, ReadsHold, Edits
    PROVE  /\ \E a \in Apps :
                \/ app[a] = "absent" /\ app' = [app EXCEPT ![a] = "draft"]
                \/ app[a] = "draft" /\ app' = [app EXCEPT ![a] = "submitted"]
                \/ app[a] = "draft" /\ app' = [app EXCEPT ![a] = "deleted"]
           /\ UNCHANGED <<run, owner, results, worker>>
           /\ \/ \E a \in Apps : /\ app[a] = "absent" /\ UNCHANGED req
                                 /\ app' = [app EXCEPT ![a] = "draft"]
              \/ \A s \in Sessions : req'[s].op = "idle"
<1>1. CASE \/ \E a \in Apps : CreateApplication(a)
           \/ \E source, a \in Apps : DuplicateApplication(source, a)
  BY <1>1 DEF CreateApplication, DuplicateApplication
<1>2. ASSUME NEW s \in Sessions, Answer(s)
      PROVE  \A t \in Sessions : req'[t].op = "idle"
  BY <1>2 DEF Answer, OneRequest, TypeOK, IdleRequest
<1>3. ASSUME NEW s \in Sessions, CommitSubmit(s)
      PROVE  /\ req[s].app \in Apps /\ app[req[s].app] = "draft"
             /\ app' = [app EXCEPT ![req[s].app] = "submitted"]
             /\ UNCHANGED <<run, owner, results, worker>> /\ Answer(s)
  BY <1>3 DEF CommitSubmit, ReadsHold, Refers, RequestsRefer
<1>4. ASSUME NEW s \in Sessions, CommitDelete(s)
      PROVE  /\ req[s].app \in Apps /\ app[req[s].app] = "draft"
             /\ app' = [app EXCEPT ![req[s].app] = "deleted"]
             /\ UNCHANGED <<run, owner, results, worker>> /\ Answer(s)
  <2> DEFINE a == req[s].app
  <2>1. a \in Apps /\ app[a] = "draft"
    BY <1>4 DEF CommitDelete, ReadsHold, Refers, RequestsRefer
  <2>2. ASSUME NEW r \in Runs PROVE owner[r] # a
    <3>1. HasRow(r) => app[owner[r]] # "draft"
      BY DEF Inductive, RunMeansLeftDraft
    <3>2. run[r] = "none" => owner[r] = NoApp
      BY DEF Refers, RunsRefer
    <3> QED BY <2>1, <3>1, <3>2, ConstantsAssumption DEF HasRow, ReadsHold
  <2>3. /\ run' = [r \in Runs |-> run[r]]
        /\ results' = [r \in Runs |-> results[r]]
    BY <1>4, <2>2 DEF CommitDelete
  <2>4. UNCHANGED <<run, results>>
    BY <2>3 DEF TypeOK
  <2> QED BY <1>4, <2>1, <2>4 DEF CommitDelete
<1> QED BY <1>1, <1>2, <1>3, <1>4 DEF Edits

LEMMA EditsReads ==
    ASSUME TypeOK, Refers, Inductive, OneRequest, ReadsHold, Edits
    PROVE  ReadsHold'
<1>1. PICK a \in Apps :
        \/ app[a] = "absent" /\ app' = [app EXCEPT ![a] = "draft"]
        \/ app[a] = "draft" /\ app' = [app EXCEPT ![a] = "submitted"]
        \/ app[a] = "draft" /\ app' = [app EXCEPT ![a] = "deleted"]
  BY EditsApp
<1>2. UNCHANGED <<run, owner, worker>>
  BY EditsApp
<1>3. \A r \in Runs : run[r] \in Active => owner[r] # a /\ owner[r] \in Apps
  BY <1>1 DEF ReadsHold, Refers, RunsRefer, Active
<1>4. \A r \in Runs : run[r] \in Active => app'[owner[r]] = "underwriting"
  BY <1>1, <1>3 DEF ReadsHold, TypeOK
<1>5. (\A s \in Sessions :
          /\ req[s].op \in {"update", "delete", "submit"} =>
                app[req[s].app] = "draft"
          /\ req[s].op = "start" =>
                app[req[s].app] \in {"submitted", "completed"})'
  <2>1. CASE \A s \in Sessions : req'[s].op = "idle"
    BY <2>1
  <2>2. CASE \E b \in Apps : /\ app[b] = "absent" /\ UNCHANGED req
                             /\ app' = [app EXCEPT ![b] = "draft"]
    BY <2>2 DEF ReadsHold, Refers, RequestsRefer, TypeOK
  <2> QED BY <2>1, <2>2, EditsApp
<1> QED BY <1>2, <1>4, <1>5 DEF ReadsHold

LEMMA StartReads ==
    ASSUME TypeOK, Refers, Inductive, OneRequest, ReadsHold, NEW s \in Sessions,
           CommitStart(s)
    PROVE  /\ ReadsHold'
           /\ \E a \in Apps, r \in Runs : Lifecycle!Queue(a, r)
<1>1. PICK r \in Runs :
        /\ InsertRun(req[s].app, r)
        /\ req'[s].op \in {"dispatch", "reply"}
  BY StartEffect, ConstantsAssumption DEF CommitStart, TypeOK, Request
<1>2. PICK a \in Apps : req[s].app = a /\ app[a] \in {"submitted", "completed"}
  BY DEF CommitStart, Refers, RequestsRefer, ReadsHold
<1>3. /\ run[r] = "none" /\ run' = [run EXCEPT ![r] = "queued"]
      /\ owner' = [owner EXCEPT ![r] = a]
      /\ app' = [app EXCEPT ![a] = "underwriting"]
      /\ UNCHANGED <<results, worker>>
  BY <1>1, <1>2 DEF InsertRun, CommitStart
<1>4. \A q \in Runs : run[q] \in Active => owner[q] # a
  BY <1>2 DEF ReadsHold
<1>5. \A q \in Runs : run'[q] # "gone" /\
         (run'[q] \in Active => app'[owner'[q]] = "underwriting")
  BY <1>3, <1>4 DEF ReadsHold, TypeOK, Refers, RunsRefer, Active
<1>6. \A t \in Sessions : req'[t].op \notin {"update", "delete", "submit", "start"}
  BY <1>1 DEF OneRequest
<1>7. ReadsHold'
  BY <1>3, <1>5, <1>6 DEF ReadsHold
<1>8. Lifecycle!Queue(a, r)
  BY <1>2, <1>3 DEF Lifecycle!Queue
<1> QED BY <1>7, <1>8

\* A step that no run and no application notices.
Unseen == UNCHANGED <<app, run, owner, results>>

LEMMA UnseenReads ==
    ASSUME TypeOK, Refers, ReadsHold, StepsFit, OneAttempt, Next, ~Edits,
           \A s \in Sessions : ~CommitStart(s),
           \A w \in Workers : ~Works(w)
    PROVE  ReadsHold' /\ Unseen
<1> USE DEF Unseen
<1>1. ASSUME UNCHANGED <<app, run, owner, results, worker>>,
             \A s \in Sessions : req'[s].op \in {"update", "delete", "submit",
                                                 "start"} => req'[s] = req[s]
      PROVE  ReadsHold' /\ Unseen
  BY <1>1, ReadsKept DEF ReadsHold
<1>2. CASE Client
  <2>1. PICK s \in Sessions, a \in Apps,
             op \in {"update", "delete", "submit", "start"} : Load(s, op, a)
    BY <1>2 DEF Client, Edits
  <2>2. UNCHANGED <<db, worker>> /\ Admits(op, a)
        /\ req' = [req EXCEPT ![s] = [op |-> op, app |-> a, run |-> NoRun]]
    BY <2>1 DEF Load
  <2>3. /\ req'[s].op = op /\ req'[s].app = a
        /\ \A t \in Sessions \ {s} : req'[t] = req[t]
    BY <2>2 DEF TypeOK
  <2>4. /\ op \in {"update", "delete", "submit"} => app[a] = "draft"
        /\ op = "start" => app[a] \in {"submitted", "completed"}
    BY <2>2 DEF Admits
  <2> QED BY <2>2, <2>3, <2>4 DEF db, ReadsHold
<1>3. ASSUME NEW s \in Sessions, Handler(s) \/ Mishap(s)
      PROVE  ReadsHold' /\ Unseen
  <2>1. UNCHANGED <<app, run, owner, results, worker>>
    BY <1>3 DEF Handler, Mishap, Edits, AnswerStale, CommitUpdate,
         AnswerConflict, DispatchAccepted, Reply, DispatchUnreachable,
         DispatchAmbiguous, FallBack, DispatchUnrecorded, ReplyFails, db
  <2>2. \/ Answer(s)
        \/ req[s].op = "dispatch" /\ req' = [req EXCEPT ![s].op = "reply"]
    BY <1>3 DEF Handler, Mishap, Edits, AnswerStale, CommitUpdate,
         AnswerConflict, DispatchAccepted, Reply, DispatchUnreachable,
         DispatchAmbiguous, FallBack, DispatchUnrecorded, ReplyFails
  <2>3. \A t \in Sessions : req'[t].op \in {"update", "delete", "submit",
                                            "start"} => req'[t] = req[t]
    BY <2>2 DEF Answer, IdleRequest, TypeOK, Request
  <2> QED BY <1>1, <2>1, <2>3
<1>4. ASSUME NEW r \in Runs,
             Start(r) \/ EvaluateLenders(r) \/ EvaluateLendersFails(r)
      PROVE  ReadsHold' /\ Unseen
  <2>1. UNCHANGED <<app, run, owner, results, req>>
    BY <1>4 DEF Start, BeginSync, BeginAttempt, EvaluateLenders,
         EvaluateLendersFails, db
  <2>2. \A v \in Workers : worker'[v].step \in Holding => worker'[v] = worker[v]
    <3>1. CASE UNCHANGED worker
      BY <3>1
    <3>2. CASE Start(r)
      <4>1. PICK w \in Workers, task \in {"sync"} \cup Attempted :
                   Begin(w, task, r)
        BY <3>2 DEF Start, BeginSync, BeginAttempt
      <4> QED BY <4>1, BeginEffect DEF OthersStay, FirstStep, Holding
    <3> QED BY <1>4, <3>1, <3>2 DEF EvaluateLenders, EvaluateLendersFails
  <2> QED BY <2>1, <2>2, ReadsKept DEF ReadsHold
<1>5. ASSUME NEW w \in Workers,
             \/ TaskStep(w) \/ TaskError(w) \/ FailureUnrecorded(w)
             \/ AcknowledgementLost(w) \/ Overrun(w)
      PROVE  FALSE
  BY <1>5, TaskMoves, TaskCases DEF Works, Overrun, Inject, OneAttempt
<1>6. CASE Crash
  <2>1. /\ UNCHANGED <<app, run, owner, results>>
        /\ \A s \in Sessions : req'[s].op = "idle"
        /\ \A v \in Workers : worker'[v] \in {worker[v], IdleWorker}
    BY <1>6 DEF Crash, db, IdleRequest
  <2>2. \A v \in Workers : worker'[v].step \in Holding => worker'[v] = worker[v]
    BY <2>1 DEF IdleWorker, Holding
  <2> QED BY <2>1, <2>2, ReadsKept DEF ReadsHold
<1> QED BY <1>2, <1>3, <1>4, <1>5, <1>6, StepCases

\* The executor of a run begins, completes or fails it.
LEMMA WorkReads ==
    ASSUME TypeOK, Refers, Inductive, OneSettlement, Sequential,
           NEW w \in Workers, Works(w)
    PROVE  /\ ReadsHold'
           /\ \/ Unseen
              \/ \E r \in Runs : \/ Lifecycle!Begin(r) \/ Lifecycle!Complete(r)
                                 \/ Lifecycle!Fail(r)
<1> USE DEF OneSettlement, OneExecutor, Sequential
<1>1. PICK r \in Runs : worker[w].run = r
  BY DEF Works, Moves
<1>2. PICK a \in Apps : owner[r] = a
  BY <1>1, Executing DEF Works, Moves
<1>3. /\ OthersStay(w) /\ On(w, r) /\ UNCHANGED <<req, owner>>
  BY <1>1, MoveDrivers DEF Works, Moves, Raises, ReadsRow, FindsNoRow, Marks,
       Builds, Replaces, Completes, Fails, Ends, GivesUp, db
<1>4. worker[w].step # "ack" => run[r] \in Active /\ app[a] = "underwriting"
  BY <1>2, <1>3, ExecutedIsUnsettled DEF Unsettled, ReadsHold
<1>5. worker[w].step \in Holding => /\ run[r] = worker[w].st
                                    /\ worker[w].app = "underwriting"
  BY <1>1 DEF Current, ReadsHold
<1>6. \A v \in Workers : worker'[v].step \in Holding =>
                            worker'[v].app = "underwriting"
  <2>1. worker'[w].step \in Holding => worker'[w].app = "underwriting"
    BY <1>1, <1>2, <1>4, <1>5
       DEF Works, Raises, ReadsRow, FindsNoRow, Marks, Builds, Replaces,
           Completes, Fails, Ends, GivesUp, Returns, Keeps, Drops, Reads,
           Holds, Holding, IdleWorker
  <2> QED BY <1>3, <2>1 DEF OthersStay, ReadsHold
<1>7. CASE Unseen
  BY <1>3, <1>6, <1>7, ReadsKept DEF Unseen, ReadsHold
<1>8. CASE Marks(w) /\ ~Unseen
  <2>1. /\ run' = [run EXCEPT ![r] = "running"] /\ worker[w].st # "running"
        /\ UNCHANGED <<app, owner, results>>
    BY <1>1, <1>8 DEF Marks, Write, Unseen, TypeOK
  <2>2. run[r] = "queued"
    BY <1>4, <1>5, <1>8, <2>1 DEF Marks, Holding, Active
  <2>3. Lifecycle!Begin(r)
    BY <2>1, <2>2 DEF Lifecycle!Begin
  <2>4. ReadsHold'
    BY <1>3, <1>6, <2>1, <2>2, ReadsKept DEF ReadsHold, TypeOK, Active
  <2> QED BY <2>3, <2>4
<1>9. ASSUME NEW status \in Settled, NEW shown \in {"completed", "submitted"},
             run[r] \in Active, app[a] = "underwriting",
             run' = [run EXCEPT ![r] = status], app' = [app EXCEPT ![a] = shown]
      PROVE  ReadsHold'
  <2>1. \A q \in Runs : run'[q] \in Active => /\ run[q] \in Active
                                              /\ owner[q] # a
    BY <1>2, <1>9 DEF Inductive, OneActiveRun, TypeOK, Settled, Active
  <2>2. \A q \in Runs : run'[q] # "gone" /\
          (run'[q] \in Active => app'[owner[q]] = "underwriting")
    BY <1>9, <2>1 DEF ReadsHold, TypeOK, Settled, Refers, RunsRefer, Active
  <2>3. \A s \in Sessions : req[s].op \in {"update", "delete", "submit", "start"}
                               => app'[req[s].app] = app[req[s].app]
    BY <1>9 DEF ReadsHold, TypeOK
  <2> QED BY <1>3, <1>6, <2>2, <2>3 DEF ReadsHold
<1>10. CASE Completes(w)
  <2>1. /\ worker[w].st # "completed" /\ worker[w].app # "completed"
        /\ run[r] \in Active /\ app[a] = "underwriting"
    BY <1>4, <1>5, <1>10 DEF Completes, Holding, Active
  <2>2. /\ run' = [run EXCEPT ![r] = "completed"]
        /\ app' = [app EXCEPT ![a] = "completed"]
    BY <1>1, <1>2, <1>10, <2>1 DEF Completes, Write
  <2>3. run[r] = "running"
    BY <1>1, <1>10 DEF Completes, MarkedBeforeUse
  <2>4. /\ results'[r] # {} /\ \A q \in Runs \ {r} : results'[q] = results[q]
    <3>1. worker[w].rows
      BY <1>10 DEF Completes, Inductive, CommitHasRows
    <3> QED BY <1>1, <1>10, <3>1 DEF Completes, Inserted, TypeOK
  <2>5. [q \in Runs |-> results'[q] # {}] =
        [[q \in Runs |-> results[q] # {}] EXCEPT ![r] = TRUE]
    BY <2>4
  <2>6. Lifecycle!Complete(r)
    BY <1>2, <1>3, <2>1, <2>2, <2>3, <2>5
       DEF Lifecycle!Complete, Lifecycle!Settle
  <2> QED BY <1>9, <2>1, <2>2, <2>6 DEF Settled
<1>11. CASE Fails(w)
  <2>1. /\ worker[w].st # "failed" /\ worker[w].app # "submitted"
        /\ run[r] \in Active /\ app[a] = "underwriting" /\ HasRow(r)
    BY <1>4, <1>5, <1>11 DEF Fails, Holding, Active, HasRow
  <2>2. /\ run' = [run EXCEPT ![r] = "failed"]
        /\ app' = [app EXCEPT ![a] = "submitted"]
        /\ UNCHANGED results
    BY <1>1, <1>2, <1>11, <2>1 DEF Fails, Write
  <2>3. Lifecycle!Fail(r)
    BY <1>2, <1>3, <2>1, <2>2
       DEF Lifecycle!Fail, Lifecycle!Settle, Lifecycle!Active, Active
  <2> QED BY <1>9, <2>1, <2>2, <2>3 DEF Settled
<1> QED BY <1>3, <1>7, <1>8, <1>10, <1>11
        DEF Works, Raises, ReadsRow, FindsNoRow, Builds, Replaces, Ends, GivesUp,
            Unseen, db

LEMMA StepSequential ==
    ASSUME TypeOK, Refers, Inductive, OneSettlement, Sequential, NothingRepeats,
           OneRequest, [Next]_vars
    PROVE  Sequential'
<1> USE DEF OneSettlement, OneExecutor, Sequential, NothingRepeats
<1>1. CASE UNCHANGED vars
  BY <1>1 DEF vars, MarkedBeforeUse, ReadsHold, Acking, On
<1>2. CASE Next
  <2>1. CASE \E w \in Workers : Works(w)
    BY <2>1, WorkReads, WorkMarked
  <2>2. CASE \A w \in Workers : ~Works(w)
    <3>1. ReadsHold'
      BY <1>2, <2>2, EditsReads, StartReads, UnseenReads
    <3>2. (\A r \in Runs : run[r] # "gone")'
      BY <3>1 DEF ReadsHold
    <3>3. MarkedBeforeUse'
      BY <1>2, <2>2, <3>2, EveryStepWorks, OtherMarked
    <3> QED BY <3>1, <3>3
  <2> QED BY <2>1, <2>2
<1> QED BY <1>1, <1>2

\* If no answer is lost on the way and the API serves one request at a time,
\* runs and applications move as RunLifecycle promises, whichever driver works:
\* a run is begun before it completes, settles once, and its application shows
\* "underwriting" until that very commit.
THEOREM RunsFollowLifecycleHolds ==
    ASSUME NothingRepeats, OneRequest PROVE Spec => RunsFollowLifecycle
<1>1. Init => Sequential
  BY InitSequential
<1>2. TypeOK /\ Refers /\ Inductive /\ OneSettlement /\ Sequential /\ [Next]_vars
        => Sequential'
  BY StepSequential
<1>3. Init => Lifecycle!Init
  BY DEF Init, Lifecycle!Init
<1>4. TypeOK /\ Refers /\ Inductive /\ OneSettlement /\ Sequential /\ [Next]_vars
        => [Lifecycle!Next]_(Lifecycle!vars)
  <2>1. SUFFICES ASSUME TypeOK, Refers, Inductive, OneSettlement, Sequential,
                        [Next]_vars
                 PROVE  [Lifecycle!Next]_(Lifecycle!vars)
    OBVIOUS
  <2> USE DEF OneSettlement, OneExecutor, Sequential, NothingRepeats
  <2>2. ASSUME Unseen \/ UNCHANGED vars PROVE UNCHANGED Lifecycle!vars
    BY <2>2 DEF Unseen, vars, Lifecycle!vars
  <2>3. ASSUME NEW w \in Workers, Works(w)
        PROVE  [Lifecycle!Next]_(Lifecycle!vars)
    BY <2>1, <2>2, <2>3, WorkReads DEF Lifecycle!Next
  <2>4. ASSUME NEW s \in Sessions, CommitStart(s) PROVE Lifecycle!Next
    BY <2>1, <2>4, StartReads DEF Lifecycle!Next
  <2>5. ASSUME Edits PROVE Lifecycle!Next
    <3>1. /\ \E a \in Apps :
               \/ app[a] = "absent" /\ app' = [app EXCEPT ![a] = "draft"]
               \/ app[a] = "draft" /\ app' = [app EXCEPT ![a] = "submitted"]
               \/ app[a] = "draft" /\ app' = [app EXCEPT ![a] = "deleted"]
          /\ UNCHANGED <<run, owner, results>>
      BY <2>1, <2>5, EditsApp
    <3> QED BY <3>1 DEF Lifecycle!Next, Lifecycle!Edit
  <2>6. ASSUME Next, ~Edits, \A s \in Sessions : ~CommitStart(s),
               \A w \in Workers : ~Works(w)
        PROVE  UNCHANGED Lifecycle!vars
    BY <2>1, <2>2, <2>6, UnseenReads
  <2> QED BY <2>1, <2>2, <2>3, <2>4, <2>5, <2>6
<1> QED
  BY <1>1, <1>2, <1>3, <1>4, InductiveHolds, OneSettlementHolds, PTL
     DEF Spec, RunsFollowLifecycle, Lifecycle!Spec
=============================================================================

------------------------- MODULE UnderwritingProofs -------------------------
(***************************************************************************)
(* Type correctness of Underwriting and its safety under every fault, for  *)
(* any number of applications, runs, handlers, workers, retries and faults.*)
(***************************************************************************)
EXTENDS Underwriting, TLAPS

LEMMA RequestType == IdleRequest \in Request
BY DEF IdleRequest, Request

LEMMA WorkerType == IdleWorker \in Worker
BY DEF IdleWorker, Worker, Steps, RunStatus, AppStatus

\* What a session reads is well typed.
LEMMA SeenType == ASSUME TypeOK, NEW w \in Workers, worker[w].run \in Runs
                  PROVE  Seen(w) \in Worker
<1> DEFINE r == worker[w].run
           st == run[r]
           snap == snapshot[r]
           shown == IF owner[r] = NoApp THEN "absent" ELSE app[owner[r]]
<1>1. worker[w] \in Worker
  BY DEF TypeOK
<1>2. st \in RunStatus /\ snap \in BOOLEAN
  BY DEF TypeOK
<1>3. shown \in AppStatus
  BY DEF TypeOK, AppStatus
<1> HIDE DEF st, snap, shown
<1>4. [worker[w] EXCEPT !.st = st, !.snap = snap, !.app = shown] \in Worker
  BY <1>1, <1>2, <1>3 DEF Worker
<1> QED BY <1>4 DEF Seen, st, snap, shown

LEMMA FlowType ==
    ASSUME NEW f \in Flow, NEW stage \in Stages, NEW tries \in 0 .. Retries
    PROVE  [f EXCEPT !.stage = stage, !.tries = tries] \in Flow
BY DEF Flow

LEMMA RetryType == ASSUME TypeOK, NEW r \in Runs PROVE Retry(r) \in Flow
<1>1. flow[r] \in Flow /\ flow[r].tries \in 0 .. Retries /\ Retries \in Nat
  BY ConstantsAssumption DEF TypeOK, Flow
<1>2. CASE flow[r].stage = "onfail"
  BY <1>1, <1>2 DEF Retry, Flow, Stages
<1>3. CASE flow[r].stage # "onfail" /\ flow[r].tries < Retries
  BY <1>1, <1>3 DEF Retry, Flow
<1>4. CASE flow[r].stage # "onfail" /\ ~(flow[r].tries < Retries)
  <2>1. "onfail" \in Stages /\ 0 \in 0 .. Retries
    BY <1>1 DEF Stages, Attempted
  <2> QED BY <1>1, <2>1, <1>4, FlowType DEF Retry
<1> QED BY <1>2, <1>3, <1>4

LEMMA AdvanceType == ASSUME TypeOK, NEW r \in Runs PROVE Advance(r) \in Flow
<1>1. flow[r] \in Flow /\ 0 \in 0 .. Retries
  BY ConstantsAssumption DEF TypeOK
<1>2. {"evaluate", "succeeded", "failed"} \subseteq Stages
  BY DEF Stages
<1> QED BY <1>1, <1>2, FlowType DEF Advance

LEMMA StageType ==
    ASSUME TypeOK, NEW r \in Runs, NEW stage \in Stages,
           flow' = [flow EXCEPT ![r].stage = stage]
    PROVE  flow' \in [Runs -> Flow]
BY DEF TypeOK, Flow

LEMMA EnqueueType == ASSUME TypeOK, NEW r \in Runs, Enqueue(r)
                     PROVE  flow' \in [Runs -> Flow]
<1>1. "prepare" \in Stages
  BY DEF Stages, Attempted
<1> QED BY <1>1, StageType DEF Enqueue

LEMMA FinishType == ASSUME TypeOK, NEW w \in Workers, Finish(w)
                    PROVE  worker' \in [Workers -> Worker]
BY WorkerType DEF TypeOK, Finish

LEMMA GotoType ==
    ASSUME TypeOK, NEW w \in Workers, NEW record \in Worker, NEW step \in Steps,
           Goto(w, record, step)
    PROVE  worker' \in [Workers -> Worker]
BY DEF TypeOK, Goto, Worker

LEMMA UnlockType == ASSUME TypeOK, NEW w \in Workers, Unlock(w)
                    PROVE  lock' \in [Runs -> Workers \cup {NoWorker}]
BY DEF TypeOK, Unlock

LEMMA InjectType == ASSUME TypeOK, NEW kind, Inject(kind)
                    PROVE  faults' \in 0 .. MaxFaults
BY ConstantsAssumption DEF TypeOK, Inject

LEMMA RaiseType ==
    ASSUME TypeOK, NEW w \in Workers, Raise(w),
           faults' \in 0 .. MaxFaults, worker[w].run \in Runs
    PROVE  TypeOK'
<1>1. lock' \in [Runs -> Workers \cup {NoWorker}]
  BY UnlockType DEF Raise
<1>2. worker' \in [Workers -> Worker]
  BY FinishType, GotoType DEF Raise, TypeOK, Steps
<1>3. flow' \in [Runs -> Flow]
  BY RetryType DEF Raise, TypeOK
<1> QED BY <1>1, <1>2, <1>3 DEF Raise, TypeOK, db

LEMMA ReturnType == ASSUME TypeOK, NEW w \in Workers, Return(w)
                    PROVE  worker' \in [Workers -> Worker]
BY FinishType, GotoType DEF Return, TypeOK, Steps

-----------------------------------------------------------------------------
(* Whatever refers to a run or an application refers to one that was       *)
(* created.  Every step below needs it to look through the references.     *)

RequestsRefer ==
    \A s \in Sessions :
        /\ req[s].op # "idle" => req[s].app \in Apps /\ app[req[s].app] # "absent"
        /\ req[s].op \in {"dispatch", "reply"} =>
              req[s].run \in Runs /\ run[req[s].run] # "none"

RunsRefer ==
    \A r \in Runs :
        /\ run[r] = "none" => owner[r] = NoApp
        /\ run[r] # "none" => owner[r] \in Apps /\ app[owner[r]] # "absent"

DriversRefer ==
    /\ \A r \in background : run[r] # "none"
    /\ \A r \in Runs : flow[r].stage # "none" => run[r] # "none"
    /\ \A w \in Workers : worker[w].step # "idle" =>
          /\ worker[w].run \in Runs
          /\ run[worker[w].run] # "none"
    /\ \A w \in Workers : worker[w].task # "idle" => worker[w].step # "idle"

Refers == RequestsRefer /\ RunsRefer /\ DriversRefer
-----------------------------------------------------------------------------
(* Type correctness, one step per action.                                  *)

\* What can go wrong after the commit that starts a run.
Mishap(s) == \/ DispatchUnreachable(s)
             \/ DispatchAmbiguous(s)
             \/ DispatchUnrecorded(s)
             \/ ReplyFails(s)

LEMMA ApiType ==
    ASSUME TypeOK, Refers,
           \/ Client
           \/ \E s \in Sessions : Handler(s) \/ Mishap(s)
    PROVE  TypeOK'
<1> USE DEF TypeOK, db
<1>1. ASSUME NEW a \in Apps, CreateApplication(a) PROVE TypeOK'
  BY <1>1 DEF CreateApplication, AppStatus
<1>2. ASSUME NEW a \in Apps, NEW source \in Apps, DuplicateApplication(source, a)
      PROVE  TypeOK'
  BY <1>2 DEF DuplicateApplication, AppStatus
<1>3. ASSUME NEW s \in Sessions, NEW a \in Apps,
             NEW op \in {"update", "delete", "submit", "start"}, Load(s, op, a)
      PROVE  TypeOK'
  BY <1>3 DEF Load, Request
<1>4. ASSUME NEW s \in Sessions, Answer(s) PROVE req' \in [Sessions -> Request]
  BY <1>4, RequestType DEF Answer
<1>5. ASSUME NEW s \in Sessions, AnswerStale(s) \/ AnswerConflict(s)
      PROVE  TypeOK'
  BY <1>5, <1>4 DEF AnswerStale, AnswerConflict
<1>6. ASSUME NEW s \in Sessions, CommitUpdate(s) \/ CommitSubmit(s)
      PROVE  TypeOK'
  BY <1>6, <1>4 DEF CommitUpdate, CommitSubmit, AppStatus
<1>7. ASSUME NEW s \in Sessions, CommitDelete(s) PROVE TypeOK'
  BY <1>7, <1>4 DEF CommitDelete, AppStatus, RunStatus
<1>8. ASSUME NEW s \in Sessions, CommitStart(s) PROVE TypeOK'
  <2>1. req[s].app \in Apps /\ req[s] \in Request
    BY <1>8 DEF CommitStart, Refers, RequestsRefer
  <2>2. PICK r \in Runs, op \in {"dispatch", "reply"} :
             /\ InsertRun(req[s].app, r)
             /\ req' = [req EXCEPT ![s].run = r, ![s].op = op]
    BY <1>8 DEF CommitStart
  <2>3. req' \in [Sessions -> Request]
    <3>1. [req[s] EXCEPT !.run = r, !.op = op] \in Request
      BY <2>1 DEF Request
    <3>2. req' = [req EXCEPT ![s] = [req[s] EXCEPT !.run = r, !.op = op]]
      BY <2>1, <2>2 DEF Request
    <3> QED BY <3>1, <3>2
  <2>4. UNCHANGED <<lock, background, flow, worker, faults>>
    BY <1>8 DEF CommitStart
  <2> QED BY <2>1, <2>2, <2>3, <2>4 DEF InsertRun, RunStatus, AppStatus
<1>9. ASSUME NEW s \in Sessions, req[s].op = "dispatch",
             Enqueue(req[s].run) \/ UNCHANGED flow
      PROVE  flow' \in [Runs -> Flow]
  <2>1. req[s].run \in Runs
    BY <1>9 DEF Refers, RequestsRefer
  <2> QED BY <1>9, <2>1, EnqueueType
<1>10. ASSUME NEW s \in Sessions, DispatchAccepted(s) \/ DispatchUnrecorded(s)
       PROVE  TypeOK'
  BY <1>10, <1>4, <1>9, InjectType DEF DispatchAccepted, DispatchUnrecorded
<1>11. ASSUME NEW s \in Sessions, DispatchUnreachable(s) \/ DispatchAmbiguous(s)
       PROVE  TypeOK'
  <2>1. FallBack(s) /\ req[s].op = "dispatch" /\ req[s].run \in Runs
    BY <1>11 DEF DispatchUnreachable, DispatchAmbiguous, FallBack, Refers,
                 RequestsRefer
  <2>2. flow' \in [Runs -> Flow]
    BY <2>1, <1>9, <1>11 DEF DispatchUnreachable, DispatchAmbiguous
  <2>3. faults' \in 0 .. MaxFaults
    BY <1>11, InjectType DEF DispatchUnreachable, DispatchAmbiguous
  <2>4. req' \in [Sessions -> Request]
    BY <2>1, <1>4 DEF FallBack, Request
  <2> QED BY <2>1, <2>2, <2>3, <2>4 DEF FallBack
<1>12. ASSUME NEW s \in Sessions, Reply(s) \/ ReplyFails(s) PROVE TypeOK'
  <2>1. req[s].run \in Runs
    BY <1>12 DEF Reply, ReplyFails, Refers, RequestsRefer
  <2> QED BY <1>12, <2>1, <1>4, InjectType DEF Reply, ReplyFails
<1> QED BY <1>1, <1>2, <1>3, <1>5, <1>6, <1>7, <1>8, <1>10, <1>11, <1>12
        DEF Client, Handler, Mishap

LEMMA BeginType ==
    ASSUME TypeOK, NEW w \in Workers, NEW r \in Runs,
           NEW task \in {"sync"} \cup Attempted, Begin(w, task, r)
    PROVE  worker' \in [Workers -> Worker]
<1>1. FirstStep(task) \in Steps /\ flow[r].rows \in BOOLEAN
  BY DEF TypeOK, FirstStep, Steps, Flow
<1>2. [IdleWorker EXCEPT !.task = task, !.run = r, !.live = TRUE,
                         !.step = FirstStep(task), !.rows = flow[r].rows]
      \in Worker
  BY <1>1 DEF IdleWorker, Worker, RunStatus, AppStatus
<1> QED BY <1>2 DEF Begin, TypeOK

LEMMA ScheduleType ==
    ASSUME TypeOK, Refers, \E r \in Runs : Start(r) \/ EvaluateLenders(r)
                                           \/ EvaluateLendersFails(r)
    PROVE  TypeOK'
<1>1. ASSUME NEW r \in Runs, NEW w \in Workers, BeginSync(w, r) PROVE TypeOK'
  BY <1>1, BeginType DEF BeginSync, TypeOK, db
<1>2. ASSUME NEW r \in Runs, NEW w \in Workers, BeginAttempt(w, r) PROVE TypeOK'
  BY <1>2, BeginType DEF BeginAttempt, TypeOK, db
<1>3. ASSUME NEW r \in Runs, EvaluateLenders(r) PROVE TypeOK'
  <2>1. PICK rows \in BOOLEAN :
          flow' = [flow EXCEPT ![r].stage = "persist", ![r].rows = rows]
    BY <1>3 DEF EvaluateLenders
  <2>2. flow[r] \in Flow /\ "persist" \in Stages
    BY DEF TypeOK, Stages, Attempted
  <2>3. [flow[r] EXCEPT !.stage = "persist", !.rows = rows] \in Flow
    BY <2>2 DEF Flow
  <2>4. flow' = [flow EXCEPT ![r] = [flow[r] EXCEPT !.stage = "persist",
                                                   !.rows = rows]]
    BY <2>1 DEF TypeOK
  <2>5. flow' \in [Runs -> Flow]
    BY <2>3, <2>4 DEF TypeOK
  <2> QED BY <1>3, <2>5 DEF EvaluateLenders, TypeOK, db
<1>4. ASSUME NEW r \in Runs, EvaluateLendersFails(r) PROVE TypeOK'
  BY <1>4, StageType, InjectType DEF EvaluateLendersFails, TypeOK, db, Stages,
                                     Attempted
<1> QED BY <1>1, <1>2, <1>3, <1>4 DEF Start

\* A record read or advanced by a task is well typed.
LEMMA RecordType ==
    ASSUME TypeOK, NEW w \in Workers
    PROVE  /\ worker[w] \in Worker
           /\ [worker[w] EXCEPT !.st = "running"] \in Worker
           /\ \A b \in BOOLEAN : [worker[w] EXCEPT !.rows = b] \in Worker
           /\ \A r \in Runs : [worker[w] EXCEPT !.old = results[r]] \in Worker
<1>1. worker[w] \in Worker /\ "running" \in RunStatus
  BY DEF TypeOK, RunStatus
<1>2. \A r \in Runs : results[r] \in SUBSET Batches
  BY DEF TypeOK
<1> QED BY <1>1, <1>2 DEF Worker

LEMMA TaskStepType ==
    ASSUME TypeOK, Refers, NEW w \in Workers, TaskStep(w)
    PROVE  TypeOK'
<1> DEFINE r == worker[w].run
<1>1. r \in Runs
  BY DEF TaskStep, MarkRead, MarkCommit, Build, ReadRun, Replace, Commit,
         FailRead, FailCommit, Acknowledge, Refers, DriversRefer
<1>2. faults' = faults /\ faults \in 0 .. MaxFaults
  BY DEF TaskStep, MarkRead, MarkCommit, Build, ReadRun, Replace, Commit,
         FailRead, FailCommit, Acknowledge, TypeOK
<1>3. CASE Raise(w)
  BY <1>1, <1>2, <1>3, RaiseType
<1>4. CASE UNCHANGED <<db, lock, flow>> /\ UNCHANGED <<req, background>>
           /\ worker' \in [Workers -> Worker]
  BY <1>2, <1>4 DEF TypeOK, db
<1>5. Seen(w) \in Worker
  BY <1>1, SeenType
<1>6. ASSUME MarkRead(w), ~Raise(w) PROVE TypeOK'
  BY <1>4, <1>5, <1>6, GotoType DEF MarkRead, Steps
<1>7. ASSUME MarkCommit(w), ~Raise(w) PROVE TypeOK'
  <2>1. worker' \in [Workers -> Worker]
    BY <1>7, RecordType, GotoType DEF MarkCommit, Steps
  <2> QED BY <1>1, <1>7, <2>1 DEF MarkCommit, TypeOK, Write, RunStatus
<1>8. ASSUME Build(w), ~Raise(w) PROVE TypeOK'
  <2>1. worker' \in [Workers -> Worker]
    BY <1>8, RecordType, GotoType, ReturnType DEF Build, Steps
  <2> QED BY <1>4, <1>8, <2>1 DEF Build
<1>9. ASSUME ReadRun(w), ~Raise(w) PROVE TypeOK'
  BY <1>4, <1>5, <1>9, GotoType DEF ReadRun, Steps
<1>10. ASSUME Replace(w), ~Raise(w) PROVE TypeOK'
  <2>1. worker' \in [Workers -> Worker]
    BY <1>1, <1>10, RecordType, GotoType DEF Replace, Steps
  <2> QED BY <1>1, <1>10, <2>1 DEF Replace, TypeOK, db
<1>11. ASSUME Commit(w), ~Raise(w) PROVE TypeOK'
  <2>1. worker' \in [Workers -> Worker] /\ lock' \in [Runs -> Workers \cup {NoWorker}]
    BY <1>11, ReturnType, UnlockType DEF Commit
  <2>2. Inserted(w) \subseteq Batches
    BY <1>11 DEF Commit, Inserted, FreshBatches
  <2>3. run' \in [Runs -> RunStatus] /\ app' \in [Apps -> AppStatus]
    BY <1>11 DEF Commit, TypeOK, Write, RunStatus, AppStatus
  <2>4. results' = [results EXCEPT ![r] =
                      (results[r] \ worker[w].old) \cup Inserted(w)]
    BY <1>11 DEF Commit
  <2>5. results' \in [Runs -> SUBSET Batches]
    BY <1>1, <2>2, <2>4 DEF TypeOK
  <2>6. snapshot' \in [Runs -> BOOLEAN]
    BY <1>11 DEF Commit, TypeOK
  <2> QED BY <1>2, <1>11, <2>1, <2>3, <2>5, <2>6 DEF Commit, TypeOK
<1>12. ASSUME FailRead(w) PROVE TypeOK'
  BY <1>4, <1>5, <1>12, GotoType, ReturnType DEF FailRead, Steps
<1>13. ASSUME FailCommit(w) PROVE TypeOK'
  BY <1>1, <1>13, ReturnType DEF FailCommit, TypeOK, Write, RunStatus, AppStatus
<1>14. ASSUME Acknowledge(w) PROVE TypeOK'
  BY <1>1, <1>14, AdvanceType, FinishType DEF Acknowledge, TypeOK, db
<1> QED BY <1>3, <1>6, <1>7, <1>8, <1>9, <1>10, <1>11, <1>12, <1>13, <1>14
        DEF TaskStep

LEMMA FaultType ==
    ASSUME TypeOK, Refers,
           \/ Crash
           \/ \E w \in Workers : \/ TaskError(w) \/ FailureUnrecorded(w)
                                 \/ AcknowledgementLost(w) \/ Overrun(w)
    PROVE  TypeOK'
<1>1. ASSUME NEW w \in Workers,
             TaskError(w) \/ FailureUnrecorded(w) \/ AcknowledgementLost(w)
                          \/ Overrun(w)
      PROVE  worker[w].run \in Runs /\ faults' \in 0 .. MaxFaults
  <2>1. worker[w].step # "idle"
    BY <1>1 DEF TaskError, FailureUnrecorded, AcknowledgementLost, Overrun,
                Attempted, Refers, DriversRefer
  <2> QED BY <1>1, <2>1, InjectType
          DEF TaskError, FailureUnrecorded, AcknowledgementLost, Overrun,
              Refers, DriversRefer
<1>2. ASSUME NEW w \in Workers, TaskError(w) PROVE TypeOK'
  BY <1>1, <1>2, RaiseType DEF TaskError
<1>3. ASSUME NEW w \in Workers, FailureUnrecorded(w) \/ AcknowledgementLost(w)
      PROVE  TypeOK'
  BY <1>1, <1>3, RetryType, FinishType
     DEF FailureUnrecorded, AcknowledgementLost, TypeOK, db
<1>4. ASSUME NEW w \in Workers, Overrun(w) PROVE TypeOK'
  <2>1. worker' \in [Workers -> Worker]
    <3>1. [worker[w] EXCEPT !.live = FALSE] \in Worker
      BY RecordType DEF Worker
    <3>2. worker' = [worker EXCEPT ![w] = [worker[w] EXCEPT !.live = FALSE]]
      BY <1>4 DEF Overrun, TypeOK
    <3> QED BY <3>1, <3>2 DEF TypeOK
  <2> QED BY <1>1, <1>4, <2>1, RetryType DEF Overrun, TypeOK, db
<1>5. ASSUME Crash PROVE TypeOK'
  BY <1>5, InjectType, RequestType, WorkerType DEF Crash, TypeOK, db
<1> QED BY <1>2, <1>3, <1>4, <1>5

-----------------------------------------------------------------------------
(* References stay valid: rows are created once and never forgotten.       *)

Grows ==
    /\ \A r \in Runs : run[r] # "none" => run'[r] # "none" /\ owner'[r] = owner[r]
    /\ \A a \in Apps : app[a] # "absent" => app'[a] # "absent"

\* What a step may do to the requests, the drivers and the rows.
RequestsKept == \A s \in Sessions : req'[s] = req[s] \/ req'[s] = IdleRequest
RowsKept == Grows /\ \A r \in Runs : run[r] = "none" => /\ run'[r] = "none"
                                                        /\ owner'[r] = owner[r]
FlowsKept == \A r \in Runs : run[r] = "none" => flow'[r] = flow[r]
WorkersKept ==
    \A w \in Workers :
        \/ worker'[w] = IdleWorker
        \/ /\ worker'[w].run = worker[w].run
           /\ worker[w].step # "idle" /\ worker'[w].step # "idle"
        \/ worker'[w] = worker[w]

LEMMA KeptRefers ==
    ASSUME TypeOK, Refers, RowsKept, RequestsKept, FlowsKept, WorkersKept,
           background' \subseteq background
    PROVE  Refers'
<1>1. RequestsRefer'
  BY ConstantsAssumption
     DEF Refers, RequestsRefer, RowsKept, Grows, RequestsKept, IdleRequest
<1>2. RunsRefer'
  BY DEF Refers, RunsRefer, RowsKept, Grows, TypeOK
<1>3. DriversRefer'
  BY DEF Refers, DriversRefer, RowsKept, Grows, FlowsKept, WorkersKept,
         IdleWorker, TypeOK
<1> QED BY <1>1, <1>2, <1>3 DEF Refers

LEMMA DbRows == ASSUME UNCHANGED <<app, run, owner>> PROVE RowsKept
BY DEF RowsKept, Grows

LEMMA ClientRefers ==
    ASSUME TypeOK, Refers, Client PROVE Refers'
<1>1. UNCHANGED <<run, owner, background, flow, worker>>
  BY DEF Client, CreateApplication, DuplicateApplication, Load, db
<1>2. Grows
  BY <1>1 DEF Client, CreateApplication, DuplicateApplication, Load, db, Grows,
              TypeOK
<1>3. RequestsRefer'
  BY <1>1, <1>2 DEF Client, CreateApplication, DuplicateApplication, Load,
         Admits, Refers, RequestsRefer, Grows, TypeOK, Request
<1> QED BY <1>1, <1>2, <1>3 DEF Refers, RunsRefer, DriversRefer, Grows, TypeOK

LEMMA HandlerRefers ==
    ASSUME TypeOK, Refers, NEW s \in Sessions,
           Handler(s) \/ Mishap(s)
    PROVE  Refers'
<1>1. CASE AnswerStale(s) \/ AnswerConflict(s) \/ ReplyFails(s)
  <2>1. RowsKept /\ RequestsKept /\ FlowsKept /\ WorkersKept
    BY <1>1, DbRows DEF AnswerStale, AnswerConflict, ReplyFails, db,
         Answer, RequestsKept, FlowsKept, WorkersKept, TypeOK
  <2> QED BY <1>1, <2>1, KeptRefers DEF AnswerStale, AnswerConflict, ReplyFails
<1>2. CASE CommitUpdate(s) \/ CommitSubmit(s) \/ CommitDelete(s)
  <2>1. RowsKept
    <3>1. req[s].app \in Apps
      BY <1>2 DEF CommitUpdate, CommitSubmit, CommitDelete, Refers, RequestsRefer
    <3>2. CASE CommitUpdate(s) \/ CommitSubmit(s)
      BY <3>1, <3>2 DEF CommitUpdate, CommitSubmit, RowsKept, Grows, TypeOK
    <3>3. CASE CommitDelete(s)
      <4>1. \A r \in Runs : run[r] = "none" => owner[r] # req[s].app
        BY <3>1, ConstantsAssumption DEF Refers, RunsRefer
      <4> QED BY <3>1, <3>3, <4>1 DEF CommitDelete, RowsKept, Grows, TypeOK
    <3> QED BY <1>2, <3>2, <3>3
  <2>2. RequestsKept /\ FlowsKept /\ WorkersKept
    BY <1>2 DEF CommitUpdate, CommitSubmit, CommitDelete, Answer,
         RequestsKept, FlowsKept, WorkersKept, TypeOK
  <2> QED BY <1>2, <2>1, <2>2, KeptRefers
          DEF CommitUpdate, CommitSubmit, CommitDelete
<1>3. CASE CommitStart(s)
  <2>1. req[s].app \in Apps
    BY <1>3 DEF CommitStart, Refers, RequestsRefer
  <2>2. PICK r \in Runs, op \in {"dispatch", "reply"} :
             /\ InsertRun(req[s].app, r)
             /\ req' = [req EXCEPT ![s].run = r, ![s].op = op]
    BY <1>3 DEF CommitStart
  <2>3. Exists(req[s].app) /\ UNCHANGED <<lock, background, flow, worker, faults>>
    BY <1>3 DEF CommitStart
  <2>4. /\ run' = [run EXCEPT ![r] = "queued"]
        /\ owner' = [owner EXCEPT ![r] = req[s].app]
        /\ app' = [app EXCEPT ![req[s].app] = "underwriting"]
        /\ run[r] = "none"
    BY <2>2 DEF InsertRun
  <2>5. Grows
    BY <2>1, <2>4 DEF Grows, TypeOK
  <2>6. RequestsRefer'
    <3>1. /\ req'[s].app = req[s].app /\ req'[s].run = r
          /\ \A t \in Sessions \ {s} : req'[t] = req[t]
      BY <2>2 DEF TypeOK, Request
    <3>2. run'[r] # "none" /\ app'[req[s].app] # "absent"
      BY <2>1, <2>4 DEF TypeOK
    <3> QED BY <2>1, <2>5, <3>1, <3>2 DEF Refers, RequestsRefer, Grows
  <2>7. RunsRefer'
    BY <2>1, <2>4, <2>5 DEF Refers, RunsRefer, Grows, TypeOK
  <2>8. DriversRefer'
    BY <2>3, <2>4, <2>5 DEF Refers, DriversRefer, Grows, TypeOK
  <2> QED BY <2>6, <2>7, <2>8 DEF Refers
<1>4. CASE \/ DispatchAccepted(s) \/ DispatchUnreachable(s)
           \/ DispatchAmbiguous(s) \/ DispatchUnrecorded(s) \/ Reply(s)
  <2>1. req[s].run \in Runs /\ run[req[s].run] # "none"
    BY <1>4 DEF DispatchAccepted, DispatchUnreachable, DispatchAmbiguous,
         DispatchUnrecorded, Reply, FallBack, Refers, RequestsRefer
  <2>2. UNCHANGED <<run, owner, app, worker>>
    BY <1>4 DEF DispatchAccepted, DispatchUnreachable, DispatchAmbiguous,
         DispatchUnrecorded, Reply, FallBack, db
  <2>3. /\ background' \subseteq background \cup {req[s].run}
        /\ \A r \in Runs : r # req[s].run => flow'[r] = flow[r]
    BY <1>4 DEF DispatchAccepted, DispatchUnreachable, DispatchAmbiguous,
         DispatchUnrecorded, Reply, FallBack, db, Enqueue, TypeOK
  <2>4. /\ \A t \in Sessions \ {s} : req'[t] = req[t]
        /\ \/ req'[s] = IdleRequest
           \/ req'[s].app = req[s].app /\ req'[s].run = req[s].run
                                      /\ req[s].op # "idle"
    BY <1>4 DEF DispatchAccepted, DispatchUnreachable, DispatchAmbiguous,
         DispatchUnrecorded, Reply, FallBack, Answer, TypeOK, Request
  <2>5. RequestsRefer'
    BY <2>1, <2>2, <2>4 DEF Refers, RequestsRefer, IdleRequest
  <2>6. RunsRefer' /\ DriversRefer'
    BY <2>1, <2>2, <2>3 DEF Refers, RunsRefer, DriversRefer, TypeOK
  <2> QED BY <2>5, <2>6 DEF Refers
<1> QED BY <1>1, <1>2, <1>3, <1>4 DEF Handler, Mishap

LEMMA RaiseRefers ==
    ASSUME TypeOK, Refers, NEW w \in Workers, worker[w].step # "idle", Raise(w)
    PROVE  Refers'
<1>1. RowsKept
  BY DbRows DEF Raise, db
<1>2. RequestsKept /\ background' = background
  BY DEF Raise, RequestsKept
<1>3. WorkersKept
  BY DEF Raise, WorkersKept, Goto, Finish, TypeOK, Worker
<1>4. FlowsKept
  BY DEF Raise, FlowsKept, TypeOK, Refers, DriversRefer
<1> QED BY <1>1, <1>2, <1>3, <1>4, KeptRefers

LEMMA ScheduleRefers ==
    ASSUME TypeOK, Refers, NEW r \in Runs,
           Start(r) \/ EvaluateLenders(r) \/ EvaluateLendersFails(r)
    PROVE  Refers'
<1>1. RowsKept /\ RequestsKept
  BY DbRows DEF Start, BeginSync, BeginAttempt, EvaluateLenders,
       EvaluateLendersFails, db, RequestsKept
<1>2. CASE EvaluateLenders(r) \/ EvaluateLendersFails(r)
  <2>1. FlowsKept /\ WorkersKept /\ background' = background
    BY <1>2 DEF EvaluateLenders, EvaluateLendersFails, FlowsKept, WorkersKept,
         TypeOK, Refers, DriversRefer
  <2> QED BY <1>1, <2>1, KeptRefers
<1>3. ASSUME NEW w \in Workers, BeginSync(w, r) \/ BeginAttempt(w, r)
      PROVE  Refers'
  <2>1. PICK task \in {"sync"} \cup Attempted : Begin(w, task, r)
    BY <1>3 DEF BeginSync, BeginAttempt
  <2>2. run[r] # "none"
    BY <1>3 DEF BeginSync, BeginAttempt, Refers, DriversRefer, Attempted
  <2>3. /\ worker'[w].run = r
        /\ worker'[w].step = FirstStep(task)
        /\ \A v \in Workers : v # w => worker'[v] = worker[v]
    BY <2>1 DEF Begin, IdleWorker, TypeOK
  <2>4. FirstStep(task) # "idle"
    BY DEF FirstStep
  <2>5. UNCHANGED <<run, owner, app, req, flow>> /\ background' \subseteq background
    BY <1>3 DEF BeginSync, BeginAttempt, db
  <2>6. DriversRefer'
    BY <2>2, <2>3, <2>4, <2>5 DEF Refers, DriversRefer
  <2> QED BY <2>5, <2>6 DEF Refers, RequestsRefer, RunsRefer
<1> QED BY <1>2, <1>3 DEF Start

LEMMA TaskStepRefers ==
    ASSUME TypeOK, Refers, NEW w \in Workers, TaskStep(w)
    PROVE  Refers'
<1>1. worker[w].step # "idle" /\ worker[w].run \in Runs
  BY DEF TaskStep, MarkRead, MarkCommit, Build, ReadRun, Replace, Commit,
         FailRead, FailCommit, Acknowledge, Refers, DriversRefer
<1>2. CASE Raise(w)
  BY <1>1, <1>2, RaiseRefers
<1>3. CASE ~Raise(w)
  <2>1. RequestsKept /\ background' = background
    BY <1>3 DEF TaskStep, MarkRead, MarkCommit, Build, ReadRun, Replace, Commit,
         FailRead, FailCommit, Acknowledge, RequestsKept
  <2>2. FlowsKept
    <3>1. flow' = flow \/ \E f : flow' = [flow EXCEPT ![worker[w].run] = f]
      BY <1>3 DEF TaskStep, MarkRead, MarkCommit, Build, ReadRun, Replace,
           Commit, FailRead, FailCommit, Acknowledge
    <3>2. run[worker[w].run] # "none"
      BY <1>1 DEF Refers, DriversRefer
    <3> QED BY <1>1, <3>1, <3>2 DEF FlowsKept, TypeOK
  <2>3. RowsKept
    <3>1. CASE MarkRead(w) \/ Build(w) \/ ReadRun(w) \/ Replace(w) \/ FailRead(w)
               \/ Acknowledge(w)
      BY <1>3, <3>1, DbRows DEF MarkRead, Build, ReadRun, Replace, FailRead,
                                Acknowledge, db
    <3>2. run[worker[w].run] # "none" /\ owner[worker[w].run] \in Apps
      BY <1>1 DEF Refers, DriversRefer, RunsRefer
    <3>3. CASE MarkCommit(w)
      <4>1. \/ run' = [run EXCEPT ![worker[w].run] = "running"]
            \/ run' = [run EXCEPT ![worker[w].run] = run[worker[w].run]]
        BY <1>3, <3>3 DEF MarkCommit, Write
      <4>2. UNCHANGED <<app, owner>>
        BY <1>3, <3>3 DEF MarkCommit
      <4> QED BY <1>1, <3>2, <4>1, <4>2 DEF RowsKept, Grows, TypeOK
    <3>4. CASE Commit(w)
      BY <1>1, <1>3, <3>2, <3>4 DEF Commit, Write, RowsKept, Grows, TypeOK
    <3>5. CASE FailCommit(w)
      BY <1>1, <3>2, <3>5 DEF FailCommit, Write, RowsKept, Grows, TypeOK
    <3> QED BY <3>1, <3>3, <3>4, <3>5 DEF TaskStep
  <2>4. WorkersKept
    <3>1. \/ Finish(w) \/ Return(w)
          \/ \E record \in Worker : \E step :
               Goto(w, record, step) /\ step # "idle"
                                     /\ record.run = worker[w].run
      <4>1. Seen(w) \in Worker /\ Seen(w).run = worker[w].run
        BY <1>1, SeenType DEF Seen, TypeOK, Worker
      <4>2. CASE MarkRead(w) \/ ReadRun(w) \/ FailRead(w)
        BY <1>3, <4>1, <4>2 DEF MarkRead, ReadRun, FailRead
      <4>3. CASE MarkCommit(w) \/ Build(w) \/ Replace(w)
        <5>1. worker[w] \in Worker
          BY DEF TypeOK
        <5>2. CASE MarkCommit(w)
          BY <1>3, <5>1, <5>2 DEF MarkCommit, Worker, RunStatus
        <5>3. CASE Build(w)
          <6>1. \/ Return(w)
                \/ \E rows \in BOOLEAN :
                     Goto(w, [worker[w] EXCEPT !.rows = rows], "replace")
            BY <1>3, <5>3 DEF Build
          <6>2. ASSUME NEW rows \in BOOLEAN
                PROVE  /\ [worker[w] EXCEPT !.rows = rows] \in Worker
                       /\ [worker[w] EXCEPT !.rows = rows].run = worker[w].run
            BY <5>1, <6>2 DEF Worker
          <6> QED BY <6>1, <6>2
        <5>4. CASE Replace(w)
          BY <1>1, <1>3, <5>1, <5>4 DEF Replace, Worker, TypeOK
        <5> QED BY <4>3, <5>2, <5>3, <5>4
      <4>4. CASE Commit(w) \/ FailCommit(w) \/ Acknowledge(w)
        BY <1>3, <4>4 DEF Commit, FailCommit, Acknowledge
      <4> QED BY <4>2, <4>3, <4>4 DEF TaskStep
    <3>2. CASE Finish(w) \/ Return(w)
      BY <1>1, <3>2 DEF Finish, Return, Goto, WorkersKept, TypeOK, Worker
    <3>3. ASSUME NEW record \in Worker, NEW step, Goto(w, record, step),
                 step # "idle", record.run = worker[w].run
          PROVE  WorkersKept
      BY <1>1, <3>3 DEF Goto, WorkersKept, TypeOK, Worker
    <3> QED BY <3>1, <3>2, <3>3
  <2> QED BY <2>1, <2>2, <2>3, <2>4, KeptRefers
<1> QED BY <1>2, <1>3

LEMMA FaultRefers ==
    ASSUME TypeOK, Refers,
           \/ Crash
           \/ \E w \in Workers : \/ TaskError(w) \/ FailureUnrecorded(w)
                                 \/ AcknowledgementLost(w) \/ Overrun(w)
    PROVE  Refers'
<1>1. CASE Crash
  <2>1. RowsKept /\ RequestsKept /\ FlowsKept /\ WorkersKept
    BY <1>1, DbRows DEF Crash, db, RequestsKept, FlowsKept, WorkersKept, TypeOK
  <2> QED BY <1>1, <2>1, KeptRefers DEF Crash
<1>2. ASSUME NEW w \in Workers, TaskError(w) PROVE Refers'
  BY <1>2, RaiseRefers DEF TaskError
<1>3. ASSUME NEW w \in Workers,
             FailureUnrecorded(w) \/ AcknowledgementLost(w) \/ Overrun(w)
      PROVE  Refers'
  <2>1. worker[w].step # "idle" /\ worker[w].run \in Runs
    BY <1>3 DEF FailureUnrecorded, AcknowledgementLost, Overrun, Attempted,
         Refers, DriversRefer
  <2>2. RowsKept /\ RequestsKept /\ background' = background
    BY <1>3, DbRows DEF FailureUnrecorded, AcknowledgementLost, Overrun, db,
         RequestsKept
  <2>3. FlowsKept
    BY <1>3, <2>1 DEF FailureUnrecorded, AcknowledgementLost, Overrun, FlowsKept,
         TypeOK, Refers, DriversRefer
  <2>4. WorkersKept
    BY <1>3, <2>1 DEF FailureUnrecorded, AcknowledgementLost, Overrun,
         WorkersKept, TypeOK, Worker, Finish
  <2> QED BY <2>2, <2>3, <2>4, KeptRefers
<1> QED BY <1>1, <1>2, <1>3

LEMMA StepCases ==
    ASSUME Next
    PROVE  \/ Client
           \/ \E s \in Sessions : Handler(s) \/ Mishap(s)
           \/ \E r \in Runs : Start(r) \/ EvaluateLenders(r)
                              \/ EvaluateLendersFails(r)
           \/ \E w \in Workers : TaskStep(w)
           \/ Crash
           \/ \E w \in Workers : \/ TaskError(w) \/ FailureUnrecorded(w)
                                 \/ AcknowledgementLost(w) \/ Overrun(w)
BY DEF Next, Fault, Mishap

LEMMA InitTyped == ASSUME Init PROVE TypeOK /\ Refers
<1>1. TypeOK
  BY RequestType, WorkerType, ConstantsAssumption
     DEF Init, TypeOK, AppStatus, RunStatus, Flow, Stages
<1>2. Refers
  BY DEF Init, Refers, RequestsRefer, RunsRefer, DriversRefer, IdleRequest,
         IdleWorker
<1> QED BY <1>1, <1>2

LEMMA StepTyped == ASSUME TypeOK, Refers, [Next]_vars PROVE (TypeOK /\ Refers)'
<1>1. CASE Next
  <2>1. TypeOK'
    BY <1>1, StepCases, ApiType, ScheduleType, TaskStepType, FaultType
  <2>2. Refers'
    BY <1>1, StepCases, ClientRefers, HandlerRefers, ScheduleRefers,
       TaskStepRefers, FaultRefers
  <2> QED BY <2>1, <2>2
<1>2. CASE UNCHANGED vars
  BY <1>2 DEF vars, TypeOK, Refers, RequestsRefer, RunsRefer, DriversRefer,
              Inserted
<1> QED BY <1>1, <1>2

\* Every variable keeps its type, in every behaviour: run and application
\* statuses stay among the ones the enums name, every task's session holds
\* values it could have read, no workflow exceeds its retries.
THEOREM TypeCorrect == Spec => [](TypeOK /\ Refers)
BY InitTyped, StepTyped, PTL DEF Spec

THEOREM TypeSafety == Spec => []TypeOK
BY TypeCorrect, PTL
=============================================================================

------------------------- MODULE UnderwritingSafety -------------------------
(***************************************************************************)
(* The safety of Underwriting under every fault and every interleaving, on *)
(* top of its type correctness.  Most steps write none of the columns the  *)
(* invariants look at; the few that do are treated one by one.             *)
(***************************************************************************)
EXTENDS UnderwritingProofs

Inductive ==
    /\ OneActiveRun
    /\ UnderwritingHasActiveRun
    /\ CompletedRunHasResults
    /\ CompletedAppHasResults
    /\ RunMeansLeftDraft
    /\ StaleSessionIsSettled
    /\ CommitHasRows

Quiet == UNCHANGED <<app, run, owner, snapshot, results>>

\* The transactions that change a status, a run's results or its snapshot.
Writes ==
    \/ \E a \in Apps : CreateApplication(a)
    \/ \E source, a \in Apps : DuplicateApplication(source, a)
    \/ \E s \in Sessions : CommitSubmit(s) \/ CommitDelete(s) \/ CommitStart(s)
    \/ \E w \in Workers : MarkCommit(w) \/ Commit(w) \/ FailCommit(w)

LEMMA QuietOrWrites == ASSUME Next PROVE Quiet \/ Writes
<1> USE DEF Quiet, db
<1>1. CASE Client
  BY <1>1 DEF Client, Load, Writes
<1>2. ASSUME NEW s \in Sessions, Handler(s) PROVE Quiet \/ Writes
  BY <1>2 DEF Handler, Writes, AnswerStale, CommitUpdate, AnswerConflict,
       DispatchAccepted, Reply
<1>3. ASSUME NEW r \in Runs, Start(r) \/ EvaluateLenders(r) PROVE Quiet
  BY <1>3 DEF Start, EvaluateLenders, BeginSync, BeginAttempt
<1>4. ASSUME NEW w \in Workers, TaskStep(w) PROVE Quiet \/ Writes
  BY <1>4 DEF TaskStep, Writes, MarkRead, Build, ReadRun, Replace, FailRead,
       Acknowledge, Raise
<1>5. CASE Fault
  BY <1>5 DEF Fault, DispatchUnreachable, DispatchAmbiguous, FallBack,
       DispatchUnrecorded, ReplyFails, TaskError, Raise, FailureUnrecorded,
       AcknowledgementLost, Overrun, EvaluateLendersFails, Crash
<1> QED BY <1>1, <1>2, <1>3, <1>4, <1>5 DEF Next

\* What the database holds of the run a worker executes.
LEMMA Executing ==
    ASSUME TypeOK, Refers, NEW w \in Workers, worker[w].step # "idle"
    PROVE  /\ worker[w].run \in Runs
           /\ run[worker[w].run] # "none"
           /\ owner[worker[w].run] \in Apps
BY DEF Refers, DriversRefer, RunsRefer

\* MarkCommit writes at most one status, to one that the index admits.
LEMMA MarkWrites ==
    ASSUME TypeOK, Refers, NEW w \in Workers, MarkCommit(w), ~Quiet
    PROVE  LET r == worker[w].run IN
           /\ HasRow(r)
           /\ run[r] \in Active \/ ~Conflict(owner[r], r)
           /\ run' = [run EXCEPT ![r] = "running"]
           /\ UNCHANGED <<app, owner, snapshot, results>>
<1>1. ~Raise(w)
  BY DEF Raise, db, Quiet
<1>2. worker[w].st # "running"
  <2>1. SUFFICES ASSUME worker[w].st = "running" PROVE FALSE
    OBVIOUS
  <2>2. worker[w].run \in Runs
    BY Executing DEF MarkCommit
  <2> QED BY <1>1, <2>1, <2>2 DEF MarkCommit, Write, Quiet, TypeOK
<1> QED BY <1>1, <1>2 DEF MarkCommit, Write

\* Commit inserts a list of results with the status it writes.
LEMMA CommitWrites ==
    ASSUME TypeOK, Refers, CommitHasRows, NEW w \in Workers, Commit(w), ~Quiet
    PROVE  LET r == worker[w].run IN
           /\ HasRow(r) /\ r \in Runs /\ owner[r] \in Apps
           /\ run' = [run EXCEPT ![r] = Write(@, worker[w].st, "completed")]
           /\ app' = [app EXCEPT ![owner[r]] =
                            Write(@, worker[w].app, "completed")]
           /\ results'[r] # {}
           /\ \A q \in Runs : q # r => results'[q] = results[q]
           /\ snapshot' = [snapshot EXCEPT ![r] = TRUE]
           /\ UNCHANGED owner
<1>1. ~Raise(w)
  BY DEF Raise, db, Quiet
<1>2. worker[w].step = "commit" /\ worker[w].rows
  BY DEF Commit, CommitHasRows
<1>3. worker[w].run \in Runs /\ owner[worker[w].run] \in Apps
  BY <1>2, Executing
<1>4. Inserted(w) # {}
  BY <1>2 DEF Inserted
<1> QED BY <1>1, <1>3, <1>4 DEF Commit, TypeOK

LEMMA FailWrites ==
    ASSUME TypeOK, Refers, NEW w \in Workers, FailCommit(w), ~Quiet
    PROVE  LET r == worker[w].run IN
           /\ HasRow(r) /\ r \in Runs /\ owner[r] \in Apps
           /\ run' = [run EXCEPT ![r] = Write(@, worker[w].st, "failed")]
           /\ app' = [app EXCEPT ![owner[r]] =
                            Write(@, worker[w].app, "submitted")]
           /\ UNCHANGED <<owner, snapshot, results>>
<1>1. worker[w].run \in Runs /\ owner[worker[w].run] \in Apps
  BY Executing DEF FailCommit
<1> QED BY <1>1 DEF FailCommit, Quiet

LEMMA StartWrites ==
    ASSUME TypeOK, Refers, NEW s \in Sessions, CommitStart(s)
    PROVE  \E r \in Runs :
             LET a == req[s].app IN
             /\ a \in Apps /\ Exists(a)
             /\ run[r] = "none" /\ ~Conflict(a, r)
             /\ run' = [run EXCEPT ![r] = "queued"]
             /\ owner' = [owner EXCEPT ![r] = a]
             /\ app' = [app EXCEPT ![a] = "underwriting"]
             /\ UNCHANGED <<snapshot, results, worker>>
BY DEF CommitStart, InsertRun, Refers, RequestsRefer

LEMMA DeleteWrites ==
    ASSUME TypeOK, Refers, NEW s \in Sessions, CommitDelete(s)
    PROVE  LET a == req[s].app IN
           /\ a \in Apps
           /\ app' = [app EXCEPT ![a] = "deleted"]
           /\ \A r \in Runs : IF owner[r] = a
                              THEN run'[r] = "gone" /\ results'[r] = {}
                              ELSE run'[r] = run[r] /\ results'[r] = results[r]
           /\ UNCHANGED <<owner, snapshot, worker>>
BY DEF CommitDelete, Refers, RequestsRefer

\* An application without runs changes its status.
LEMMA EditWrites ==
    ASSUME TypeOK, Refers,
           \/ \E a \in Apps : CreateApplication(a)
           \/ \E source, a \in Apps : DuplicateApplication(source, a)
           \/ \E s \in Sessions : CommitSubmit(s)
    PROVE  /\ \E a \in Apps :
                \/ app[a] = "absent" /\ app' = [app EXCEPT ![a] = "draft"]
                \/ Exists(a) /\ app' = [app EXCEPT ![a] = "submitted"]
           /\ UNCHANGED <<run, owner, snapshot, results, worker>>
BY DEF CreateApplication, DuplicateApplication, CommitSubmit, Refers,
       RequestsRefer

-----------------------------------------------------------------------------
LEMMA StepOneActive ==
    ASSUME TypeOK, Refers, Inductive, Writes PROVE OneActiveRun'
<1> USE DEF OneActiveRun, Active
<1>1. CASE Quiet
  BY <1>1 DEF Quiet, Inductive
<1>2. ASSUME NEW s \in Sessions, CommitDelete(s) PROVE OneActiveRun'
  BY <1>2, DeleteWrites DEF Inductive
<1>3. ASSUME NEW s \in Sessions, CommitStart(s) PROVE OneActiveRun'
  BY <1>3, StartWrites DEF Inductive, TypeOK, Conflict
<1>4. ASSUME NEW w \in Workers, MarkCommit(w), ~Quiet PROVE OneActiveRun'
  BY <1>4, MarkWrites DEF Inductive, TypeOK, Conflict
<1>5. ASSUME NEW w \in Workers, Commit(w), ~Quiet PROVE OneActiveRun'
  BY <1>5, CommitWrites DEF Inductive, TypeOK, Write
<1>6. ASSUME NEW w \in Workers, FailCommit(w), ~Quiet PROVE OneActiveRun'
  BY <1>6, FailWrites DEF Inductive, TypeOK, Write
<1>7. ASSUME UNCHANGED <<run, owner>> PROVE OneActiveRun'
  BY <1>7 DEF Inductive
<1> QED BY <1>1, <1>2, <1>3, <1>4, <1>5, <1>6, <1>7, EditWrites DEF Writes

LEMMA StepUnderwritingHasActiveRun ==
    ASSUME TypeOK, Refers, Inductive, Writes PROVE UnderwritingHasActiveRun'
<1> USE DEF UnderwritingHasActiveRun, Active
<1>1. CASE Quiet
  BY <1>1 DEF Quiet, Inductive
<1>2. ASSUME NEW s \in Sessions, CommitDelete(s)
      PROVE  UnderwritingHasActiveRun'
  BY <1>2, DeleteWrites DEF Inductive, TypeOK
<1>3. ASSUME NEW s \in Sessions, CommitStart(s)
      PROVE  UnderwritingHasActiveRun'
  BY <1>3, StartWrites DEF Inductive, TypeOK
<1>4. ASSUME NEW w \in Workers, MarkCommit(w), ~Quiet
      PROVE  UnderwritingHasActiveRun'
  BY <1>4, MarkWrites DEF Inductive, TypeOK
<1>5. ASSUME NEW w \in Workers, Commit(w) \/ FailCommit(w), ~Quiet
      PROVE  UnderwritingHasActiveRun'
  <2> DEFINE r == worker[w].run
  <2>1. PICK shown \in {"completed", "submitted"} :
          /\ HasRow(r) /\ r \in Runs /\ owner[r] \in Apps
          /\ \A q \in Runs : q # r => run'[q] = run[q]
          /\ app' = [app EXCEPT ![owner[r]] = Write(@, worker[w].app, shown)]
          /\ UNCHANGED owner
    BY <1>5, CommitWrites, FailWrites DEF Inductive, TypeOK
  <2>2. worker[w].step \in Holding
    BY <1>5 DEF Commit, FailCommit, Holding
  <2>3. SUFFICES ASSUME NEW a \in Apps, app'[a] = "underwriting"
                 PROVE  \E q \in Runs : owner[q] = a /\ run'[q] \in Active
    BY <2>1
  <2>4. app[a] = "underwriting"
    BY <2>1, <2>3 DEF Write, TypeOK
  <2>5. PICK q \in Runs : owner[q] = a /\ run[q] \in Active
    BY <2>4 DEF Inductive
  <2>6. CASE a = owner[r]
    <3>1. worker[w].app # "underwriting"
      BY <2>1, <2>3, <2>6 DEF Write, TypeOK
    <3>2. run[r] \notin Active
      BY <2>1, <2>2, <2>4, <2>6, <3>1 DEF Inductive, StaleSessionIsSettled
    <3> QED BY <2>1, <2>5, <3>2
  <2>7. CASE a # owner[r]
    BY <2>1, <2>5, <2>7
  <2> QED BY <2>6, <2>7
<1>6. ASSUME NEW a \in Apps, NEW shown \in {"draft", "submitted"},
             app' = [app EXCEPT ![a] = shown], UNCHANGED <<run, owner>>
      PROVE  UnderwritingHasActiveRun'
  BY <1>6 DEF Inductive, TypeOK
<1> QED BY <1>1, <1>2, <1>3, <1>4, <1>5, <1>6, EditWrites DEF Writes

LEMMA StepCompletedRunHasResults ==
    ASSUME TypeOK, Refers, Inductive, Writes PROVE CompletedRunHasResults'
<1> USE DEF CompletedRunHasResults
<1>1. CASE Quiet
  BY <1>1 DEF Quiet, Inductive
<1>2. ASSUME NEW s \in Sessions, CommitDelete(s) PROVE CompletedRunHasResults'
  BY <1>2, DeleteWrites DEF Inductive
<1>3. ASSUME NEW s \in Sessions, CommitStart(s) PROVE CompletedRunHasResults'
  BY <1>3, StartWrites DEF Inductive, TypeOK
<1>4. ASSUME NEW w \in Workers, MarkCommit(w), ~Quiet
      PROVE  CompletedRunHasResults'
  BY <1>4, MarkWrites DEF Inductive, TypeOK
<1>5. ASSUME NEW w \in Workers, Commit(w), ~Quiet PROVE CompletedRunHasResults'
  BY <1>5, CommitWrites DEF Inductive, TypeOK
<1>6. ASSUME NEW w \in Workers, FailCommit(w), ~Quiet
      PROVE  CompletedRunHasResults'
  BY <1>6, FailWrites DEF Inductive, TypeOK, Write
<1> QED BY <1>1, <1>2, <1>3, <1>4, <1>5, <1>6, EditWrites DEF Writes, Inductive

LEMMA StepCompletedAppHasResults ==
    ASSUME TypeOK, Refers, Inductive, Writes PROVE CompletedAppHasResults'
<1> USE DEF CompletedAppHasResults
<1>1. CASE Quiet
  BY <1>1 DEF Quiet, Inductive
<1>2. ASSUME NEW s \in Sessions, CommitDelete(s) PROVE CompletedAppHasResults'
  BY <1>2, DeleteWrites DEF Inductive, TypeOK
<1>3. ASSUME NEW s \in Sessions, CommitStart(s) PROVE CompletedAppHasResults'
  BY <1>3, StartWrites, ConstantsAssumption
     DEF Inductive, TypeOK, Refers, RunsRefer
<1>4. ASSUME NEW w \in Workers, MarkCommit(w), ~Quiet
      PROVE  CompletedAppHasResults'
  BY <1>4, MarkWrites DEF Inductive
<1>5. ASSUME NEW w \in Workers, Commit(w), ~Quiet PROVE CompletedAppHasResults'
  BY <1>5, CommitWrites DEF Inductive, TypeOK
<1>6. ASSUME NEW w \in Workers, FailCommit(w), ~Quiet
      PROVE  CompletedAppHasResults'
  BY <1>6, FailWrites DEF Inductive, TypeOK, Write
<1>7. ASSUME NEW a \in Apps, NEW shown \in {"draft", "submitted"},
             app' = [app EXCEPT ![a] = shown], UNCHANGED <<owner, results>>
      PROVE  CompletedAppHasResults'
  BY <1>7 DEF Inductive, TypeOK
<1> QED BY <1>1, <1>2, <1>3, <1>4, <1>5, <1>6, <1>7, EditWrites DEF Writes

LEMMA StepRunMeansLeftDraft ==
    ASSUME TypeOK, Refers, Inductive, Writes PROVE RunMeansLeftDraft'
<1> USE DEF RunMeansLeftDraft, HasRow, Exists
<1>1. CASE Quiet
  BY <1>1 DEF Quiet, Inductive
<1>2. ASSUME NEW s \in Sessions, CommitDelete(s) PROVE RunMeansLeftDraft'
  BY <1>2, DeleteWrites DEF Inductive, TypeOK, Refers, RunsRefer
<1>3. ASSUME NEW s \in Sessions, CommitStart(s) PROVE RunMeansLeftDraft'
  BY <1>3, StartWrites DEF Inductive, TypeOK, Refers, RunsRefer
<1>4. ASSUME NEW w \in Workers, MarkCommit(w), ~Quiet PROVE RunMeansLeftDraft'
  BY <1>4, MarkWrites DEF Inductive, TypeOK
<1>5. ASSUME NEW w \in Workers, Commit(w) \/ FailCommit(w), ~Quiet
      PROVE  RunMeansLeftDraft'
  <2> DEFINE r == worker[w].run
  <2>1. PICK shown \in {"completed", "submitted"} :
          /\ HasRow(r) /\ r \in Runs /\ owner[r] \in Apps
          /\ \A q \in Runs : q # r => run'[q] = run[q]
          /\ app' = [app EXCEPT ![owner[r]] = Write(@, worker[w].app, shown)]
          /\ UNCHANGED owner
    BY <1>5, CommitWrites, FailWrites DEF Inductive, TypeOK
  <2>2. app'[owner[r]] \in {app[owner[r]], shown}
    BY <2>1 DEF Write, TypeOK
  <2>3. \A a \in Apps : a # owner[r] => app'[a] = app[a]
    BY <2>1 DEF TypeOK
  <2> QED BY <2>1, <2>2, <2>3 DEF Inductive
<1>6. ASSUME NEW a \in Apps, UNCHANGED <<run, owner>>,
             \/ app[a] = "absent" /\ app' = [app EXCEPT ![a] = "draft"]
             \/ Exists(a) /\ app' = [app EXCEPT ![a] = "submitted"]
      PROVE  RunMeansLeftDraft'
  BY <1>6 DEF Inductive, TypeOK, Refers, RunsRefer
<1> QED BY <1>1, <1>2, <1>3, <1>4, <1>5, <1>6, EditWrites DEF Writes

-----------------------------------------------------------------------------
(* The sessions of the workers.                                            *)

\* A session that holds what it read either held it before, or reads it now.
SessionKept(v) == /\ worker[v].step \in Holding
                  /\ worker'[v].run = worker[v].run
                  /\ worker'[v].app = worker[v].app
SessionRead(v) == /\ UNCHANGED <<app, run, owner>>
                  /\ worker'[v].run \in Runs
                  /\ owner[worker'[v].run] \in Apps
                  /\ worker'[v].app = app[owner[worker'[v].run]]

LEMMA RaiseSession ==
    ASSUME TypeOK, NEW w \in Workers, Raise(w),
           NEW v \in Workers, worker'[v].step \in Holding
    PROVE  SessionKept(v)
BY DEF Raise, Finish, Goto, TypeOK, Worker, IdleWorker, Holding, SessionKept

LEMMA StepSession ==
    ASSUME TypeOK, Refers, Next, NEW v \in Workers, worker'[v].step \in Holding
    PROVE  SessionKept(v) \/ SessionRead(v)
<1> USE DEF Holding
<1>1. CASE worker' = worker
  BY <1>1 DEF SessionKept
<1>2. CASE Client
  BY <1>1, <1>2 DEF Client, CreateApplication, DuplicateApplication, Load
<1>3. ASSUME NEW s \in Sessions, Handler(s) \/ Mishap(s) PROVE worker' = worker
  BY <1>3 DEF Handler, Mishap, AnswerStale, CommitUpdate, CommitSubmit,
       CommitDelete, CommitStart, AnswerConflict, DispatchAccepted, Reply,
       DispatchUnreachable, DispatchAmbiguous, FallBack, DispatchUnrecorded,
       ReplyFails
<1>4. ASSUME NEW r \in Runs, EvaluateLenders(r) \/ EvaluateLendersFails(r)
      PROVE  worker' = worker
  BY <1>4 DEF EvaluateLenders, EvaluateLendersFails
<1>5. ASSUME NEW r \in Runs, Start(r) PROVE SessionKept(v)
  <2>1. PICK w \in Workers, task \in {"sync"} \cup Attempted : Begin(w, task, r)
    BY <1>5 DEF Start, BeginSync, BeginAttempt
  <2>2. v # w
    <3>1. worker'[w].step = FirstStep(task)
      BY <2>1 DEF Begin, TypeOK, IdleWorker
    <3> QED BY <3>1 DEF FirstStep
  <2> QED BY <2>1, <2>2 DEF Begin, SessionKept
<1>6. ASSUME NEW w \in Workers, TaskStep(w)
      PROVE  SessionKept(v) \/ SessionRead(v)
  <2>1. worker[w].step # "idle"
    BY <1>6 DEF TaskStep, MarkRead, MarkCommit, Build, ReadRun, Replace, Commit,
         FailRead, FailCommit, Acknowledge
  <2>2. CASE Raise(w)
    BY <2>2, RaiseSession
  <2>3. CASE v # w
    <3>1. \/ Raise(w) \/ Return(w) \/ Finish(w)
          \/ \E record, step : Goto(w, record, step)
      BY <1>6 DEF TaskStep, MarkRead, MarkCommit, Build, ReadRun, Replace,
           Commit, FailRead, FailCommit, Acknowledge
    <3>2. worker'[v] = worker[v]
      BY <2>3, <3>1 DEF Raise, Return, Goto, Finish, TypeOK
    <3> QED BY <3>2 DEF SessionKept
  <2>4. CASE Finish(w) \/ Return(w)
    BY <2>4 DEF Finish, Return, Goto, TypeOK, Worker, IdleWorker, SessionKept
  <2>5. CASE v = w /\ ~Raise(w) /\ ~Finish(w) /\ ~Return(w)
    <3>1. CASE MarkRead(w) \/ ReadRun(w) \/ FailRead(w)
      <4>1. PICK step : Goto(w, Seen(w), step) /\ UNCHANGED db
        BY <2>5, <3>1 DEF MarkRead, ReadRun, FailRead
      <4>2. /\ worker'[w].run = worker[w].run
            /\ owner[worker[w].run] # NoApp =>
                  worker'[w].app = app[owner[worker[w].run]]
        BY <2>1, <4>1 DEF Goto, Seen, TypeOK, Worker
      <4>3. /\ worker[w].run \in Runs
            /\ owner[worker[w].run] \in Apps
        BY <2>1, Executing
      <4> QED BY <2>5, <4>1, <4>2, <4>3, ConstantsAssumption DEF SessionRead, db
    <3>2. CASE MarkCommit(w) \/ Build(w) \/ Replace(w)
      <4>1. worker[w].step \in Holding
        BY <3>2 DEF MarkCommit, Build, Replace
      <4>2. PICK record, step : /\ Goto(w, record, step)
                                /\ record.run = worker[w].run
                                /\ record.app = worker[w].app
        <5>1. worker[w] \in Worker
          BY DEF TypeOK
        <5>2. CASE MarkCommit(w)
          BY <2>5, <5>1, <5>2 DEF MarkCommit, Worker
        <5>3. CASE Build(w)
          <6>1. \/ Return(w)
                \/ \E rows \in BOOLEAN :
                     Goto(w, [worker[w] EXCEPT !.rows = rows], "replace")
            BY <2>5, <5>3 DEF Build
          <6>2. ASSUME NEW rows \in BOOLEAN
                PROVE  /\ [worker[w] EXCEPT !.rows = rows].run = worker[w].run
                       /\ [worker[w] EXCEPT !.rows = rows].app = worker[w].app
            BY <5>1, <6>2 DEF Worker
          <6> QED BY <2>5, <6>1, <6>2
        <5>4. CASE Replace(w)
          BY <2>5, <5>1, <5>4 DEF Replace, Worker
        <5> QED BY <3>2, <5>2, <5>3, <5>4
      <4>3. worker'[w].run = record.run /\ worker'[w].app = record.app
        BY <4>2 DEF Goto, TypeOK, Worker
      <4> QED BY <2>5, <4>1, <4>2, <4>3 DEF SessionKept
    <3> QED BY <1>6, <2>5, <3>1, <3>2 DEF TaskStep, Commit, FailCommit,
              Acknowledge
  <2> QED BY <2>2, <2>3, <2>4, <2>5
<1>7. ASSUME NEW w \in Workers,
             \/ TaskError(w) \/ FailureUnrecorded(w)
             \/ AcknowledgementLost(w) \/ Overrun(w)
      PROVE  SessionKept(v)
  <2>1. CASE TaskError(w)
    BY <2>1, RaiseSession DEF TaskError
  <2>2. CASE FailureUnrecorded(w) \/ AcknowledgementLost(w) \/ Overrun(w)
    BY <2>2 DEF FailureUnrecorded, AcknowledgementLost, Overrun, Finish, TypeOK,
         Worker, IdleWorker, SessionKept
  <2> QED BY <1>7, <2>1, <2>2
<1>8. CASE Crash
  BY <1>8 DEF Crash, IdleWorker, SessionKept
<1> QED BY <1>1, <1>2, <1>3, <1>4, <1>5, <1>6, <1>7, <1>8, StepCases

LEMMA StepStaleSession ==
    ASSUME TypeOK, Refers, Inductive, Next PROVE StaleSessionIsSettled'
<1> USE DEF StaleSessionIsSettled, Active
<1>1. SUFFICES ASSUME NEW v \in Workers,
                      worker'[v].step \in Holding,
                      worker'[v].app # "underwriting",
                      run'[worker'[v].run] \notin {"none", "gone"},
                      app'[owner'[worker'[v].run]] = "underwriting"
               PROVE  run'[worker'[v].run] \notin Active
  BY DEF HasRow
<1>2. CASE SessionRead(v)
  BY <1>1, <1>2 DEF SessionRead, HasRow
<1>3. CASE SessionKept(v)
  <2> DEFINE e == worker[v].run
  <2>1. /\ worker[v].step \in Holding /\ worker[v].app # "underwriting"
        /\ worker'[v].run = e
    BY <1>1, <1>3 DEF SessionKept
  <2>2. e \in Runs /\ run[e] # "none" /\ owner[e] \in Apps
    BY <2>1, Executing DEF Holding
  <2>3. run'[e] \notin {"none", "gone"} /\ app'[owner'[e]] = "underwriting"
    BY <1>1, <2>1
  <2>4. (HasRow(e) /\ app[owner[e]] = "underwriting") => run[e] \notin Active
    BY <2>1 DEF Inductive
  <2>5. app[owner[e]] = "underwriting" =>
          \E q \in Runs : owner[q] = owner[e] /\ run[q] \in Active
    BY <2>2 DEF Inductive, UnderwritingHasActiveRun
  <2>6. SUFFICES run'[e] \notin Active
    BY <2>1
  <2> HIDE DEF e
  <2>7. CASE Quiet
    BY <2>3, <2>4, <2>7 DEF Quiet, HasRow
  <2>8. ASSUME NEW s \in Sessions, CommitDelete(s) PROVE run'[e] \notin Active
    BY <2>3, <2>2, <2>4, <2>8, DeleteWrites DEF HasRow, TypeOK
  <2>9. ASSUME NEW s \in Sessions, CommitStart(s) PROVE run'[e] \notin Active
    BY <2>3, <2>2, <2>4, <2>9, StartWrites DEF HasRow, TypeOK, Conflict
  <2>10. ASSUME NEW w \in Workers, MarkCommit(w), ~Quiet
         PROVE  run'[e] \notin Active
    BY <2>3, <2>2, <2>4, <2>5, <2>10, MarkWrites
       DEF HasRow, TypeOK, Conflict
  <2>11. ASSUME NEW w \in Workers, Commit(w) \/ FailCommit(w), ~Quiet
         PROVE  run'[e] \notin Active
    <3> DEFINE r == worker[w].run
    <3>1. PICK shown \in {"completed", "submitted"},
               settled \in {"completed", "failed"} :
            /\ HasRow(r) /\ r \in Runs /\ owner[r] \in Apps
            /\ run' = [run EXCEPT ![r] = Write(@, worker[w].st, settled)]
            /\ app' = [app EXCEPT ![owner[r]] = Write(@, worker[w].app, shown)]
            /\ UNCHANGED owner
      <4>1. CASE Commit(w)
        BY <2>11, <4>1, CommitWrites DEF Inductive
      <4>2. CASE FailCommit(w)
        BY <2>11, <4>2, FailWrites
      <4> QED BY <2>11, <4>1, <4>2
    <3>2. app[owner[e]] = "underwriting"
      BY <2>3, <2>2, <3>1 DEF Write, TypeOK
    <3>3. run'[e] \in {run[e], settled}
      BY <2>2, <3>1 DEF Write, TypeOK
    <3>4. HasRow(e)
      BY <2>3, <2>2, <3>1, <3>3 DEF HasRow, TypeOK
    <3> QED BY <2>4, <3>2, <3>3, <3>4
  <2>12. ASSUME NEW a \in Apps, UNCHANGED <<run, owner>>,
                \/ app[a] = "absent" /\ app' = [app EXCEPT ![a] = "draft"]
                \/ Exists(a) /\ app' = [app EXCEPT ![a] = "submitted"]
         PROVE  run'[e] \notin Active
    BY <2>3, <2>2, <2>4, <2>12 DEF HasRow, TypeOK
  <2> QED BY <2>7, <2>8, <2>9, <2>10, <2>11, <2>12, QuietOrWrites, EditWrites
          DEF Writes
<1> QED BY <1>1, <1>2, <1>3, StepSession

LEMMA StepCommitHasRows ==
    ASSUME TypeOK, Refers, Inductive, Next PROVE CommitHasRows'
<1> USE DEF CommitHasRows
<1>1. SUFFICES ASSUME NEW v \in Workers, worker'[v].step = "commit"
               PROVE  worker'[v].rows
  OBVIOUS
<1>2. CASE worker[v].step = "commit" /\ worker'[v].rows = worker[v].rows
  BY <1>2 DEF Inductive
<1>3. ASSUME NEW record \in Worker, NEW step, NEW w \in Workers,
             Goto(w, record, step), v # w \/ step # "commit"
      PROVE  worker'[v] = worker[v]
  BY <1>1, <1>3 DEF Goto, TypeOK, Worker
<1>4. ASSUME NEW w \in Workers, Finish(w) \/ Return(w) \/ Raise(w)
      PROVE  worker'[v] = worker[v]
  <2>1. worker[w] \in Worker
    BY DEF TypeOK
  <2>2. CASE Finish(w)
    BY <1>1, <2>2 DEF Finish, TypeOK, IdleWorker
  <2> QED BY <1>3, <1>4, <2>1, <2>2 DEF Return, Raise
<1>5. ASSUME NEW r \in Runs, Start(r) PROVE worker'[v] = worker[v]
  <2>1. PICK w \in Workers, task \in {"sync"} \cup Attempted : Begin(w, task, r)
    BY <1>5 DEF Start, BeginSync, BeginAttempt
  <2>2. v # w
    <3>1. worker'[w].step = FirstStep(task)
      BY <2>1 DEF Begin, TypeOK, IdleWorker
    <3> QED BY <1>1, <3>1 DEF FirstStep
  <2> QED BY <2>1, <2>2 DEF Begin
<1>6. ASSUME NEW w \in Workers, TaskStep(w) PROVE worker'[v].rows
  <2>1. CASE Raise(w) \/ Return(w) \/ Finish(w)
    BY <1>1, <1>2, <1>4, <2>1
  <2>2. CASE Replace(w) /\ ~Raise(w)
    <3>1. /\ worker[w].rows
          /\ worker' = [worker EXCEPT ![w] =
                          [[worker[w] EXCEPT !.old = results[worker[w].run]]
                              EXCEPT !.step = "commit"]]
      BY <2>2 DEF Replace, Goto
    <3>2. CASE v = w
      BY <3>1, <3>2 DEF TypeOK, Worker
    <3>3. CASE v # w
      BY <1>1, <1>2, <3>1, <3>3 DEF TypeOK
    <3> QED BY <3>2, <3>3
  <2>3. CASE ~Raise(w) /\ ~Return(w) /\ ~Finish(w) /\ ~Replace(w)
    <3>1. PICK record \in Worker :
                \E step : Goto(w, record, step) /\ step # "commit"
      <4>1. worker[w] \in Worker
        BY DEF TypeOK
      <4>2. worker[w].step # "idle" => Seen(w) \in Worker
        BY SeenType, Executing
      <4>3. CASE MarkRead(w) \/ ReadRun(w) \/ FailRead(w)
        BY <2>3, <4>2, <4>3 DEF MarkRead, ReadRun, FailRead
      <4>4. CASE MarkCommit(w)
        <5>1. [worker[w] EXCEPT !.st = "running"] \in Worker
          BY <4>1 DEF Worker, RunStatus
        <5> QED BY <2>3, <4>4, <5>1 DEF MarkCommit
      <4>5. CASE Build(w)
        <5>1. ASSUME NEW rows \in BOOLEAN
              PROVE  [worker[w] EXCEPT !.rows = rows] \in Worker
          BY <4>1 DEF Worker
        <5>2. PICK rows \in BOOLEAN :
                Goto(w, [worker[w] EXCEPT !.rows = rows], "replace")
          BY <2>3, <4>5 DEF Build
        <5> QED BY <5>1, <5>2
      <4> QED BY <1>6, <2>3, <4>3, <4>4, <4>5
              DEF TaskStep, Commit, FailCommit, Acknowledge
    <3> QED BY <1>1, <1>2, <1>3, <3>1
  <2> QED BY <2>1, <2>2, <2>3
<1>7. ASSUME NEW w \in Workers,
             \/ TaskError(w) \/ FailureUnrecorded(w)
             \/ AcknowledgementLost(w) \/ Overrun(w)
      PROVE  worker'[v].rows
  <2>1. CASE ~Overrun(w)
    BY <1>1, <1>2, <1>4, <1>7, <2>1 DEF TaskError, FailureUnrecorded,
         AcknowledgementLost
  <2>2. CASE Overrun(w)
    BY <1>1, <1>2, <2>2 DEF Overrun, TypeOK, Worker
  <2> QED BY <2>1, <2>2
<1>8. CASE Crash
  BY <1>1, <1>2, <1>8 DEF Crash, IdleWorker
<1>9. CASE worker' = worker
  BY <1>1, <1>2, <1>9
<1>10. CASE Client
  BY <1>9, <1>10 DEF Client, CreateApplication, DuplicateApplication, Load
<1>11. ASSUME NEW s \in Sessions, Handler(s) \/ Mishap(s)
       PROVE  worker' = worker
  BY <1>11 DEF Handler, Mishap, AnswerStale, CommitUpdate, CommitSubmit,
       CommitDelete, CommitStart, AnswerConflict, DispatchAccepted, Reply,
       DispatchUnreachable, DispatchAmbiguous, FallBack, DispatchUnrecorded,
       ReplyFails
<1>12. ASSUME NEW r \in Runs, EvaluateLenders(r) \/ EvaluateLendersFails(r)
       PROVE  worker' = worker
  BY <1>12 DEF EvaluateLenders, EvaluateLendersFails
<1> QED BY <1>1, <1>2, <1>5, <1>6, <1>7, <1>8, <1>9, <1>10, <1>11, <1>12, StepCases

-----------------------------------------------------------------------------
LEMMA InitInductive == ASSUME Init PROVE Inductive
BY DEF Init, Inductive, OneActiveRun, UnderwritingHasActiveRun,
       CompletedRunHasResults, CompletedAppHasResults, RunMeansLeftDraft, HasRow,
       StaleSessionIsSettled, Holding, CommitHasRows, IdleWorker, Active

LEMMA StepInductive ==
    ASSUME TypeOK, Refers, Inductive, [Next]_vars PROVE Inductive'
<1>1. CASE UNCHANGED vars
  BY <1>1 DEF vars, Inductive, OneActiveRun, UnderwritingHasActiveRun,
       CompletedRunHasResults, CompletedAppHasResults, RunMeansLeftDraft, HasRow,
       Exists, StaleSessionIsSettled, CommitHasRows
<1>2. CASE Next
  <2>1. StaleSessionIsSettled' /\ CommitHasRows'
    BY <1>2, StepStaleSession, StepCommitHasRows
  <2>2. CASE Quiet
    BY <2>1, <2>2 DEF Quiet, Inductive, OneActiveRun, UnderwritingHasActiveRun,
         CompletedRunHasResults, CompletedAppHasResults, RunMeansLeftDraft,
         HasRow, Exists
  <2>3. CASE Writes
    BY <2>1, <2>3, StepOneActive, StepUnderwritingHasActiveRun,
       StepCompletedRunHasResults, StepCompletedAppHasResults,
       StepRunMeansLeftDraft DEF Inductive
  <2> QED BY <1>2, <2>2, <2>3, QuietOrWrites
<1> QED BY <1>1, <1>2

LEMMA InductiveHolds == Spec => []Inductive
<1>1. Init => TypeOK /\ Refers /\ Inductive
  BY InitTyped, InitInductive
<1>2. TypeOK /\ Refers /\ Inductive /\ [Next]_vars =>
        (TypeOK /\ Refers /\ Inductive)'
  BY StepTyped, StepInductive
<1> QED BY <1>1, <1>2, PTL DEF Spec

\* However handlers, background tasks, retries, zombies and crashes interleave,
\* an application has one queued or running run at most.
THEOREM OneActiveRunHolds == Spec => []OneActiveRun
BY InductiveHolds, PTL DEF Inductive

\* An application in status "underwriting" has a queued or running run: no
\* commit of complete_run or fail_run settles the run without the application.
THEOREM UnderwritingHasActiveRunHolds == Spec => []UnderwritingHasActiveRun
BY InductiveHolds, PTL DEF Inductive

\* A run in status "completed" has results and a feature snapshot.
THEOREM CompletedRunHasResultsHolds == Spec => []CompletedRunHasResults
BY InductiveHolds, PTL DEF Inductive

\* An application in status "completed" has a run with results.
THEOREM CompletedAppHasResultsHolds == Spec => []CompletedAppHasResults
BY InductiveHolds, PTL DEF Inductive

\* An application with a run is there, and is never a draft again.
THEOREM RunMeansLeftDraftHolds == Spec => []RunMeansLeftDraft
BY InductiveHolds, PTL DEF Inductive

\* A session of complete_run or fail_run that would leave the status of the
\* application alone, because it read it as settled, works on a run that is not
\* active any more.
THEOREM StaleSessionIsSettledHolds == Spec => []StaleSessionIsSettled
BY InductiveHolds, PTL DEF Inductive

\* complete_run only gets to its commit with rows of results to insert.
THEOREM CommitHasRowsHolds == Spec => []CommitHasRows
BY InductiveHolds, PTL DEF Inductive
=============================================================================

----------------------------- MODULE PollingProofs -----------------------------
(* Theorems about Polling, and the lemmas they rest on. *)
EXTENDS Polling, TLAPS

RunStatuses == {"none", "queued", "running", "completed", "failed"}
Used(r) == r \in Runs /\ run[r] # "none"
Settled(status) == status \in {"completed", "failed"}
\* The latest run of the application.
Top(r) == Used(r) /\ \A x \in Runs : Used(x) => x <= r

-----------------------------------------------------------------------------
(* The server: runs are used in order, and one run at most is active, which *)
(* is the latest.                                                           *)

ServerTyped == /\ app \in [{App} -> {"submitted", "underwriting", "completed"}]
               /\ run \in [Runs -> RunStatuses]
               /\ owner \in [Runs -> {App, None}]
               /\ listed \in [Runs -> BOOLEAN]
OneAfterTheOther ==
    /\ \A x, y \in Runs : (Used(y) /\ x < y) => Used(x)
    /\ (\E x \in Runs : Used(x)) => \E r \in Runs : Top(r)
    /\ \A r \in Runs : run[r] \in Active =>
          Top(r) /\ owner[r] = App /\ app[App] = "underwriting"
    /\ app[App] = "underwriting" => \E r \in Runs : run[r] \in Active
ServerInv == ServerTyped /\ OneAfterTheOther

\* What a step of the server does to a page's knowledge: nothing that has
\* settled changes, and the application of a latest run that has settled stays.
Keeps == /\ \A r \in Runs : Settled(run[r]) => run'[r] = run[r] /\ listed'[r] = listed[r]
         /\ \A r \in Runs : Used(r) => Used(r)'
         /\ \A r \in Runs : (Settled(run[r]) /\ Top(r)') => Top(r) /\ app'[App] = app[App]

LEMMA LatestIsTop ==
    ASSUME ServerInv
    PROVE  /\ Latest = None => \A r \in Runs : ~ Used(r)
           /\ Latest # None => Top(Latest)
           /\ \A r \in Runs : Top(r) => Latest = r
<1> DEFINE S == {r \in Runs : run[r] # "none"}
<1>0. Runs \subseteq Nat /\ None \notin Runs
  BY PollingAssumption
<1>1. CASE S = {}
  BY <1>1 DEF Latest, Top, Used
<1>2. CASE S # {}
  <2>1. PICK t \in Runs : Top(t)
    BY <1>2 DEF ServerInv, OneAfterTheOther, Used
  <2>2. Latest = CHOOSE x \in S : \A y \in S : x >= y
    BY <1>2 DEF Latest, Max
  <2>3. t \in S /\ \A y \in S : t >= y
    BY <1>0, <2>1 DEF Top, Used
  <2>4. Latest \in S /\ \A y \in S : Latest >= y
    BY <2>2, <2>3
  <2>5. \A r \in Runs : Top(r) => Latest = r
    BY <1>0, <2>4 DEF Top, Used
  <2> QED BY <1>0, <2>4, <2>5 DEF Top, Used
<1> QED BY <1>1, <1>2

LEMMA QueueStep ==
    ASSUME ServerInv, NEW r \in Runs, Queue(r)
    PROVE  ServerInv' /\ Keeps /\ Top(r)'
<1>0. Runs \subseteq Nat /\ None \notin Runs
  BY PollingAssumption
<1>1. /\ run[r] = "none" /\ run' = [run EXCEPT ![r] = "queued"]
      /\ owner' = [owner EXCEPT ![r] = App]
      /\ app[App] # "underwriting" /\ app' = [app EXCEPT ![App] = "underwriting"]
      /\ listed' = listed
      /\ \A x \in Runs : run[x] = "none" => r <= x
  BY DEF Queue, Server!Queue
<1>2. ServerTyped'
  BY <1>1 DEF ServerInv, ServerTyped, RunStatuses
<1>3. \A x \in Runs : Used(x)' <=> Used(x) \/ x = r
  BY <1>1 DEF ServerInv, ServerTyped, Used
<1>4. \A x \in Runs : Used(x) => x < r
  BY <1>0, <1>1 DEF ServerInv, OneAfterTheOther, Used
<1>5. Top(r)'
  BY <1>0, <1>3, <1>4 DEF Top
<1>6. \A x \in Runs : run[x] \notin Active
  BY <1>1 DEF ServerInv, OneAfterTheOther
<1>7. \A x \in Runs : x # r => run'[x] = run[x] /\ owner'[x] = owner[x]
  BY <1>1 DEF ServerInv, ServerTyped
<1>8. run'[r] = "queued" /\ owner'[r] = App /\ app'[App] = "underwriting"
  BY <1>1 DEF ServerInv, ServerTyped
<1>9. OneAfterTheOther'
  <2>1. \A x, y \in Runs : (Used(y)' /\ x < y) => Used(x)'
    BY <1>0, <1>1, <1>3 DEF ServerInv, OneAfterTheOther, Used
  <2>2. \A x \in Runs : run'[x] \in Active => x = r
    BY <1>6, <1>7
  <2> QED BY <1>5, <1>8, <2>1, <2>2 DEF OneAfterTheOther, Active
<1>10. \A x \in Runs : Top(x)' => x = r
  BY <1>0, <1>5 DEF Top, Used
<1>11. Keeps
  BY <1>1, <1>3, <1>7, <1>10 DEF Keeps, Settled
<1> QED BY <1>2, <1>5, <1>9, <1>11 DEF ServerInv

LEMMA RunStepKeeps ==
    ASSUME ServerInv, RunStep
    PROVE  ServerInv' /\ Keeps
<1>1. PICK r \in Runs : Server!Begin(r) \/ Server!Complete(r) \/ Server!Fail(r)
  BY DEF RunStep
<1>2. /\ run[r] \in Active /\ Top(r) /\ owner[r] = App /\ app[App] = "underwriting"
      /\ owner' = owner
      /\ \/ run' = [run EXCEPT ![r] = "running"] /\ app' = app /\ listed' = listed
         \/ /\ run' = [run EXCEPT ![r] = "completed"]
            /\ app' = [app EXCEPT ![App] = "completed"]
            /\ listed' = [listed EXCEPT ![r] = TRUE]
         \/ /\ run' = [run EXCEPT ![r] = "failed"]
            /\ app' = [app EXCEPT ![App] = "submitted"]
            /\ listed' = listed
  <2>1. run[r] \in Active
    BY <1>1 DEF Server!Begin, Server!Complete, Server!Fail, Server!Active, Active
  <2>2. Top(r) /\ owner[r] = App /\ app[App] = "underwriting"
    BY <2>1 DEF ServerInv, OneAfterTheOther
  <2> QED BY <1>1, <2>1, <2>2
          DEF Server!Begin, Server!Complete, Server!Fail, Server!Settle
<1>3. ServerTyped'
  BY <1>2 DEF ServerInv, ServerTyped, RunStatuses
<1>4. \A x \in Runs : x # r => run'[x] = run[x] /\ listed'[x] = listed[x]
  BY <1>2 DEF ServerInv, ServerTyped
<1>5. run'[r] # "none" /\ (run'[r] \in Active <=> app'[App] = "underwriting")
  BY <1>2 DEF ServerInv, ServerTyped, Active
<1>6. \A x \in Runs : Used(x)' <=> Used(x)
  BY <1>2, <1>4, <1>5 DEF Used, Active
<1>7. \A x \in Runs : Top(x)' <=> Top(x)
  BY <1>6 DEF Top
<1>8. \A x \in Runs : run'[x] \in Active => x = r
  <2>1. \A x \in Runs : run[x] \in Active => Top(x)
    BY DEF ServerInv, OneAfterTheOther
  <2>2. \A x, y \in Runs : Top(x) /\ Top(y) => x = y
    BY PollingAssumption DEF Top
  <2> QED BY <1>2, <1>4, <2>1, <2>2
<1>9. OneAfterTheOther'
  <2>1. \A x, y \in Runs : (Used(y)' /\ x < y) => Used(x)'
    BY <1>6 DEF ServerInv, OneAfterTheOther
  <2> QED BY <1>2, <1>5, <1>7, <1>8, <2>1 DEF OneAfterTheOther
<1>10. Keeps
  <2>1. \A x \in Runs : Settled(run[x]) => x # r
    BY <1>2 DEF Settled, Active
  <2>2. \A x \in Runs : Settled(run[x]) => ~ Top(x)
    BY <1>2, <2>1, PollingAssumption DEF Top
  <2> QED BY <1>4, <1>6, <1>7, <2>1, <2>2 DEF Keeps
<1> QED BY <1>3, <1>9, <1>10 DEF ServerInv

-----------------------------------------------------------------------------
(* What a page or a request in flight knows *)

Answers == [status: {None, "submitted", "underwriting", "completed"},
            run: Runs \cup {None}, results: BOOLEAN,
            run_status: {None} \cup RunStatuses]
\* What is left to do of a request, by what its statements have read so far.
RunsLeft(todo) ==
    todo \in {Statements["list"], Statements["detail"], <<"runs", "results", "refresh">>}
ResultsLeft(todo) == todo \in {<<"results", "application">>, <<"results", "refresh">>}
StatusLeft(todo) == todo \in {<<"application">>, <<"refresh">>}

\* What holds of an answer once its runs, its results and its status are read.
KnowsRun(answer) ==
    answer.run # None => /\ Used(answer.run)
                         /\ answer.run_status \in RunStatuses \ {"none"}
                         /\ Settled(answer.run_status) => run[answer.run] = answer.run_status
HasSettled(answer) == answer.run # None /\ Settled(answer.run_status)
KnowsResults(answer) == HasSettled(answer) => answer.results = listed[answer.run]
KnowsStatus(answer) ==
    (HasSettled(answer) /\ Top(answer.run)) => answer.status = app[App]
Knows(answer) == KnowsRun(answer) /\ KnowsResults(answer) /\ KnowsStatus(answer)

Reached(todo, read) ==
    \/ RunsLeft(todo)
    \/ ResultsLeft(todo) /\ KnowsRun(read)
    \/ StatusLeft(todo) /\ KnowsRun(read) /\ KnowsResults(read)
    \/ todo = <<>> /\ Knows(read)
PageInv ==
    /\ page \in [kind: {"list", "detail"}, shown: Answers \cup {None}, error: BOOLEAN,
                 asking: BOOLEAN, todo: {page.todo}, read: Answers]
    /\ page.shown # None => Knows(page.shown)
    /\ page.asking => Reached(page.todo, page.read)

LEMMA Keeping ==
    ASSUME ServerInv, ServerInv', Keeps, NEW answer \in Answers
    PROVE  /\ KnowsRun(answer) => KnowsRun(answer)'
           /\ KnowsRun(answer) /\ KnowsResults(answer) => KnowsResults(answer)'
           /\ Knows(answer) => Knows(answer)'
<1>1. answer.run # None => answer.run \in Runs
  BY DEF Answers
<1> QED BY <1>1 DEF KnowsRun, KnowsResults, KnowsStatus, Knows, HasSettled, Keeps, Used

\* The pages are left alone while the server moves on.
LEMMA ServerStep ==
    ASSUME ServerInv, ServerInv', Keeps, PageInv, page' = page
    PROVE  PageInv'
<1>1. page.shown # None => Knows(page.shown)'
  BY Keeping DEF PageInv
<1>2. page.asking => Reached(page.todo, page.read)'
  BY Keeping DEF PageInv, Reached, RunsLeft, ResultsLeft, StatusLeft, Knows
<1> QED BY <1>1, <1>2 DEF PageInv, Answers, RunStatuses

LEMMA TodoSteps ==
    /\ Head(Statements["list"]) = "runs" /\ Tail(Statements["list"]) = <<"results", "application">>
    /\ Head(Statements["detail"]) = "application"
    /\ Tail(Statements["detail"]) = <<"runs", "results", "refresh">>
    /\ Head(<<"runs", "results", "refresh">>) = "runs"
    /\ Tail(<<"runs", "results", "refresh">>) = <<"results", "refresh">>
    /\ Head(<<"results", "application">>) = "results"
    /\ Tail(<<"results", "application">>) = <<"application">>
    /\ Head(<<"results", "refresh">>) = "results"
    /\ Tail(<<"results", "refresh">>) = <<"refresh">>
    /\ Head(<<"application">>) = "application" /\ Tail(<<"application">>) = <<>>
    /\ Head(<<"refresh">>) = "refresh" /\ Tail(<<"refresh">>) = <<>>
BY DEF Statements

LEMMA StatementStep ==
    ASSUME ServerInv, NEW todo, NEW read \in Answers, Reached(todo, read), todo # <<>>
    PROVE  /\ With(Head(todo), read) \in Answers
           /\ Reached(Tail(todo), With(Head(todo), read))
<1> DEFINE next(s) == With(s, read)
<1>1. read \in Answers
  OBVIOUS
<1>2. /\ next("application") = [read EXCEPT !.status = app[App]]
      /\ next("runs") = [read EXCEPT !.run = Latest,
              !.run_status = IF Latest = None THEN None ELSE run[Latest]]
      /\ next("results") = [read EXCEPT !.results = read.run # None /\ listed[read.run]]
      /\ next("refresh") = IF Settled(read.run_status)
                           THEN [read EXCEPT !.status = app[App]] ELSE read
  BY DEF With, Settled
<1>3. app[App] \in {"submitted", "underwriting", "completed"}
  BY DEF ServerInv, ServerTyped
<1>4. Latest \in Runs \cup {None} /\ (Latest # None => Used(Latest) /\ run[Latest] \in RunStatuses)
  BY LatestIsTop DEF Top, Used, ServerInv, ServerTyped
<1>5. next("application") \in Answers
  BY <1>1, <1>2, <1>3 DEF Answers
<1>6. next("runs") \in Answers /\ KnowsRun(next("runs"))
  <2>1. next("runs") \in Answers
    BY <1>1, <1>2, <1>4 DEF Answers
  <2>2. next("runs").run = Latest /\ (Latest # None => next("runs").run_status = run[Latest])
    BY <1>1, <1>2 DEF Answers
  <2> QED BY <1>4, <2>1, <2>2 DEF KnowsRun, Used
<1>7. ASSUME KnowsRun(read)
      PROVE  next("results") \in Answers /\ KnowsRun(next("results")) /\ KnowsResults(next("results"))
  <2>1. read.run # None => listed[read.run] \in BOOLEAN
    BY <1>7 DEF KnowsRun, Used, ServerInv, ServerTyped
  <2>2. /\ next("results").run = read.run /\ next("results").run_status = read.run_status
        /\ next("results").results = (read.run # None /\ listed[read.run])
    BY <1>1, <1>2 DEF Answers
  <2>3. next("results") \in Answers
    BY <1>1, <1>2, <2>1 DEF Answers
  <2>4. KnowsRun(next("results"))
    BY <1>7, <2>2 DEF KnowsRun
  <2>5. KnowsResults(next("results"))
    BY <2>1, <2>2 DEF KnowsResults, HasSettled
  <2> QED BY <2>3, <2>4, <2>5
<1>8. ASSUME KnowsRun(read), KnowsResults(read), NEW s \in {"application", "refresh"}
      PROVE  next(s) \in Answers /\ Knows(next(s))
  <2>1. /\ next(s).run = read.run /\ next(s).run_status = read.run_status
        /\ next(s).results = read.results
        /\ Settled(read.run_status) => next(s).status = app[App]
    BY <1>1, <1>2 DEF Answers
  <2>2. next(s) \in Answers
    BY <1>1, <1>2, <1>3 DEF Answers
  <2> QED BY <1>8, <2>1, <2>2 DEF Knows, KnowsRun, KnowsResults, KnowsStatus, HasSettled
<1>9. CASE RunsLeft(todo)
  <2>1. \/ Head(todo) = "application" /\ RunsLeft(Tail(todo))
        \/ Head(todo) = "runs" /\ ResultsLeft(Tail(todo))
    BY <1>9, TodoSteps DEF RunsLeft, ResultsLeft
  <2> QED BY <1>5, <1>6, <2>1 DEF Reached
<1>10. CASE ResultsLeft(todo) /\ KnowsRun(read)
  <2>1. Head(todo) = "results" /\ StatusLeft(Tail(todo))
    BY <1>10, TodoSteps DEF ResultsLeft, StatusLeft
  <2> QED BY <1>7, <1>10, <2>1 DEF Reached
<1>11. CASE StatusLeft(todo) /\ KnowsRun(read) /\ KnowsResults(read)
  <2>1. Head(todo) \in {"application", "refresh"} /\ Tail(todo) = <<>>
    BY <1>11, TodoSteps DEF StatusLeft
  <2> QED BY <1>8, <1>11, <2>1 DEF Reached
<1> QED BY <1>9, <1>10, <1>11 DEF Reached

LEMMA PageStep ==
    ASSUME ServerInv, PageInv, UNCHANGED server,
           Fetch \/ Read \/ Arrive \/ FetchFails \/ Started
    PROVE  PageInv'
<1>1. ASSUME NEW shown \in Answers \cup {None}, NEW error \in BOOLEAN,
             NEW asking \in BOOLEAN, NEW todo, NEW read \in Answers,
             shown # None => Knows(shown), asking => Reached(todo, read),
             page' = [page EXCEPT !.shown = shown, !.error = error, !.asking = asking,
                                  !.todo = todo, !.read = read]
      PROVE  PageInv'
  <2>1. /\ page'.shown = shown /\ page'.asking = asking
        /\ page'.todo = todo /\ page'.read = read
    BY <1>1 DEF PageInv
  <2>2. page' \in [kind: {"list", "detail"}, shown: Answers \cup {None}, error: BOOLEAN,
                   asking: BOOLEAN, todo: {page'.todo}, read: Answers]
    BY <1>1, <2>1 DEF PageInv
  <2>3. \A answer : Knows(answer) => Knows(answer)'
    BY DEF server, Knows, KnowsRun, KnowsResults, KnowsStatus, HasSettled, Top, Used
  <2>4. Reached(todo, read) => Reached(todo, read)'
    BY DEF server, Reached, Knows, KnowsRun, KnowsResults, KnowsStatus, HasSettled,
           Top, Used, RunsLeft, ResultsLeft, StatusLeft
  <2> QED BY <1>1, <2>1, <2>2, <2>3, <2>4 DEF PageInv, Answers, RunStatuses
<1>2. Blank \in Answers
  BY DEF Blank, Answers
<1>3. CASE Fetch \/ Started
  <2>1. page' = [page EXCEPT !.shown = page.shown, !.error = page.error, !.asking = TRUE,
                             !.todo = Statements[page.kind], !.read = Blank]
    BY <1>3 DEF Fetch, Started, Invalidated, Asking, PageInv
  <2>2. RunsLeft(Statements[page.kind])
    BY DEF PageInv, RunsLeft
  <2> QED BY <1>1, <1>2, <2>1, <2>2 DEF PageInv, Reached
<1>4. CASE Read
  <2> DEFINE read == With(Head(page.todo), page.read)
  <2>1. page' = [page EXCEPT !.shown = page.shown, !.error = page.error, !.asking = TRUE,
                             !.todo = Tail(page.todo), !.read = read]
    BY <1>4 DEF Read, PageInv
  <2>2. read \in Answers /\ Reached(Tail(page.todo), read)
    BY <1>4, StatementStep DEF Read, PageInv
  <2> QED BY <1>1, <2>1, <2>2 DEF PageInv
<1>5. CASE FetchFails
  <2>1. page' = [page EXCEPT !.shown = page.shown, !.error = TRUE, !.asking = FALSE,
                             !.todo = <<>>, !.read = Blank]
    BY <1>5 DEF FetchFails, Resting, PageInv
  <2> QED BY <1>1, <1>2, <2>1 DEF PageInv
<1>6. CASE Arrive
  <2>1. Knows(page.read) /\ page.read \in Answers
    BY <1>6, TodoSteps DEF Arrive, PageInv, Reached, RunsLeft, ResultsLeft, StatusLeft, Statements
  <2>2. page' = [page EXCEPT !.shown = page.read, !.error = FALSE, !.asking = FALSE,
                             !.todo = <<>>, !.read = Blank]
    BY <1>6 DEF Arrive, Resting, PageInv
  <2> QED BY <1>1, <1>2, <2>1, <2>2
<1> QED BY <1>3, <1>4, <1>5, <1>6

-----------------------------------------------------------------------------
(* The run that the page has started *)

\* The answers that follow the start of a run are about it or a later one.
Follows(answer) == answer.run \in Runs /\ answer.run >= start.run
StartInv ==
    /\ start \in [phase: {"none", "sent", "accepted"}, run: Runs \cup {None}]
    /\ start.run # None => Used(start.run)
    /\ (start.phase # "accepted" /\ start.run # None) =>
          /\ (page.asking /\ ~ RunsLeft(page.todo)) => Follows(page.read)
          /\ (~ page.asking /\ ~ page.error) => Follows(page.shown)

Inv == ServerInv /\ PageInv /\ StartInv

LEMMA InitInv == Init => Inv
<1> SUFFICES ASSUME Init PROVE Inv
  OBVIOUS
<1>1. ServerInv
  BY DEF Init, ServerInv, ServerTyped, OneAfterTheOther, Used, Active, RunStatuses
<1>2. PageInv
  <2>1. Blank \in Answers
    BY DEF Blank, Answers
  <2>2. page \in [kind: {"list", "detail"}, shown: {None}, error: {FALSE},
                  asking: {FALSE}, todo: {<<>>}, read: {Blank}]
    BY DEF Init
  <2>3. page.shown = None /\ page.asking = FALSE /\ page.read = Blank
    BY <2>2
  <2>4. page \in [kind: {"list", "detail"}, shown: Answers \cup {None}, error: BOOLEAN,
                  asking: BOOLEAN, todo: {page.todo}, read: Answers]
    BY <2>1, <2>2
  <2> QED BY <2>3, <2>4 DEF PageInv
<1>3. StartInv
  BY DEF Init, StartInv
<1> QED BY <1>1, <1>2, <1>3 DEF Inv

LEMMA ReadFollows ==
    ASSUME Inv, Read
    PROVE  StartInv'
<1> DEFINE read == With(Head(page.todo), page.read)
<1>1. /\ page.asking /\ page.todo # <<>> /\ Reached(page.todo, page.read)
      /\ page'.asking /\ page'.todo = Tail(page.todo) /\ page'.read = read
      /\ start' = start /\ run' = run
  BY DEF Inv, PageInv, Read, server
<1>2. page.read \in Answers
  BY DEF Inv, PageInv
<1>3. ASSUME start.phase # "accepted", start.run # None, ~ RunsLeft(Tail(page.todo))
      PROVE  Follows(read)
  <2>1. CASE RunsLeft(page.todo)
    <3>1. Head(page.todo) = "runs"
      BY <1>3, <2>1, TodoSteps DEF RunsLeft
    <3>2. With("runs", page.read).run = Latest
      BY <1>2 DEF With, Answers
    <3>3. Used(start.run)
      BY <1>3 DEF Inv, StartInv
    <3>4. Latest # None /\ Top(Latest)
      BY <3>3, LatestIsTop DEF Inv, Used
    <3> QED BY <3>1, <3>2, <3>3, <3>4, PollingAssumption DEF Follows, Top, Used
  <2>2. CASE ~ RunsLeft(page.todo)
    <3>1. Head(page.todo) \in {"results", "application", "refresh"}
      BY <1>1, <2>2, TodoSteps DEF Reached, ResultsLeft, StatusLeft
    <3>2. read.run = page.read.run
      BY <1>2, <3>1 DEF With, Answers
    <3>3. Follows(page.read)
      BY <1>1, <1>3, <2>2 DEF Inv, StartInv
    <3> QED BY <3>2, <3>3 DEF Follows
  <2> QED BY <2>1, <2>2
<1> QED BY <1>1, <1>3 DEF Inv, StartInv, Follows, Used, RunsLeft

\* A step either moves the server on, or one request of the page.
LEMMA NextInv == Inv /\ [Next]_vars => Inv'
<1> SUFFICES ASSUME Inv, [Next]_vars PROVE Inv'
  OBVIOUS
<1>0. start \in [phase: {"none", "sent", "accepted"}, run: Runs \cup {None}]
  BY DEF Inv, StartInv
<1>1. CASE (\E r \in Runs : Queue(r)) /\ UNCHANGED page /\ start' = start
  <2>1. ServerInv' /\ Keeps
    BY <1>1, QueueStep DEF Inv
  <2>2. PageInv'
    BY <1>1, <2>1, ServerStep DEF Inv
  <2>3. StartInv'
    BY <1>1, <2>1 DEF Inv, StartInv, Keeps, Follows, RunsLeft, Used
  <2> QED BY <2>1, <2>2, <2>3 DEF Inv
<1>2. CASE RunStep
  <2>1. ServerInv' /\ Keeps
    BY <1>2, RunStepKeeps DEF Inv
  <2>2. PageInv'
    BY <1>2, <2>1, ServerStep DEF Inv, RunStep
  <2>3. StartInv'
    BY <1>2, <2>1 DEF RunStep, Inv, StartInv, Keeps, Follows, RunsLeft, Used
  <2> QED BY <2>1, <2>2, <2>3 DEF Inv
<1>3. CASE Answer
  <2>1. CASE UNCHANGED server
    <3>1. start.phase = "sent" /\ start' = [start EXCEPT !.phase = "none"] /\ page' = page
      BY <1>3, <2>1 DEF Answer, Queue, Server!Queue, server, Inv, ServerInv, ServerTyped
    <3>2. start'.phase = "none" /\ start'.run = start.run
      BY <1>0, <3>1
    <3>3. StartInv'
      BY <1>0, <2>1, <3>1, <3>2 DEF Inv, StartInv, Follows, RunsLeft, Used, server
    <3>4. ServerInv'
      BY <2>1 DEF server, Inv, ServerInv, ServerTyped, OneAfterTheOther, Used, Top
    <3>5. Keeps
      BY <2>1 DEF Keeps, server, Top, Used
    <3> QED BY <3>1, <3>3, <3>4, <3>5, ServerStep DEF Inv
  <2>2. CASE \E r \in Runs : Queue(r) /\ start' = [phase |-> "accepted", run |-> r]
    <3>1. PICK r \in Runs : Queue(r) /\ start' = [phase |-> "accepted", run |-> r]
      BY <2>2
    <3>2. ServerInv' /\ Keeps /\ Top(r)' /\ page' = page
      BY <1>3, <3>1, QueueStep DEF Inv, Answer
    <3>3. StartInv'
      BY <3>1, <3>2 DEF StartInv, Top
    <3> QED BY <3>2, <3>3, ServerStep DEF Inv
  <2> QED BY <1>3, <2>1, <2>2 DEF Answer
<1>4. CASE UNCHANGED vars \/ Click \/ StartFails
  <2>0. UNCHANGED server /\ page' = page
    BY <1>4 DEF vars, Click, StartFails
  <2>1. StartInv'
    <3>1. CASE start' = start
      BY <2>0, <3>1 DEF Inv, StartInv, Follows, RunsLeft, Used, server
    <3>2. CASE Click
      <4>1. start.phase = "none" /\ start'.phase = "sent" /\ start'.run = start.run
            /\ start' = [start EXCEPT !.phase = "sent"]
        BY <1>0, <3>2 DEF Click
      <4> QED BY <1>0, <2>0, <4>1 DEF Inv, StartInv, Follows, RunsLeft, Used, server
    <3>3. CASE StartFails
      BY <2>0, <3>3 DEF StartFails, StartInv
    <3> QED BY <1>4, <3>1, <3>2, <3>3 DEF vars
  <2>2. ServerInv'
    BY <2>0 DEF server, Inv, ServerInv, ServerTyped, OneAfterTheOther, Used, Top
  <2>3. Keeps
    BY <2>0 DEF Keeps, server, Top, Used
  <2> QED BY <2>0, <2>1, <2>2, <2>3, ServerStep DEF Inv
<1>5. CASE Fetch \/ Read \/ Arrive \/ FetchFails \/ Started
  <2>0. UNCHANGED server
    BY <1>5 DEF Fetch, Read, Arrive, FetchFails, Started
  <2>1. PageInv'
    BY <1>5, <2>0, PageStep DEF Inv
  <2>2. ServerInv'
    BY <2>0 DEF server, Inv, ServerInv, ServerTyped, OneAfterTheOther, Used, Top
  <2>3. StartInv'
    <3>1. CASE Fetch \/ Started
      <4>1. page'.asking /\ page'.todo = Statements[page.kind]
        BY <3>1 DEF Fetch, Started, Invalidated, Asking, Inv, PageInv
      <4>2. RunsLeft(page'.todo)
        BY <4>1 DEF Inv, PageInv, RunsLeft
      <4>3. /\ start' \in [phase: {"none", "sent", "accepted"}, run: Runs \cup {None}]
            /\ start'.run = start.run
        BY <1>0, <3>1 DEF Fetch, Started
      <4> QED BY <2>0, <4>1, <4>2, <4>3 DEF Inv, StartInv, Used, server, RunsLeft
    <3>2. CASE Read
      BY <3>2, ReadFollows
    <3>3. CASE FetchFails
      <4>1. ~ page'.asking /\ page'.error /\ start' = start
        BY <3>3 DEF FetchFails, Resting, Inv, PageInv
      <4> QED BY <2>0, <4>1 DEF Inv, StartInv, Used, server
    <3>4. CASE Arrive
      <4>1. /\ ~ page'.asking /\ page'.shown = page.read /\ start' = start
            /\ page.asking /\ page.todo = <<>>
        BY <3>4 DEF Arrive, Resting, Inv, PageInv
      <4>2. ~ RunsLeft(page.todo)
        BY <4>1 DEF RunsLeft, Statements
      <4> QED BY <2>0, <4>1, <4>2 DEF Inv, StartInv, Used, Follows, server
    <3> QED BY <1>5, <3>1, <3>2, <3>3, <3>4
  <2> QED BY <2>1, <2>2, <2>3 DEF Inv
<1> QED BY <1>1, <1>2, <1>3, <1>4, <1>5
        DEF Next, vars, StartElsewhere, Open, Load, Poll, Click, StartFails

LEMMA InvHolds == Spec => []Inv
<1> QED BY InitInv, NextInv, PTL DEF Spec

\* Whatever interleaves with the statements of a read, a page that stops asking
\* shows the latest run it knows, its results and the application as they are.
THEOREM StoppedPageIsCurrentHolds == Spec => []StoppedPageIsCurrent
<1>1. Inv => StoppedPageIsCurrent
  <2> SUFFICES ASSUME Inv, page.shown # None, ~ Busy(page.shown),
                      page.shown.run # None, page.shown.run = Latest
               PROVE  page.shown = [status |-> app[App], run |-> Latest,
                                    run_status |-> run[Latest], results |-> listed[Latest]]
    BY DEF StoppedPageIsCurrent
  <2>1. Knows(page.shown) /\ page.shown \in Answers
    BY DEF Inv, PageInv
  <2>2. Settled(page.shown.run_status)
    BY <2>1 DEF Busy, Knows, KnowsRun, Settled, RunStatuses, Active
  <2>3. Top(Latest)
    BY LatestIsTop DEF Inv
  <2> QED BY <2>1, <2>2, <2>3
          DEF Knows, KnowsRun, KnowsResults, KnowsStatus, HasSettled, Answers
<1> QED BY <1>1, InvHolds, PTL

\* After its start was accepted, the detail page does not come to rest on an
\* answer older than the run it started.
THEOREM StartIsFollowedHolds == Spec => []StartIsFollowed
<1>1. Inv => StartIsFollowed
  BY PollingAssumption DEF Inv, StartInv, StartIsFollowed, Follows
<1> QED BY <1>1, InvHolds, PTL
=============================================================================

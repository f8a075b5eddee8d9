------------------------------- MODULE Polling -------------------------------
(***************************************************************************)
(* The pages that show an application while it is underwritten: the list   *)
(* and the detail page (frontend/src/api/hooks.ts) and the reads that      *)
(* answer them (list_applications and _out of app/api/applications.py).    *)
(* Every statement of a read sees what is committed when it runs, so that  *)
(* an answer may combine several states of the server, and a page asks     *)
(* again only as long as its last answer looks busy.                       *)
(*                                                                         *)
(* The server is RunLifecycle with one application that was submitted.     *)
(* One page is open, the list or the detail page; runs are started on the  *)
(* detail page or by somebody else.                                        *)
(***************************************************************************)
EXTENDS FiniteSetsExt, Sequences, Integers

CONSTANTS App, Runs,  \* an application and its possible runs, in order of creation
          None,
          MaxErrors   \* bound on requests that fail

\* The statements of a read, in the order of the code.
Statements == [list |-> <<"runs", "results", "application">>,
               detail |-> <<"application", "runs", "results", "refresh">>]
Blank == [status |-> None, run |-> None, run_status |-> None, results |-> FALSE]

ASSUME PollingAssumption == Runs \subseteq Nat /\ None \notin Runs /\ MaxErrors \in Nat

VARIABLES app, run, owner, listed,  \* the server
          page,    \* which page it is, what it shows; whether it asks, the statements
             \* that are left of its request, and what they have read
          start,   \* the request to start a run that the detail page sent last
          errors   \* failed requests so far

server == <<app, run, owner, listed>>
vars == <<server, page, start, errors>>

Server == INSTANCE RunLifecycle WITH Apps <- {App}, NoApp <- None

Active == {"queued", "running"}

Latest == LET runs == {r \in Runs : run[r] # "none"}
          IN  IF runs = {} THEN None ELSE Max(runs)

Init == /\ app = [a \in {App} |-> "submitted"]
        /\ run = [r \in Runs |-> "none"]
        /\ owner = [r \in Runs |-> None]
        /\ listed = [r \in Runs |-> FALSE]
        /\ page \in [kind: {"list", "detail"}, shown: {None}, error: {FALSE},
                     asking: {FALSE}, todo: {<<>>}, read: {Blank}]
        /\ start = [phase |-> "none", run |-> None]
        /\ errors = 0

-----------------------------------------------------------------------------
(* Runs on the server *)

\* start_run: runs are created in order.
Queue(r) == (\A x \in Runs : run[x] = "none" => r <= x) /\ Server!Queue(App, r)
StartElsewhere == (\E r \in Runs : Queue(r)) /\ UNCHANGED <<page, start, errors>>
RunStep == /\ \E r \in Runs : Server!Begin(r) \/ Server!Complete(r) \/ Server!Fail(r)
           /\ UNCHANGED <<page, start, errors>>

-----------------------------------------------------------------------------
(* Pages *)

\* Mutants: an answer is busy by its status, or by its run, alone.
BusyByStatus(shown) == shown # None /\ shown.status = "underwriting"
BusyByRun(shown) == shown # None /\ shown.run_status \in Active
\* isBusy
Busy(shown) == shown # None /\ (\/ shown.status = "underwriting"
                                \/ shown.run_status \in Active)

Asking == [page EXCEPT !.asking = TRUE, !.todo = Statements[page.kind], !.read = Blank]
Resting(shown, error) ==
    [page EXCEPT !.asking = FALSE, !.todo = <<>>, !.read = Blank,
                 !.shown = shown, !.error = error]
Fetch == /\ ~page.asking
         /\ page' = Asking
         /\ UNCHANGED <<server, start, errors>>
\* The page is opened, or opened again.
Open == Fetch
\* refetchInterval
Poll == Busy(page.shown) /\ Fetch

\* What the next statement of a read adds: _latest_runs loads the runs and then
\* their results, and _out reads the status again when the run has settled.
With(statement, read) ==
    CASE statement = "application" -> [read EXCEPT !.status = app[App]]
      [] statement = "runs" ->
            [read EXCEPT !.run = Latest,
                         !.run_status = IF Latest = None THEN None ELSE run[Latest]]
      [] statement = "results" ->
            [read EXCEPT !.results = read.run # None /\ listed[read.run]]
      [] statement = "refresh" ->
            IF read.run_status \in {"completed", "failed"}
            THEN [read EXCEPT !.status = app[App]] ELSE read
Read ==
    /\ page.asking /\ page.todo # <<>>
    /\ page' = [page EXCEPT !.todo = Tail(@), !.read = With(Head(page.todo), @)]
    /\ UNCHANGED <<server, start, errors>>
Arrive ==
    /\ page.asking /\ page.todo = <<>>
    /\ page' = Resting(page.read, FALSE)
    /\ UNCHANGED <<server, start, errors>>
\* A request failed, its retries too: the page shows an error.
FetchFails ==
    /\ page.asking /\ errors < MaxErrors
    /\ page' = Resting(page.shown, TRUE)
    /\ errors' = errors + 1
    /\ UNCHANGED <<server, start>>

-----------------------------------------------------------------------------
(* Starting a run on the detail page *)

\* The button is disabled while a start is pending or the page says underwriting.
Click ==
    /\ page.kind = "detail" /\ start.phase = "none"
    /\ page.shown # None /\ ~page.error /\ page.shown.status # "underwriting"
    /\ start' = [start EXCEPT !.phase = "sent"]
    /\ UNCHANGED <<server, page, errors>>
\* start_run commits a run, or answers with an error.
Answer ==
    /\ start.phase = "sent"
    /\ \/ \E r \in Runs : Queue(r) /\ start' = [phase |-> "accepted", run |-> r]
       \/ /\ app[App] \notin {"submitted", "completed"}
          /\ start' = [start EXCEPT !.phase = "none"] /\ UNCHANGED server
    /\ UNCHANGED <<page, errors>>
\* Mutant: a request in flight is not given up.
JoinRequest == IF page.asking THEN page ELSE Asking
\* invalidateQueries gives up what is in flight and asks again.
Invalidated == Asking
\* onSuccess of useStartRun
Started ==
    /\ start.phase = "accepted"
    /\ start' = [start EXCEPT !.phase = "none"]
    /\ page' = Invalidated
    /\ UNCHANGED <<server, errors>>
\* The answer is lost: the page shows an error beside what it showed.
StartFails ==
    /\ start.phase \in {"sent", "accepted"} /\ errors < MaxErrors
    /\ start' = [phase |-> "none", run |-> None]
    /\ errors' = errors + 1
    /\ UNCHANGED <<server, page>>

Load == Poll \/ Read \/ Arrive
Next == \/ StartElsewhere \/ RunStep
        \/ Open \/ Load \/ FetchFails
        \/ Click \/ Answer \/ Started \/ StartFails

Spec == Init /\ [][Next]_vars

\* Runs settle, which Underwriting shows; timers fire and requests are answered.
FairSpec == Spec /\ WF_vars(RunStep) /\ WF_vars(Load)

-----------------------------------------------------------------------------
(* Properties *)

\* "The client keeps polling until both agree": a page that does not ask again
\* shows the run, its results and the status of the application as they are on
\* the server, unless a later run was started there.
StoppedPageIsCurrent ==
    LET shown == page.shown
    IN  (shown # None /\ ~Busy(shown) /\ shown.run # None /\ shown.run = Latest) =>
            shown = [status |-> app[App], run |-> Latest, run_status |-> run[Latest],
                     results |-> listed[Latest]]

\* A run that was started on the detail page is what the page shows next: it
\* does not come to rest on an answer that is older than its own run, unless it
\* says that it could not ask.
StartIsFollowed ==
    (start.phase = "none" /\ start.run # None /\ ~page.asking /\ ~page.error) =>
        page.shown.run # None /\ page.shown.run >= start.run

\* No page shows for ever that an application is being underwritten.
Underway == page.shown # None /\ (\/ page.shown.status = "underwriting"
                                  \/ page.shown.run_status \in Active)
PageComesToRest == Underway ~> ~Underway
=============================================================================

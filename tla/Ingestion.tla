------------------------------- MODULE Ingestion -------------------------------
(***************************************************************************)
(* The ingestion of lender guideline PDFs: upload, retry, and the steps    *)
(* that turn a document into a draft (app/api/ingestion.py, services/      *)
(* ingestion.py), driven in-process or by the Hatchet workflow of          *)
(* workflows/ingestion.py.  Reviewers work on the drafts meanwhile; what   *)
(* they do is one step each here, and interleaved in PolicyLifecycle.      *)
(*                                                                         *)
(* The content of a version is named by the document it was built from;    *)
(* ingestion does not read a draft, so edits are left to PolicyLifecycle.  *)
(*                                                                         *)
(* A worker keeps what its session read until it commits.  The in-process  *)
(* driver uses one session for the whole job, and a session returns the    *)
(* job it loaded first.  Names that share a slug are one name.             *)
(***************************************************************************)
EXTENDS Extraction, TLC

CONSTANTS
    Jobs, Lenders, Versions,  \* identifiers of rows
    Sessions, Workers,        \* handlers of retry_job; threads that run steps
    Documents, Extracted,     \* guidelines, and what the model reads in each
    Names,                    \* what an uploader may call a new lender
    UseHatchet,               \* settings.use_hatchet
    Attempts,                 \* attempts of a Hatchet task, 1 + retries
    Existing, Policies,       \* the lenders there are already, and their versions
    Reviews,                  \* what reviewers do: "publish", "discard", "delete"
    Faults, MaxFaults,        \* what may go wrong, and how often
    MaxRetries, MaxDeleted    \* bounds on calls of retry_job, and on deletions

ASSUME IngestionAssumption ==
    /\ None \notin Jobs \cup Lenders \cup Versions \cup Names \cup Documents
    /\ DOMAIN Extracted = Documents
    /\ \A d \in Documents :
          \A rule \in Extracted[d].rules \cup UNION {p.rules : p \in Extracted[d].programs} :
              "label" \in DOMAIN rule
    /\ UseHatchet \in BOOLEAN
    /\ Attempts \in Nat \ {0}
    /\ MaxFaults \in Nat /\ MaxRetries \in Nat /\ MaxDeleted \in Nat
    /\ DOMAIN Existing \subseteq Lenders /\ DOMAIN Policies \subseteq Versions

VARIABLES
    job,         \* the rows of ingestion_jobs, None while absent
    lender,      \* the names of the rows of lenders
    version,     \* the rows of policy_versions with their content
    deleted,     \* the keys of deleted rows, which are not used again
    session,     \* the job each retry_job has loaded and found failed
    background,  \* tasks scheduled on the API process, by job
    flow,        \* the Hatchet workflow of each job
    worker,      \* the step each worker is at, and what it has read
    faults,      \* faults so far
    retries      \* calls of retry_job so far

vars == <<job, lender, version, deleted, session, background, flow, worker, faults, retries>>
rows == <<job, lender, version, deleted>>
queues == <<background, flow>>

Statuses == {"uploaded", "extracting", "draft_ready", "failed"}
Tasks == {"prepare", "extract", "draft", "on_failure"}
Steps == {"idle", "mark", "marking", "extract", "draft", "drafting", "fail",
          "failing", "done"}

Errors == {None, "integrity", "other"}

\* What each document becomes.
Draft == [d \in Documents |-> BuildDraft(Extracted[d])]
LenderNames == Names \cup {Extracted[d].lender_name : d \in Documents}
                     \cup {Existing[l] : l \in DOMAIN Existing}
JobRow == [status: Statuses, error: Errors, lender: Lenders \cup {None},
           name: Names \cup {None}, version: Versions \cup {None},
           document: Documents \cup {None},
           dropped: {{}} \cup {Draft[d].dropped : d \in Documents}]
VersionRow == [lender: Lenders, status: {"draft", "published", "archived"},
               source: Jobs \cup {None}, document: Documents]

\* The constraints of the schema hold of the rows that there are.
ASSUME RowsAssumption ==
    /\ None \notin JobRow \cup VersionRow \cup LenderNames
    /\ \A l, k \in DOMAIN Existing : Existing[l] = Existing[k] => l = k
    /\ \A v \in DOMAIN Policies : /\ Policies[v] \in VersionRow
                                  /\ Policies[v].lender \in DOMAIN Existing
                                  /\ Policies[v].source = None
    /\ \A u, v \in DOMAIN Policies :
          (/\ Policies[u].lender = Policies[v].lender
           /\ Policies[u].status = Policies[v].status
           /\ Policies[u].status \in {"draft", "published"}) => u = v

Idle == [job |-> None, task |-> "none", step |-> "idle", live |-> FALSE,
         seen |-> None, document |-> None, error |-> None, target |-> None,
         base |-> {}, known |-> {}]
\* A workflow whose next task is due, with the output of the task before.
Due(task, document) ==
    [task |-> task, tries |-> 0, given |-> FALSE, document |-> document]

Init == /\ job = [j \in Jobs |-> None]
        /\ lender = [l \in Lenders |-> IF l \in DOMAIN Existing THEN Existing[l] ELSE None]
        /\ version = [v \in Versions |-> IF v \in DOMAIN Policies THEN Policies[v] ELSE None]
        /\ deleted = {}
        /\ session = [s \in Sessions |-> None]
        /\ background = [j \in Jobs |-> 0]
        /\ flow = [j \in Jobs |-> Due("none", None)]
        /\ worker = [w \in Workers |-> Idle]
        /\ faults = 0
        /\ retries = 0

Fault(kind) == kind \in Faults /\ faults < MaxFaults /\ faults' = faults + 1
NoFault == UNCHANGED faults

-----------------------------------------------------------------------------
(* The policies *)

VersionsOf(l) == {v \in Versions : version[v] # None /\ version[v].lender = l}
Of(l, status) == {v \in VersionsOf(l) : version[v].status = status}
Called(name) == {l \in Lenders : lender[l] # None /\ lender[l] = name}
Programs(V) == UNION {Draft[version[v].document].programs : v \in V}
\* Mutant: an existing row is overwritten.
Reused(row) == CHOOSE key \in DOMAIN row : key \notin deleted
\* A key that was never used; which one does not matter.
Unused(row) == {key \in DOMAIN row : row[key] = None /\ key \notin deleted}
Fresh(row) == CHOOSE key \in Unused(row) : TRUE
\* validation_errors finds none.
Publishable(v) == LET policy == Draft[version[v].document]
                  IN  policy.programs # {} /\ ValidPolicy(policy)
\* ON DELETE SET NULL of the jobs that point at removed rows.
Unlinked(l, V) ==
    [j \in Jobs |-> IF job[j] = None THEN None
                    ELSE [job[j] EXCEPT !.lender = IF @ = l THEN None ELSE @,
                                        !.version = IF @ \in V THEN None ELSE @]]

Publish(v) ==
    /\ "publish" \in Reviews /\ version[v] # None /\ version[v].status = "draft"
    /\ Publishable(v)
    /\ version' = [u \in Versions |->
          IF u = v THEN [version[v] EXCEPT !.status = "published"]
          ELSE IF u \in Of(version[v].lender, "published")
               THEN [version[u] EXCEPT !.status = "archived"] ELSE version[u]]
    /\ UNCHANGED <<job, lender, deleted>>
Discard(v) ==
    /\ "discard" \in Reviews /\ version[v] # None /\ version[v].status = "draft"
    /\ version' = [version EXCEPT ![v] = None]
    /\ job' = Unlinked(None, {v})
    /\ deleted' = deleted \cup {v}
    /\ UNCHANGED lender
\* delete_lender, of a lender without match results.
DeleteLender(l) ==
    /\ "delete" \in Reviews /\ lender[l] # None
    /\ LET gone == VersionsOf(l)
       IN  /\ version' = [v \in Versions |-> IF v \in gone THEN None ELSE version[v]]
           /\ job' = Unlinked(l, gone)
           /\ deleted' = deleted \cup gone \cup {l}
    /\ lender' = [lender EXCEPT ![l] = None]

Review == /\ \/ \E v \in Versions : Publish(v) \/ Discard(v)
             \/ \E l \in Lenders : DeleteLender(l)
          /\ Cardinality(deleted') <= MaxDeleted /\ NoFault
          /\ UNCHANGED <<session, queues, worker, retries>>

-----------------------------------------------------------------------------
(* Upload and retry *)

\* store_upload: for an existing lender without a draft, or for a new name.
Accepts(l, name) ==
    IF l = None THEN name # None ELSE lender[l] # None /\ Of(l, "draft") = {}

\* upload_guidelines: store and commit, then dispatch.  When run_no_wait raises,
\* the job runs in-process, also if Hatchet had accepted it.
Upload(j, l, name) ==
    /\ job[j] = None /\ Accepts(l, name)
    /\ job' = [job EXCEPT ![j] = [status |-> "uploaded", error |-> None, lender |-> l,
                                  name |-> name, version |-> None,
                                  document |-> None, dropped |-> {}]]
    /\ LET hatchet == [flow EXCEPT ![j] = Due("prepare", None)]
           inProcess == [background EXCEPT ![j] = @ + 1]
       IN  \/ UseHatchet /\ NoFault /\ flow' = hatchet /\ UNCHANGED background
           \/ /\ IF UseHatchet THEN Fault("unreachable") ELSE NoFault
              /\ background' = inProcess /\ UNCHANGED flow
           \/ /\ UseHatchet /\ Fault("ambiguous")
              /\ background' = inProcess /\ flow' = hatchet
    /\ UNCHANGED <<lender, version, deleted, session, worker, retries>>

\* retry_job: the check, then the commit; a retry always runs in-process.
RetryLoad(s, j) ==
    /\ session[s] = None /\ retries < MaxRetries
    /\ job[j] # None /\ job[j].status = "failed"
    /\ session' = [session EXCEPT ![s] = j]
    /\ retries' = retries + 1 /\ NoFault
    /\ UNCHANGED <<rows, queues, worker>>
RetryCommit(s) ==
    /\ session[s] # None
    /\ job' = [job EXCEPT ![session[s]].status = "uploaded", ![session[s]].error = None]
    /\ background' = [background EXCEPT ![session[s]] = @ + 1]
    /\ session' = [session EXCEPT ![s] = None] /\ NoFault
    /\ UNCHANGED <<lender, version, deleted, flow, worker, retries>>

-----------------------------------------------------------------------------
(* The drivers *)

\* execute_job takes a task of the background queue.
BeginSync(w, j) ==
    /\ worker[w] = Idle /\ background[j] > 0
    /\ background' = [background EXCEPT ![j] = @ - 1]
    /\ worker' = [worker EXCEPT ![w] = [Idle EXCEPT !.job = j, !.task = "sync",
                                                    !.step = "mark"]]
    /\ UNCHANGED flow
FirstStep == [prepare |-> "mark", extract |-> "mark", draft |-> "draft",
              on_failure |-> "fail"]
\* Hatchet hands out an attempt of the current task.
BeginAttempt(w, j) ==
    /\ worker[w] = Idle /\ flow[j].task \in Tasks /\ ~flow[j].given
    /\ flow' = [flow EXCEPT ![j].given = TRUE]
    /\ worker' = [worker EXCEPT ![w] =
          [Idle EXCEPT !.job = j, !.task = flow[j].task, !.live = TRUE,
                       !.document = flow[j].document,
                       !.step = FirstStep[flow[j].task]]]
    /\ UNCHANGED background
Begin(w) == /\ \E j \in Jobs : BeginSync(w, j) \/ BeginAttempt(w, j)
            /\ NoFault /\ UNCHANGED <<rows, session, retries>>

\* Mutant: the last step is followed by another.
FollowingOneTooMany ==
    [prepare |-> "extract", extract |-> "draft", draft |-> "notify", on_failure |-> "failed"]
\* The workflow of a job after its task succeeded.
Following ==
    [prepare |-> "extract", extract |-> "draft", draft |-> "succeeded", on_failure |-> "failed"]
Succeeded(f, document) == Due(Following[f.task], document)
\* Mutant: nothing follows the last attempt.
FailedSilently(f) == IF f.tries + 1 < Attempts
                     THEN [f EXCEPT !.tries = @ + 1, !.given = FALSE]
                     ELSE Due("failed", None)
Failed(f) == IF f.task = "on_failure" THEN Due("failed", None)
             ELSE IF f.tries + 1 < Attempts
             THEN [f EXCEPT !.tries = @ + 1, !.given = FALSE]
             ELSE Due("on_failure", None)

At(w, step) == worker[w].step = step
Finish(w) == worker' = [worker EXCEPT ![w] = Idle]
\* The end of a step's session: of the job in-process, of an attempt otherwise.
Leave(w) ==
    worker' = [worker EXCEPT ![w] =
        IF @.task = "sync" THEN Idle
        ELSE [worker[w] EXCEPT !.step = "done", !.seen = None, !.target = None,
                               !.base = {}, !.known = {}]]
\* An exception: execute_job goes on to record it, an attempt fails.
Raise(w, error) ==
    IF worker[w].task = "sync"
    THEN /\ worker' = [worker EXCEPT ![w] = [Idle EXCEPT !.job = worker[w].job,
              !.task = "sync", !.step = "fail", !.error = error]]
         /\ UNCHANGED flow
    ELSE /\ Finish(w)
         /\ flow' = IF worker[w].live
                    THEN [flow EXCEPT ![worker[w].job] = Failed(@)] ELSE flow

-----------------------------------------------------------------------------
(* The steps.  An attribute set to the value it was read with is not in the *)
(* UPDATE of the commit.                                                    *)

Written(w, attribute, value, current) ==
    IF worker[w].seen[attribute] = value THEN current ELSE value

MarkRead(w) ==
    /\ At(w, "mark")
    /\ worker' = [worker EXCEPT ![w].seen = job[worker[w].job], ![w].step = "marking"]
    /\ UNCHANGED <<rows, flow>>
MarkCommit(w) ==
    LET j == worker[w].job
    IN  /\ At(w, "marking")
        /\ job' = [job EXCEPT ![j].status = Written(w, "status", "extracting", @),
                              ![j].error = Written(w, "error", None, @)]
        /\ IF worker[w].task = "prepare" THEN Leave(w)
           ELSE worker' = [worker EXCEPT ![w].seen.status = "extracting",
                                         ![w].seen.error = None, ![w].step = "extract"]
        /\ UNCHANGED <<lender, version, deleted, flow>>
\* extract_policy: the provider answers with one of the documents.
Extract(w) ==
    /\ At(w, "extract")
    /\ \E d \in Documents :
          worker' = [worker EXCEPT ![w] =
              IF @.task = "sync" THEN [@ EXCEPT !.document = d, !.step = "draft"]
              ELSE [@ EXCEPT !.document = d, !.step = "done", !.seen = None]]
    /\ UNCHANGED <<rows, flow>>

\* The name of the lender: as typed by the uploader, or as read.
NameFor(seen, document) ==
    IF seen.name # None THEN seen.name ELSE Extracted[document].lender_name

\* create_draft up to its writes: the job as the session knows it, the lender it
\* is for, and the lender's versions.  A draft of the lender ends the attempt,
\* also one of this job: it is deleted from the database but stays in the loaded
\* collection, so that the clone is the deleted row and its flush raises.
DraftRead(w) ==
    LET seen == IF worker[w].seen = None THEN job[worker[w].job] ELSE worker[w].seen
        name == NameFor(seen, worker[w].document)
        existing == IF seen.lender # None THEN {seen.lender} ELSE Called(name)
        target == IF existing = {} THEN None ELSE CHOOSE l \in existing : TRUE
        drafts == IF target = None THEN {} ELSE Of(target, "draft")
    IN  /\ At(w, "draft")
        /\ IF target # None /\ lender[target] = None THEN Raise(w, "other")
           ELSE IF drafts # {}
           THEN Raise(w, IF seen.version \in drafts THEN "integrity" ELSE "other")
           ELSE /\ worker' = [worker EXCEPT ![w].seen = seen, ![w].target = target,
                     ![w].base = Of(target, "published"),
                     ![w].known = VersionsOf(target), ![w].step = "drafting"]
                /\ UNCHANGED flow
        /\ UNCHANGED rows

Ranks(programs) == {p.rank : p \in programs}
\* Mutant: the schema allows a lender several drafts.
StorableBesideDrafts(w, programs) ==
    /\ worker[w].target = None \/ lender[worker[w].target] # None
    /\ Ranks(programs) \cap Ranks(Programs(worker[w].base)) = {}

\* The constraints the flush of a draft has to meet: a new lender's name is free,
\* an old one still exists without a draft, its number has not been given since,
\* and no two programs of the version share a rank, where those of the clone are
\* only deleted after the insertions.
Storable(w, programs) ==
    LET target == worker[w].target
    IN  /\ IF target = None
           THEN Called(NameFor(worker[w].seen, worker[w].document)) = {}
           ELSE /\ lender[target] # None /\ Of(target, "draft") = {}
                /\ VersionsOf(target) \subseteq worker[w].known
        /\ \A p, q \in programs : p.rank = q.rank => p = q
        /\ Ranks(programs) \cap Ranks(Programs(worker[w].base)) = {}

\* create_draft: lender, version and job in one commit, or none of them.
DraftCommit(w) ==
    LET j == worker[w].job
        seen == worker[w].seen
        document == worker[w].document
        name == NameFor(seen, document)
    IN  /\ At(w, "drafting")
        /\ IF ~Storable(w, Draft[document].programs) THEN Raise(w, "integrity") /\ UNCHANGED rows
           ELSE /\ Unused(version) # {}
                /\ worker[w].target = None => Unused(lender) # {}
                /\ LET v == Fresh(version)
                       l == IF worker[w].target = None THEN Fresh(lender)
                            ELSE worker[w].target
                   IN  /\ lender' = IF worker[w].target = None
                                    THEN [lender EXCEPT ![l] = name] ELSE lender
                       /\ version' = [version EXCEPT ![v] =
                             [lender |-> l, status |-> "draft", source |-> j, document |-> document]]
                       /\ job' = [job EXCEPT
                             ![j].status = Written(w, "status", "draft_ready", @),
                             ![j].lender = Written(w, "lender", l, @),
                             ![j].version = v,
                             ![j].document = document,
                             ![j].dropped = Draft[document].dropped]
                       /\ UNCHANGED deleted
                       /\ Leave(w)
                       /\ UNCHANGED flow

\* fail_job, in a session of its own.
FailRead(w) ==
    /\ At(w, "fail")
    /\ worker' = [worker EXCEPT ![w].seen = job[worker[w].job], ![w].step = "failing"]
    /\ UNCHANGED <<rows, flow>>
FailCommit(w) ==
    LET j == worker[w].job
        error == IF worker[w].error = None THEN "other" ELSE worker[w].error
    IN  /\ At(w, "failing")
        /\ job' = [job EXCEPT ![j].status = Written(w, "status", "failed", @),
                              ![j].error = Written(w, "error", error, @)]
        /\ Leave(w)
        /\ UNCHANGED <<lender, version, deleted, flow>>
Done(w) ==
    /\ At(w, "done")
    /\ Finish(w)
    /\ flow' = IF worker[w].live
               THEN [flow EXCEPT ![worker[w].job] = Succeeded(@, worker[w].document)]
               ELSE flow
    /\ UNCHANGED rows

Step(w) == /\ \/ MarkRead(w) \/ MarkCommit(w) \/ Extract(w)
              \/ DraftRead(w) \/ DraftCommit(w)
              \/ FailRead(w) \/ FailCommit(w) \/ Done(w)
           /\ NoFault /\ UNCHANGED <<session, background, retries>>

-----------------------------------------------------------------------------
(* Faults: a step raises (an unreadable PDF, a provider that declines, a     *)
(* lost database connection); Hatchet never hears of a success, or gives up  *)
(* on an attempt that goes on, which is the fault named as its task.         *)

Error(w) == /\ worker[w].step \in {"marking", "extract", "drafting"}
            /\ Fault("error") /\ Raise(w, "other")
Unheard(w) == /\ At(w, "done") /\ worker[w].live
              /\ Fault("lost") /\ Finish(w)
              /\ flow' = [flow EXCEPT ![worker[w].job] = Failed(@)]
Overrun(w) == /\ worker[w].live
              /\ Fault(worker[w].task)
              /\ worker' = [worker EXCEPT ![w].live = FALSE]
              /\ flow' = [flow EXCEPT ![worker[w].job] = Failed(@)]
Disturb(w) == /\ Error(w) \/ Unheard(w) \/ Overrun(w)
              /\ UNCHANGED <<rows, session, background, retries>>

Client == \/ \E j \in Jobs, l \in Lenders \cup {None}, name \in Names \cup {None} :
                Upload(j, l, name)
          \/ \E s \in Sessions, j \in Jobs : RetryLoad(s, j)
Next == \/ Client
        \/ \E s \in Sessions : RetryCommit(s)
        \/ \E w \in Workers : Begin(w) \/ Step(w) \/ Disturb(w)
        \/ Review

Spec == Init /\ [][Next]_vars

\* The threads of the API process and the workers of Hatchet run what they have,
\* and a handler that has loaded a job commits.
Fairness == /\ \A w \in Workers : WF_vars(Begin(w)) /\ WF_vars(Step(w))
            /\ \A s \in Sessions : WF_vars(RetryCommit(s))
FairSpec == Spec /\ Fairness

-----------------------------------------------------------------------------
(* Properties *)

Active(j) == job[j] # None /\ job[j].status \in {"uploaded", "extracting"}
Drafted(j) == job[j] # None /\ job[j].version # None
Ingested(v) == version[v] # None /\ version[v].source \in Jobs

Worker == [job: Jobs \cup {None}, task: Tasks \cup {"none", "sync"}, step: Steps,
           live: BOOLEAN, seen: JobRow \cup {None}, document: Documents \cup {None},
           error: Errors, target: Lenders \cup {None},
           base: SUBSET Versions, known: SUBSET Versions]
Flow == [task: Tasks \cup {"none", "succeeded", "failed"}, tries: 0..(Attempts - 1),
         given: BOOLEAN, document: Documents \cup {None}]

TypeOK ==
    /\ job \in [Jobs -> JobRow \cup {None}]
    /\ lender \in [Lenders -> LenderNames \cup {None}]
    /\ version \in [Versions -> VersionRow \cup {None}]
    /\ deleted \subseteq Lenders \cup Versions
    /\ session \in [Sessions -> Jobs \cup {None}]
    /\ background \in [Jobs -> Nat]
    /\ flow \in [Jobs -> Flow]
    /\ worker \in [Workers -> Worker]
    /\ faults \in 0..MaxFaults /\ retries \in 0..MaxRetries

\* build_draft reports what it drops: every rule and program of the document is
\* in the draft of the job or on the checklist that its reviewer sees.
NothingIsLost ==
    \A j \in Jobs : Drafted(j) =>
        LET draft == Draft[version[job[j].version].document]
            read == Extracted[job[j].document]
            reported(where, what) == <<where, what>> \in job[j].dropped
            kept(rules, r) == \E k \in rules : k.label = r.label
        IN  /\ \A r \in read.rules :
                  kept(draft.rules, r) \/ reported("Lender-wide", r.label)
            /\ \A p \in read.programs :
                  \/ reported(p.name, "program")
                  \/ \E q \in draft.programs :
                        /\ q.name = p.name
                        /\ \A r \in p.rules :
                              kept(q.rules, r) \/ reported(p.name, r.label)

\* "It is an ordinary draft: publishable straight from the editor after review",
\* whatever was extracted, as long as it has a program.
DraftIsPublishable ==
    \A v \in Versions : (Ingested(v) /\ Programs({v}) # {}) => Publishable(v)

\* However often a job runs, a reviewer finds every draft it made through the
\* job, which names its lender.
DraftIsFound ==
    \A v \in Versions : (Ingested(v) /\ version[v].status = "draft") =>
        LET j == version[v].source
        IN  job[j].version = v /\ job[j].lender = version[v].lender

\* However many executions of create_draft race with the reviewers, no lender
\* has two drafts or two published versions, no name two lenders, and no version
\* is left without its lender.
OneOfEach ==
    /\ \A u, v \in Versions :
          (/\ version[u] # None /\ version[v] # None
           /\ version[u].lender = version[v].lender
           /\ version[u].status = version[v].status
           /\ version[u].status \in {"draft", "published"}) => u = v
    /\ \A l, k \in Lenders : (lender[l] # None /\ lender[l] = lender[k]) => l = k
    /\ \A v \in Versions : version[v] # None => lender[version[v].lender] # None

\* "Nothing is published automatically": but for the reviewers, a version never
\* changes, and what is added is a draft.
IngestionOnlyAddsDrafts ==
    [][Review \/ \A v \in Versions : version'[v] # version[v] =>
                    version[v] = None /\ version'[v].status = "draft"]_vars

\* A job does not stay in progress: it ends as a draft or as a failure.
EveryJobSettles == \A j \in Jobs : Active(j) ~> ~Active(j)

\* "The uploader typed a name that already exists: attach to it rather than
\* fail": an upload whose document is in order is not refused by the database.
AttachesRatherThanFails ==
    \A j \in Jobs : job[j] # None => job[j].error # "integrity"
=============================================================================

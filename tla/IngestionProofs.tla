---------------------------- MODULE IngestionProofs ----------------------------
(* Theorems about Ingestion, and the lemmas they rest on.                   *)
EXTENDS Ingestion, TLAPS

-----------------------------------------------------------------------------
(* What a document becomes.  These lemmas are about build_draft alone. *)

\* What the code reads of an extraction.
Described(extracted) ==
    \A rule \in extracted.rules \cup UNION {p.rules : p \in extracted.programs} :
        "label" \in DOMAIN rule

LEMMA LabelKept ==
    ASSUME NEW r, "label" \in DOMAIN r
    PROVE  ToRule(r).label = r.label
BY DEF ToRule

LEMMA RulesReported ==
    ASSUME NEW rules, NEW where, NEW r \in rules, "label" \in DOMAIN r
    PROVE  \/ \E k \in Kept(rules) : k.label = r.label
           \/ <<where, r.label>> \in Dropped(rules, where)
<1>1. ToRule(r).label = r.label
  BY LabelKept
<1>2. CASE ValidRule(ToRule(r))
  <2>1. ToRule(r) \in Kept(rules)
    BY <1>2 DEF Kept
  <2> QED BY <1>1, <2>1
<1>3. CASE ~ValidRule(ToRule(r))
  <2>1. <<where, ToRule(r).label>> \in Dropped(rules, where)
    BY <1>3 DEF Dropped
  <2> QED BY <1>1, <2>1
<1> QED BY <1>2, <1>3

\* The part of a program that ends up in the draft.
Trimmed(p) == [ToProgram(p) EXCEPT !.rules = {r \in @ : ValidRule(r)}]

LEMMA TrimmedProgram ==
    ASSUME NEW p
    PROVE  /\ ToProgram(p).name = p.name
           /\ Trimmed(p).name = p.name
           /\ Trimmed(p).rules = Kept(p.rules)
BY DEF Trimmed, ToProgram, Kept

LEMMA DraftHas ==
    ASSUME NEW E
    PROVE  /\ BuildDraft(E).rules = Kept(E.rules)
           /\ \A p \in E.programs : ValidHeader(ToProgram(p)) =>
                 /\ Trimmed(p) \in BuildDraft(E).programs
                 /\ Dropped(p.rules, p.name) \subseteq BuildDraft(E).dropped
           /\ \A p \in E.programs : ~ValidHeader(ToProgram(p)) =>
                 <<p.name, "program">> \in BuildDraft(E).dropped
           /\ Dropped(E.rules, "Lender-wide") \subseteq BuildDraft(E).dropped
           /\ \A q \in BuildDraft(E).programs : \E p \in E.programs :
                 ValidHeader(ToProgram(p)) /\ q = Trimmed(p)
<1> DEFINE raw == {ToProgram(p) : p \in E.programs}
           programs == {p \in raw : ValidHeader(p)}
           valid == {p \in E.programs : ValidHeader(ToProgram(p))}
<1>1. BuildDraft(E) =
        [rules |-> Kept(E.rules),
         programs |-> {[p EXCEPT !.rules = {r \in @ : ValidRule(r)}] : p \in programs},
         dropped |-> Dropped(E.rules, "Lender-wide")
                        \cup {<<p.name, "program">> : p \in raw \ programs}
                        \cup UNION {Dropped(p.rules, p.name) : p \in valid}]
  BY DEF BuildDraft
<1>2. BuildDraft(E).rules = Kept(E.rules)
  BY <1>1
<1>3. BuildDraft(E).programs = {Trimmed(p) : p \in valid}
  <2>1. BuildDraft(E).programs =
          {[p EXCEPT !.rules = {r \in @ : ValidRule(r)}] : p \in programs}
    BY <1>1
  <2> QED BY <2>1 DEF Trimmed
<1>4. BuildDraft(E).dropped = Dropped(E.rules, "Lender-wide")
                        \cup {<<p.name, "program">> : p \in raw \ programs}
                        \cup UNION {Dropped(p.rules, p.name) : p \in valid}
  BY <1>1
<1>5. ASSUME NEW p \in E.programs, ~ValidHeader(ToProgram(p))
      PROVE  <<p.name, "program">> \in BuildDraft(E).dropped
  <2>1. ToProgram(p) \in raw \ programs
    BY <1>5
  <2>2. <<ToProgram(p).name, "program">> \in BuildDraft(E).dropped
    BY <1>4, <2>1
  <2> QED BY <2>2, TrimmedProgram
<1>6. \A p \in valid : Dropped(p.rules, p.name) \subseteq BuildDraft(E).dropped
  BY <1>4
<1>7. Dropped(E.rules, "Lender-wide") \subseteq BuildDraft(E).dropped
  BY <1>4
<1> QED BY <1>2, <1>3, <1>5, <1>6, <1>7

\* Every rule and program of an extraction is in the draft or in the report.
LEMMA DraftReports ==
    ASSUME NEW E, Described(E)
    PROVE  /\ \A r \in E.rules :
                 \/ \E k \in BuildDraft(E).rules : k.label = r.label
                 \/ <<"Lender-wide", r.label>> \in BuildDraft(E).dropped
           /\ \A p \in E.programs :
                 \/ <<p.name, "program">> \in BuildDraft(E).dropped
                 \/ \E q \in BuildDraft(E).programs :
                       /\ q.name = p.name
                       /\ \A r \in p.rules :
                             \/ \E k \in q.rules : k.label = r.label
                             \/ <<p.name, r.label>> \in BuildDraft(E).dropped
<1>1. ASSUME NEW r \in E.rules
      PROVE  \/ \E k \in BuildDraft(E).rules : k.label = r.label
             \/ <<"Lender-wide", r.label>> \in BuildDraft(E).dropped
  <2>1. "label" \in DOMAIN r
    BY DEF Described
  <2>2. \/ \E k \in Kept(E.rules) : k.label = r.label
        \/ <<"Lender-wide", r.label>> \in Dropped(E.rules, "Lender-wide")
    BY <2>1, RulesReported
  <2> QED BY <2>2, DraftHas
<1>2. ASSUME NEW p \in E.programs, ValidHeader(ToProgram(p))
      PROVE  \E q \in BuildDraft(E).programs :
                       /\ q.name = p.name
                       /\ \A r \in p.rules :
                             \/ \E k \in q.rules : k.label = r.label
                             \/ <<p.name, r.label>> \in BuildDraft(E).dropped
  <2>1. /\ Trimmed(p) \in BuildDraft(E).programs
        /\ Dropped(p.rules, p.name) \subseteq BuildDraft(E).dropped
    BY <1>2, DraftHas
  <2>2. Trimmed(p).name = p.name /\ Trimmed(p).rules = Kept(p.rules)
    BY TrimmedProgram
  <2>3. ASSUME NEW r \in p.rules
        PROVE  \/ \E k \in Kept(p.rules) : k.label = r.label
               \/ <<p.name, r.label>> \in Dropped(p.rules, p.name)
    <3>1. "label" \in DOMAIN r
      BY DEF Described
    <3> QED BY <3>1, RulesReported
  <2> QED BY <2>1, <2>2, <2>3
<1> QED BY <1>1, <1>2, DraftHas

\* A draft passes the validation that publishing requires.
LEMMA DraftIsValid ==
    ASSUME NEW E
    PROVE  ValidPolicy(BuildDraft(E))
<1>1. \A r \in BuildDraft(E).rules : ValidRule(r)
  BY DraftHas DEF Kept
<1>2. ASSUME NEW q \in BuildDraft(E).programs PROVE ValidProgram(q)
  <2>1. PICK p \in E.programs : ValidHeader(ToProgram(p)) /\ q = Trimmed(p)
    BY DraftHas
  <2>2. /\ ToProgram(p).rank >= 1
        /\ \A c \in ToProgram(p).applies_when : CheckCondition(c)
    BY <2>1 DEF ValidHeader, ValidProgram, ToProgram
  <2>3. /\ q.rank = ToProgram(p).rank
        /\ q.applies_when = ToProgram(p).applies_when
        /\ q.rules = Kept(p.rules)
    BY <2>1, TrimmedProgram DEF Trimmed, ToProgram
  <2>4. \A r \in q.rules : ValidRule(r)
    BY <2>3 DEF Kept
  <2> QED BY <2>2, <2>3, <2>4 DEF ValidProgram
<1> QED BY <1>1, <1>2 DEF ValidPolicy

-----------------------------------------------------------------------------
(* Types of what the steps write *)

LEMMA DraftOf ==
    ASSUME NEW d \in Documents
    PROVE  Draft[d] = BuildDraft(Extracted[d]) /\ Described(Extracted[d])
BY IngestionAssumption DEF Draft, Described

LEMMA WrittenOne ==
    ASSUME NEW w, NEW attribute, NEW value, NEW current
    PROVE  Written(w, attribute, value, current) \in {value, current}
BY DEF Written

\* A worker at a step has what the step works on: a job, the row its session
\* read, a document when there is a draft to make.
Sound(x) ==
    /\ x.step # "idle" => x.job \in Jobs /\ x.task \in Tasks \cup {"sync"}
    /\ x.step \in {"marking", "drafting", "failing"} => x.seen \in JobRow
    /\ x.step \in {"draft", "drafting"} => x.document \in Documents
    /\ x.step \in {"fail", "failing"} => x.task \in {"sync", "on_failure"}
    /\ x.step = "done" /\ x.task = "extract" => x.document \in Documents
    /\ x.live => x.step # "idle" /\ x.task \in Tasks

\* The rows that others hold the key of exist.
Refers ==
    /\ \A s \in Sessions : session[s] # None => job[session[s]] \in JobRow
    /\ \A j \in Jobs : background[j] > 0 => job[j] \in JobRow
    /\ \A j \in Jobs : flow[j].task \in Tasks => job[j] \in JobRow
    /\ \A w \in Workers : worker[w].step # "idle" => job[worker[w].job] \in JobRow

\* Hatchet waits for at most one attempt of the current task of each job.
OneAttempt ==
    /\ \A w \in Workers : worker[w].live =>
          flow[worker[w].job].task = worker[w].task /\ flow[worker[w].job].given
    /\ \A w, x \in Workers :
          worker[w].live /\ worker[x].live /\ worker[w].job = worker[x].job => w = x
    /\ \A j \in Jobs : flow[j].task = "draft" => flow[j].document \in Documents

RowsTyped ==
    /\ job \in [Jobs -> JobRow \cup {None}]
    /\ lender \in [Lenders -> LenderNames \cup {None}]
    /\ version \in [Versions -> VersionRow \cup {None}]
    /\ deleted \subseteq Lenders \cup Versions
QueuesTyped ==
    /\ session \in [Sessions -> Jobs \cup {None}]
    /\ background \in [Jobs -> Nat]
    /\ faults \in 0..MaxFaults /\ retries \in 0..MaxRetries
DriversTyped ==
    /\ flow \in [Jobs -> Flow]
    /\ worker \in [Workers -> Worker]
    /\ \A w \in Workers : Sound(worker[w])
Typed == RowsTyped /\ QueuesTyped /\ DriversTyped
Coherent == Typed /\ Refers /\ OneAttempt

LEMMA IdleSound == Idle \in Worker /\ Sound(Idle) /\ ~Idle.live /\ Idle.step = "idle"
BY DEF Idle, Worker, Sound, Steps, Tasks, Errors

LEMMA FlowType ==
    /\ \A task \in {"none", "prepare", "on_failure", "failed"} : Due(task, None) \in Flow
    /\ \A f \in Flow, d \in Documents \cup {None} : f.task \in Tasks =>
          /\ Succeeded(f, d) \in Flow
          /\ Succeeded(f, d).document = d
          /\ Succeeded(f, d).task = "draft" => f.task = "extract"
<1>1. ASSUME NEW task \in Tasks \cup {"none", "succeeded", "failed"},
             NEW d \in Documents \cup {None}
      PROVE  Due(task, d) \in Flow
  <2>1. 0 \in 0..(Attempts - 1)
    BY IngestionAssumption
  <2> QED BY <2>1 DEF Due, Flow
<1>2. \A task \in {"none", "prepare", "on_failure", "failed"} : Due(task, None) \in Flow
  BY <1>1 DEF Tasks
<1>3. ASSUME NEW f \in Flow, NEW d \in Documents \cup {None}, f.task \in Tasks
      PROVE  /\ Succeeded(f, d) \in Flow
             /\ Succeeded(f, d).document = d
             /\ Succeeded(f, d).task = "draft" => f.task = "extract"
  <2>1. /\ Following[f.task] \in Tasks \cup {"succeeded", "failed"}
        /\ Following[f.task] = "draft" => f.task = "extract"
    BY <1>3 DEF Tasks, Following
  <2> QED BY <1>1, <2>1 DEF Succeeded, Due
<1> QED BY <1>2, <1>3

LEMMA FailedType ==
    ASSUME NEW f \in Flow
    PROVE  /\ Failed(f) \in Flow
           /\ Failed(f).task = "draft" =>
                 f.task = "draft" /\ Failed(f).document = f.document
<1>1. CASE f.task = "on_failure"
  BY FlowType, <1>1 DEF Failed, Due, Tasks
<1>2. CASE f.task # "on_failure" /\ f.tries + 1 < Attempts
  <2>1. Failed(f) = [f EXCEPT !.tries = @ + 1, !.given = FALSE]
    BY <1>2 DEF Failed
  <2>2. f.tries + 1 \in 0..(Attempts - 1)
    BY <1>2, IngestionAssumption DEF Flow
  <2> QED BY <2>1, <2>2 DEF Flow
<1>3. CASE f.task # "on_failure" /\ ~(f.tries + 1 < Attempts)
  BY FlowType, <1>3 DEF Failed, Due, Tasks
<1> QED BY <1>1, <1>2, <1>3

\* What a step of worker w leaves behind, x being the worker after it.
Continues(w, x) ==
    /\ worker' = [worker EXCEPT ![w] = x]
    /\ x.job = worker[w].job /\ x.task = worker[w].task /\ x.live = worker[w].live
    /\ UNCHANGED flow
Settles(w, x) ==
    /\ worker' = [worker EXCEPT ![w] = x]
    /\ ~x.live
    /\ x.step # "idle" => x.job = worker[w].job
    /\ \/ UNCHANGED flow /\ ~worker[w].live
       \/ \E f \in Flow :
             /\ flow' = [flow EXCEPT ![worker[w].job] = f]
             /\ worker[w].live
             /\ f.task = "draft" => f.document \in Documents

\* The drivers are as they should be, and about jobs that there are.
DriversKept ==
    /\ DriversTyped' /\ OneAttempt'
    /\ \A j \in Jobs : flow'[j].task \in Tasks => job[j] \in JobRow
    /\ \A u \in Workers : worker'[u].step # "idle" =>
          worker'[u].job \in Jobs /\ job[worker'[u].job] \in JobRow

LEMMA ContinuesKeeps ==
    ASSUME Coherent, NEW w \in Workers, NEW x \in Worker, Sound(x), Continues(w, x),
           worker[w].step # "idle"
    PROVE  DriversKept
<1>1. /\ worker' \in [Workers -> Worker]
      /\ \A u \in Workers : worker'[u] = IF u = w THEN x ELSE worker[u]
      /\ flow' = flow
  BY DEF Coherent, Typed, DriversTyped, Continues
<1>2. DriversTyped'
  BY <1>1 DEF Coherent, Typed, DriversTyped
<1>3. OneAttempt'
  BY <1>1 DEF Coherent, OneAttempt, Continues
<1>4. \A u \in Workers : worker'[u].step # "idle" =>
                 worker'[u].job \in Jobs /\ job[worker'[u].job] \in JobRow
  BY <1>1 DEF Coherent, Typed, DriversTyped, Sound, Refers, Continues
<1> QED BY <1>1, <1>2, <1>3, <1>4 DEF Coherent, Refers, DriversKept

LEMMA SettlesKeeps ==
    ASSUME Coherent, NEW w \in Workers, NEW x \in Worker, Sound(x), Settles(w, x),
           worker[w].step # "idle"
    PROVE  DriversKept
<1>1. /\ worker' \in [Workers -> Worker]
      /\ \A u \in Workers : worker'[u] = IF u = w THEN x ELSE worker[u]
      /\ worker[w].job \in Jobs
      /\ flow \in [Jobs -> Flow]
  BY DEF Coherent, Typed, DriversTyped, Settles, Sound
<1>2. /\ flow' \in [Jobs -> Flow]
      /\ \A j \in Jobs : j # worker[w].job \/ ~worker[w].live => flow'[j] = flow[j]
      /\ \A j \in Jobs : flow'[j].task = "draft" => flow'[j].document \in Documents
  BY <1>1 DEF Coherent, OneAttempt, Settles
<1>3. DriversTyped'
  BY <1>1, <1>2 DEF Coherent, Typed, DriversTyped
<1>4. OneAttempt'
  <2>1. ASSUME NEW u \in Workers, worker'[u].live
        PROVE  /\ u # w /\ worker'[u] = worker[u]
               /\ flow'[worker[u].job] = flow[worker[u].job]
    BY <1>1, <1>2, <2>1 DEF Coherent, OneAttempt, Settles, Typed, DriversTyped, Sound
  <2> QED BY <1>2, <2>1 DEF Coherent, OneAttempt
<1>5. \A u \in Workers : worker'[u].step # "idle" =>
                 worker'[u].job \in Jobs /\ job[worker'[u].job] \in JobRow
  BY <1>1 DEF Coherent, Typed, DriversTyped, Sound, Refers, Settles
<1>6. job[worker[w].job] \in JobRow
  BY DEF Coherent, Refers
<1> QED BY <1>2, <1>3, <1>4, <1>5, <1>6 DEF Coherent, Refers, DriversKept

-----------------------------------------------------------------------------
(* What the steps do to the rows: every step is one of these changes. *)

\* The status and the error of a job.
Marks ==
    \E j \in Jobs, s \in Statuses, e \in Errors :
        /\ job[j] \in JobRow
        /\ job' = [job EXCEPT ![j] = [job[j] EXCEPT !.status = s, !.error = e]]
        /\ UNCHANGED <<lender, version, deleted>>

\* A new draft d of job j, for a lender that there is or for a new one.
Drafts ==
    \E j \in Jobs, v \in Versions, l \in Lenders, d \in Documents,
       s \in Statuses, k \in Lenders \cup {None} :
        /\ job[j] \in JobRow
        /\ version[v] = None
        /\ version' = [version EXCEPT ![v] =
              [lender |-> l, status |-> "draft", source |-> j, document |-> d]]
        /\ job' = [job EXCEPT ![j] = [job[j] EXCEPT !.status = s, !.lender = k,
              !.version = v, !.document = d, !.dropped = Draft[d].dropped]]
        /\ \/ lender' = lender /\ lender[l] # None /\ Of(l, "draft") = {}
           \/ \E name \in LenderNames :
                 /\ lender[l] = None /\ Called(name) = {}
                 /\ lender' = [lender EXCEPT ![l] = name]
        /\ UNCHANGED deleted

\* A new job.
Adds ==
    \E j \in Jobs, row \in JobRow :
        /\ job[j] = None /\ row.version = None
        /\ job' = [job EXCEPT ![j] = row]
        /\ UNCHANGED <<lender, version, deleted>>

Reviewed == \/ \E v \in Versions : Publish(v) \/ Discard(v)
            \/ \E l \in Lenders : DeleteLender(l)
RowStep == UNCHANGED rows \/ Marks \/ Drafts \/ Adds \/ Reviewed

\* No job disappears.
JobsKept == \A j \in Jobs : job[j] \in JobRow => job'[j] \in JobRow

LEMMA UnlinkedType ==
    ASSUME RowsTyped, NEW l, NEW V
    PROVE  /\ Unlinked(l, V) \in [Jobs -> JobRow \cup {None}]
           /\ \A j \in Jobs : job[j] \in JobRow => Unlinked(l, V)[j] \in JobRow
           /\ \A j \in Jobs : Unlinked(l, V)[j] # None =>
                 /\ job[j] # None
                 /\ Unlinked(l, V)[j].document = job[j].document
                 /\ Unlinked(l, V)[j].dropped = job[j].dropped
                 /\ Unlinked(l, V)[j].version # None =>
                       /\ Unlinked(l, V)[j].version = job[j].version
                       /\ job[j].version \notin V
<1> SUFFICES ASSUME NEW j \in Jobs
             PROVE  LET new == Unlinked(l, V)[j]
                    IN  /\ new \in JobRow \cup {None}
                        /\ job[j] \in JobRow => new \in JobRow
                        /\ new # None =>
                             /\ job[j] # None
                             /\ new.document = job[j].document
                             /\ new.dropped = job[j].dropped
                             /\ new.version # None =>
                                  new.version = job[j].version /\ job[j].version \notin V
  BY DEF Unlinked
<1>1. CASE job[j] = None
  BY <1>1, RowsAssumption DEF Unlinked
<1>2. CASE job[j] \in JobRow
  <2>1. Unlinked(l, V)[j] =
          [job[j] EXCEPT !.lender = IF @ = l THEN None ELSE @,
                         !.version = IF @ \in V THEN None ELSE @]
    BY <1>2, RowsAssumption DEF Unlinked
  <2>2. job[j] # None
    BY <1>2, RowsAssumption
  <2> QED BY <1>2, <2>1, <2>2 DEF JobRow
<1> QED BY <1>1, <1>2 DEF RowsTyped

LEMMA RowStepTyped ==
    ASSUME RowsTyped, RowStep
    PROVE  RowsTyped' /\ JobsKept
<1>1. CASE UNCHANGED rows
  BY <1>1 DEF rows, RowsTyped, JobsKept
<1>2. CASE Marks
  <2>1. PICK j \in Jobs, s \in Statuses, e \in Errors :
           /\ job[j] \in JobRow
           /\ job' = [job EXCEPT ![j] = [job[j] EXCEPT !.status = s, !.error = e]]
           /\ UNCHANGED <<lender, version, deleted>>
    BY <1>2 DEF Marks
  <2>2. [job[j] EXCEPT !.status = s, !.error = e] \in JobRow
    BY <2>1 DEF JobRow
  <2> QED BY <2>1, <2>2 DEF RowsTyped, JobsKept
<1>3. CASE Drafts
  <2>1. PICK j \in Jobs, v \in Versions, l \in Lenders, d \in Documents,
             s \in Statuses, k \in Lenders \cup {None} :
        /\ job[j] \in JobRow
        /\ version[v] = None
        /\ version' = [version EXCEPT ![v] =
              [lender |-> l, status |-> "draft", source |-> j, document |-> d]]
        /\ job' = [job EXCEPT ![j] = [job[j] EXCEPT !.status = s, !.lender = k,
              !.version = v, !.document = d, !.dropped = Draft[d].dropped]]
        /\ \/ lender' = lender /\ lender[l] # None /\ Of(l, "draft") = {}
           \/ \E name \in LenderNames :
                 /\ lender[l] = None /\ Called(name) = {}
                 /\ lender' = [lender EXCEPT ![l] = name]
        /\ UNCHANGED deleted
    BY <1>3 DEF Drafts
  <2>2. Draft[d].dropped \in {Draft[c].dropped : c \in Documents}
    OBVIOUS
  <2>3. [job[j] EXCEPT !.status = s, !.lender = k, !.version = v,
                       !.document = d, !.dropped = Draft[d].dropped] \in JobRow
    BY <2>1, <2>2 DEF JobRow
  <2>4. [lender |-> l, status |-> "draft", source |-> j, document |-> d] \in VersionRow
    BY DEF VersionRow
  <2> QED BY <2>1, <2>3, <2>4 DEF RowsTyped, JobsKept
<1>4. CASE Adds
  BY <1>4 DEF Adds, RowsTyped, JobsKept
<1>5. ASSUME NEW v \in Versions, Publish(v) PROVE RowsTyped' /\ JobsKept
  <2>1. version[v] \in VersionRow
    BY <1>5 DEF Publish, RowsTyped
  <2>2. [version[v] EXCEPT !.status = "published"] \in VersionRow
    BY <2>1 DEF VersionRow
  <2>3. ASSUME NEW u \in Of(version[v].lender, "published")
        PROVE  [version[u] EXCEPT !.status = "archived"] \in VersionRow
    <3>1. u \in Versions /\ version[u] # None
      BY DEF Of, VersionsOf
    <3>2. version[u] \in VersionRow
      BY <3>1 DEF RowsTyped
    <3> QED BY <3>2 DEF VersionRow
  <2> QED BY <1>5, <2>2, <2>3 DEF Publish, RowsTyped, JobsKept
<1>6. ASSUME NEW v \in Versions, Discard(v) PROVE RowsTyped' /\ JobsKept
  BY <1>6, UnlinkedType DEF Discard, RowsTyped, JobsKept
<1>7. ASSUME NEW l \in Lenders, DeleteLender(l) PROVE RowsTyped' /\ JobsKept
  BY <1>7, UnlinkedType DEF DeleteLender, RowsTyped, JobsKept, VersionsOf
<1> QED BY <1>1, <1>2, <1>3, <1>4, <1>5, <1>6, <1>7 DEF RowStep, Reviewed

-----------------------------------------------------------------------------
(* What holds of the rows *)

\* A job that names a draft names the one it built from its document, and has
\* the report on that document.
Linked ==
    \A j \in Jobs : (job[j] \in JobRow /\ job[j].version # None) =>
        /\ version[job[j].version] # None
        /\ version[job[j].version].document = job[j].document
        /\ job[j].document \in Documents
        /\ job[j].dropped = Draft[job[j].document].dropped

LEMMA LinkedStep ==
    ASSUME RowsTyped, Linked, RowStep
    PROVE  Linked'
<1>0. /\ \A j \in Jobs : job[j] # None <=> job[j] \in JobRow
      /\ \A v \in Versions : version[v] # None <=> version[v] \in VersionRow
  BY RowsAssumption DEF RowsTyped
<1>1. CASE UNCHANGED rows
  BY <1>1 DEF rows, Linked
<1>2. CASE Marks
  <2>1. PICK j \in Jobs, s \in Statuses, e \in Errors :
           /\ job[j] \in JobRow
           /\ job' = [job EXCEPT ![j] = [job[j] EXCEPT !.status = s, !.error = e]]
           /\ UNCHANGED <<lender, version, deleted>>
    BY <1>2 DEF Marks
  <2>2. LET row == [job[j] EXCEPT !.status = s, !.error = e]
        IN  /\ row.version = job[j].version
            /\ row.document = job[j].document
            /\ row.dropped = job[j].dropped
    BY <2>1 DEF JobRow
  <2> QED BY <2>1, <2>2 DEF Linked, RowsTyped
<1>3. CASE Drafts
  <2>1. PICK j \in Jobs, v \in Versions, l \in Lenders, d \in Documents,
             s \in Statuses, k \in Lenders \cup {None} :
        /\ job[j] \in JobRow
        /\ version[v] = None
        /\ version' = [version EXCEPT ![v] =
              [lender |-> l, status |-> "draft", source |-> j, document |-> d]]
        /\ job' = [job EXCEPT ![j] = [job[j] EXCEPT !.status = s, !.lender = k,
              !.version = v, !.document = d, !.dropped = Draft[d].dropped]]
        /\ \/ lender' = lender /\ lender[l] # None /\ Of(l, "draft") = {}
           \/ \E name \in LenderNames :
                 /\ lender[l] = None /\ Called(name) = {}
                 /\ lender' = [lender EXCEPT ![l] = name]
        /\ UNCHANGED deleted
    BY <1>3 DEF Drafts
  <2>2. [lender |-> l, status |-> "draft", source |-> j, document |-> d] \in VersionRow
    BY DEF VersionRow
  <2>3. [lender |-> l, status |-> "draft", source |-> j, document |-> d] # None
    BY <2>2, RowsAssumption
  <2>4. /\ version'[v] # None /\ version'[v].document = d
        /\ \A u \in Versions : u # v => version'[u] = version[u]
    BY <2>1, <2>3 DEF RowsTyped
  <2>5. /\ job'[j].version = v /\ job'[j].document = d
        /\ job'[j].dropped = Draft[d].dropped
        /\ \A i \in Jobs : i # j => job'[i] = job[i]
    BY <2>1 DEF RowsTyped, JobRow
  <2>6. \A i \in Jobs : job[i] \in JobRow => job[i].version \in Versions \cup {None}
    BY DEF JobRow
  <2> QED BY <2>1, <2>4, <2>5, <2>6 DEF Linked
<1>4. CASE Adds
  <2>1. PICK j \in Jobs, row \in JobRow :
        /\ job[j] = None /\ row.version = None
        /\ job' = [job EXCEPT ![j] = row]
        /\ UNCHANGED <<lender, version, deleted>>
    BY <1>4 DEF Adds
  <2> QED BY <2>1 DEF Linked, RowsTyped
<1>5. ASSUME NEW v \in Versions, Publish(v) PROVE Linked'
  <2>1. ASSUME NEW u \in Versions, version[u] # None
        PROVE  version'[u] # None /\ version'[u].document = version[u].document
    <3>1. version[u] \in VersionRow
      BY <1>0, <2>1
    <3>2. \/ version'[u] = [version[u] EXCEPT !.status = "published"]
          \/ version'[u] = [version[u] EXCEPT !.status = "archived"]
          \/ version'[u] = version[u]
      BY <1>5 DEF Publish
    <3>3. /\ [version[u] EXCEPT !.status = "published"] \in VersionRow
          /\ [version[u] EXCEPT !.status = "archived"] \in VersionRow
      BY <3>1 DEF VersionRow
    <3>4. version'[u] \in VersionRow
      BY <3>1, <3>2, <3>3
    <3> QED BY <3>1, <3>2, <3>4, RowsAssumption DEF VersionRow
  <2>2. job' = job
    BY <1>5 DEF Publish
  <2>3. \A i \in Jobs : job[i] \in JobRow => job[i].version \in Versions \cup {None}
    BY DEF JobRow
  <2> QED BY <2>1, <2>2, <2>3 DEF Linked
<1>6. ASSUME NEW l, NEW V, V \subseteq Versions, job' = Unlinked(l, V),
             \A u \in Versions \ V : version'[u] = version[u]
      PROVE  Linked'
  <2>1. ASSUME NEW j \in Jobs, job'[j] \in JobRow, job'[j].version # None
        PROVE  /\ job[j] \in JobRow
               /\ job[j].version # None
               /\ job'[j].version = job[j].version /\ job[j].version \in Versions \ V
               /\ job'[j].document = job[j].document /\ job'[j].dropped = job[j].dropped
    <3>1. job'[j] # None
      BY <2>1, RowsAssumption
    <3>2. /\ job[j] # None
          /\ job'[j].version = job[j].version /\ job[j].version \notin V
          /\ job'[j].document = job[j].document /\ job'[j].dropped = job[j].dropped
      BY <1>6, <2>1, <3>1, UnlinkedType
    <3> QED BY <1>0, <2>1, <3>2 DEF JobRow
  <2> QED BY <1>6, <2>1 DEF Linked
<1>7. ASSUME NEW v \in Versions, Discard(v) PROVE Linked'
  BY <1>6, <1>7 DEF Discard
<1>8. ASSUME NEW l \in Lenders, DeleteLender(l) PROVE Linked'
  BY <1>6, <1>8 DEF DeleteLender, VersionsOf
<1> QED BY <1>1, <1>2, <1>3, <1>4, <1>5, <1>7, <1>8 DEF RowStep, Reviewed

LEMMA LinkedReports ==
    ASSUME RowsTyped, Linked
    PROVE  NothingIsLost
<1> SUFFICES ASSUME NEW j \in Jobs, Drafted(j)
             PROVE  LET draft == Draft[version[job[j].version].document]
            read == Extracted[job[j].document]
            reported(where, what) == <<where, what>> \in job[j].dropped
            kept(rules, r) == \E k \in rules : k.label = r.label
        IN  /\ \A r \in read.rules :
                  kept(draft.rules, r) \/ reported("Lender-wide", r.label)
            /\ \A p \in read.programs :
                  \/ reported(p.name, "program")
                  \/ \E q \in draft.programs :
                        /\ q.name = p.name
                        /\ \A r \in p.rules :
                              kept(q.rules, r) \/ reported(p.name, r.label)
  BY DEF NothingIsLost
<1>1. job[j] \in JobRow /\ job[j].version # None
  BY DEF Drafted, RowsTyped
<1> DEFINE d == job[j].document
<1>2. /\ d \in Documents
      /\ version[job[j].version].document = d
      /\ job[j].dropped = Draft[d].dropped
  BY <1>1 DEF Linked
<1>3. Draft[d] = BuildDraft(Extracted[d]) /\ Described(Extracted[d])
  BY <1>2, DraftOf
<1> HIDE DEF d
<1> QED BY <1>2, <1>3, DraftReports DEF d

LEMMA DraftsPublishable ==
    ASSUME RowsTyped
    PROVE  DraftIsPublishable
<1> SUFFICES ASSUME NEW v \in Versions, Ingested(v), Programs({v}) # {}
             PROVE  Publishable(v)
  BY DEF DraftIsPublishable
<1>1. version[v].document \in Documents
  BY DEF Ingested, RowsTyped, VersionRow
<1>2. Draft[version[v].document].programs # {}
  BY DEF Programs
<1>3. ValidPolicy(Draft[version[v].document])
  BY <1>1, DraftOf, DraftIsValid
<1> QED BY <1>2, <1>3 DEF Publishable

LEMMA OneOfEachStep ==
    ASSUME RowsTyped, OneOfEach, RowStep
    PROVE  OneOfEach'
<1>0. /\ \A v \in Versions : version[v] # None <=> version[v] \in VersionRow
      /\ \A u \in VersionRow : u.lender \in Lenders
  BY RowsAssumption DEF RowsTyped, VersionRow
<1>1. CASE UNCHANGED <<lender, version>>
  BY <1>1 DEF OneOfEach
<1>2. CASE Drafts
  <2>1. PICK j \in Jobs, v \in Versions, l \in Lenders, d \in Documents,
             s \in Statuses, k \in Lenders \cup {None} :
        /\ job[j] \in JobRow
        /\ version[v] = None
        /\ version' = [version EXCEPT ![v] =
              [lender |-> l, status |-> "draft", source |-> j, document |-> d]]
        /\ job' = [job EXCEPT ![j] = [job[j] EXCEPT !.status = s, !.lender = k,
              !.version = v, !.document = d, !.dropped = Draft[d].dropped]]
        /\ \/ lender' = lender /\ lender[l] # None /\ Of(l, "draft") = {}
           \/ \E name \in LenderNames :
                 /\ lender[l] = None /\ Called(name) = {}
                 /\ lender' = [lender EXCEPT ![l] = name]
        /\ UNCHANGED deleted
    BY <1>2 DEF Drafts
  <2>2. /\ version'[v].lender = l /\ version'[v].status = "draft"
        /\ \A u \in Versions : u # v => version'[u] = version[u]
    BY <2>1 DEF RowsTyped
  <2>3. ASSUME NEW u \in Versions, u # v, version[u] # None, version[u].lender = l
        PROVE  version[u].status # "draft"
    <3>1. lender[l] # None
      BY <2>3 DEF OneOfEach
    <3>2. Of(l, "draft") = {}
      BY <2>1, <3>1
    <3> QED BY <2>3, <3>2 DEF Of, VersionsOf
  <2>4. /\ lender'[l] # None
        /\ \A k1 \in Lenders : k1 # l => lender'[k1] = lender[k1]
        /\ \A k1 \in Lenders : k1 # l /\ lender[k1] # None => lender'[k1] # lender'[l]
    BY <2>1, RowsAssumption DEF RowsTyped, OneOfEach, Called
  <2>5. ASSUME NEW u \in Versions, NEW x \in Versions,
               version'[u] # None, version'[x] # None,
               version'[u].lender = version'[x].lender,
               version'[u].status = version'[x].status,
               version'[u].status \in {"draft", "published"}
        PROVE  u = x
    BY <2>2, <2>3, <2>5 DEF OneOfEach
  <2>6. \A k1, k2 \in Lenders : lender'[k1] # None /\ lender'[k1] = lender'[k2] => k1 = k2
    BY <2>4 DEF OneOfEach
  <2>7. \A u \in Versions : version'[u] # None => lender'[version'[u].lender] # None
    BY <1>0, <2>2, <2>4 DEF OneOfEach
  <2> QED BY <2>5, <2>6, <2>7 DEF OneOfEach
<1>3. ASSUME NEW v \in Versions, Publish(v) PROVE OneOfEach'
  <2>1. /\ version[v] # None /\ version[v].status = "draft"
        /\ version[v] \in VersionRow
    BY <1>0, <1>3 DEF Publish
  <2>2. ASSUME NEW u \in Versions
        PROVE  /\ version'[u] # None => version[u] # None
                                        /\ version'[u].lender = version[u].lender
               /\ version'[u] # None /\ version'[u].status = "draft" =>
                    u # v /\ version[u].status = "draft"
               /\ version'[u] # None /\ version'[u].status = "published" /\ u # v =>
                    /\ version[u].status = "published"
                    /\ version[u].lender # version[v].lender
    <3>1. CASE u = v
      <4>1. version'[u] = [version[v] EXCEPT !.status = "published"]
        BY <1>3, <3>1 DEF Publish
      <4> QED BY <2>1, <3>1, <4>1 DEF VersionRow
    <3>2. CASE u # v /\ u \in Of(version[v].lender, "published")
      <4>1. version'[u] = [version[u] EXCEPT !.status = "archived"]
        BY <1>3, <3>2 DEF Publish
      <4>2. version[u] # None /\ version[u] \in VersionRow
        BY <1>0, <3>2 DEF Of, VersionsOf
      <4> QED BY <4>1, <4>2 DEF VersionRow
    <3>3. CASE u # v /\ u \notin Of(version[v].lender, "published")
      <4>1. version'[u] = version[u]
        BY <1>3, <3>3 DEF Publish
      <4> QED BY <3>3, <4>1 DEF Of, VersionsOf
    <3> QED BY <3>1, <3>2, <3>3
  <2>3. ASSUME NEW u \in Versions, NEW x \in Versions,
               version'[u] # None, version'[x] # None,
               version'[u].lender = version'[x].lender,
               version'[u].status = version'[x].status,
               version'[u].status \in {"draft", "published"}
        PROVE  u = x
    <3>1. /\ version[u] # None /\ version[x] # None
          /\ version[u].lender = version[x].lender
      BY <2>2, <2>3
    <3>2. CASE version'[u].status = "draft"
      <4>1. version[u].status = "draft" /\ version[x].status = "draft"
        BY <2>2, <2>3, <3>2
      <4> QED BY <3>1, <4>1 DEF OneOfEach
    <3>3. CASE version'[u].status = "published"
      <4>1. version'[x].status = "published"
        BY <2>3, <3>3
      <4>2. u # v => /\ version[u].status = "published"
                     /\ version[u].lender # version[v].lender
        BY <2>2, <2>3, <3>3
      <4>3. x # v => /\ version[x].status = "published"
                     /\ version[x].lender # version[v].lender
        BY <2>2, <2>3, <4>1
      <4> QED BY <3>1, <4>2, <4>3 DEF OneOfEach
    <3> QED BY <2>3, <3>2, <3>3
  <2>4. lender' = lender
    BY <1>3 DEF Publish
  <2>5. \A u \in Versions : version'[u] # None => lender'[version'[u].lender] # None
    BY <2>2, <2>4 DEF OneOfEach
  <2> QED BY <2>3, <2>4, <2>5 DEF OneOfEach
<1>4. ASSUME NEW v \in Versions, Discard(v) PROVE OneOfEach'
  <2>1. /\ \A u \in Versions : version'[u] # None => version'[u] = version[u]
        /\ lender' = lender
    BY <1>4 DEF Discard, RowsTyped
  <2> QED BY <2>1 DEF OneOfEach
<1>5. ASSUME NEW l \in Lenders, DeleteLender(l) PROVE OneOfEach'
  <2>1. /\ \A u \in Versions : version'[u] # None =>
              version'[u] = version[u] /\ version[u].lender # l
        /\ lender'[l] = None
        /\ \A k \in Lenders : k # l => lender'[k] = lender[k]
    BY <1>5 DEF DeleteLender, RowsTyped, VersionsOf
  <2>2. \A u, x \in Versions :
          (/\ version'[u] # None /\ version'[x] # None
           /\ version'[u].lender = version'[x].lender
           /\ version'[u].status = version'[x].status
           /\ version'[u].status \in {"draft", "published"}) => u = x
    BY <2>1 DEF OneOfEach
  <2>3. \A k1, k2 \in Lenders : lender'[k1] # None /\ lender'[k1] = lender'[k2] => k1 = k2
    BY <2>1 DEF OneOfEach
  <2>4. \A u \in Versions : version'[u] # None => lender'[version'[u].lender] # None
    BY <1>0, <2>1 DEF OneOfEach
  <2> QED BY <2>2, <2>3, <2>4 DEF OneOfEach
<1>6. CASE Marks \/ Adds \/ UNCHANGED rows
  <2>1. UNCHANGED <<lender, version>>
    BY <1>6 DEF Marks, Adds, rows
  <2> QED BY <1>1, <2>1
<1> QED BY <1>2, <1>3, <1>4, <1>5, <1>6 DEF RowStep, Reviewed

-----------------------------------------------------------------------------
(* What the steps do to the drivers *)

\* The worker w is busy with a job that there is.
LEMMA Busy ==
    ASSUME Coherent, NEW w \in Workers, worker[w].step # "idle"
    PROVE  /\ worker[w] \in Worker /\ Sound(worker[w])
           /\ worker[w].job \in Jobs
           /\ worker[w].task \in Tasks \cup {"sync"}
           /\ job[worker[w].job] \in JobRow
           /\ flow[worker[w].job] \in Flow
           /\ worker[w].task = "sync" => ~worker[w].live
           /\ worker[w].live => flow[worker[w].job].task = worker[w].task
<1>1. worker[w] \in Worker /\ Sound(worker[w])
  BY DEF Coherent, Typed, DriversTyped
<1>2. "sync" \notin Tasks
  BY DEF Tasks
<1> QED BY <1>1, <1>2 DEF Coherent, Typed, DriversTyped, Sound, Refers, OneAttempt

LEMMA FinishKeeps ==
    ASSUME Coherent, NEW w \in Workers, worker[w].step # "idle", Finish(w),
           flow' = (IF worker[w].live
                    THEN [flow EXCEPT ![worker[w].job] = Failed(@)] ELSE flow)
    PROVE  DriversKept
<1>1. Settles(w, Idle)
  <2>1. CASE ~worker[w].live
    BY <2>1, IdleSound DEF Settles, Finish
  <2>2. CASE worker[w].live
    <3> DEFINE f == Failed(flow[worker[w].job])
    <3>1. /\ f \in Flow
          /\ f.task = "draft" => f.document \in Documents
      <4>1. /\ flow[worker[w].job] \in Flow
            /\ flow[worker[w].job].task = "draft" =>
                  flow[worker[w].job].document \in Documents
        BY Busy DEF Coherent, OneAttempt
      <4>2. /\ f \in Flow
            /\ f.task = "draft" => /\ flow[worker[w].job].task = "draft"
                                  /\ f.document = flow[worker[w].job].document
        BY <4>1, FailedType
      <4> QED BY <4>1, <4>2
    <3>2. flow' = [flow EXCEPT ![worker[w].job] = f]
      BY <2>2
    <3> HIDE DEF f
    <3> QED BY <2>2, <3>1, <3>2, IdleSound DEF Settles, Finish
  <2> QED BY <2>1, <2>2
<1> QED BY <1>1, IdleSound, SettlesKeeps

LEMMA RaiseKeeps ==
    ASSUME Coherent, NEW w \in Workers, worker[w].step # "idle",
           NEW e \in Errors, Raise(w, e)
    PROVE  DriversKept
<1>1. CASE worker[w].task = "sync"
  <2> DEFINE x == [Idle EXCEPT !.job = worker[w].job, !.task = "sync",
                               !.step = "fail", !.error = e]
  <2>1. /\ x \in Worker /\ worker[w].job \in Jobs
        /\ x.job = worker[w].job /\ x.task = "sync" /\ x.step = "fail" /\ ~x.live
    BY Busy, IdleSound DEF Worker, Steps, Idle
  <2>2. Sound(x)
    <3> HIDE DEF x
    <3> QED BY <2>1 DEF Sound
  <2>3. worker' = [worker EXCEPT ![w] = x] /\ UNCHANGED flow
    BY <1>1 DEF Raise
  <2>4. ~worker[w].live
    BY <1>1, Busy
  <2> HIDE DEF x
  <2>5. Settles(w, x)
    BY <2>1, <2>3, <2>4 DEF Settles
  <2> QED BY <2>1, <2>2, <2>5, SettlesKeeps
<1>2. CASE worker[w].task # "sync"
  BY <1>2, FinishKeeps DEF Raise
<1> QED BY <1>1, <1>2

LEMMA LeaveKeeps ==
    ASSUME Coherent, NEW w \in Workers, worker[w].step # "idle", Leave(w), UNCHANGED flow,
           worker[w].task = "extract" => worker[w].document \in Documents
    PROVE  DriversKept
<1>1. CASE worker[w].task = "sync"
  <2>1. Settles(w, Idle)
    BY <1>1, Busy, IdleSound DEF Leave, Settles
  <2> QED BY <2>1, IdleSound, SettlesKeeps
<1>2. CASE worker[w].task # "sync"
  <2> DEFINE x == [worker[w] EXCEPT !.step = "done", !.seen = None, !.target = None,
                                    !.base = {}, !.known = {}]
  <2>1. worker' = [worker EXCEPT ![w] = x]
    BY <1>2 DEF Leave
  <2>2. /\ x \in Worker /\ x.step = "done"
        /\ x.job = worker[w].job /\ x.task = worker[w].task /\ x.live = worker[w].live
        /\ x.document = worker[w].document
    BY Busy DEF Worker, Steps
  <2>3. Sound(x)
    BY <1>2, <2>2, Busy DEF Sound
  <2> HIDE DEF x
  <2>4. Continues(w, x)
    BY <2>1, <2>2 DEF Continues
  <2> QED BY <2>2, <2>3, <2>4, ContinuesKeeps
<1> QED BY <1>1, <1>2

\* A step that only moves its worker on, to x.
LEMMA MoveKeeps ==
    ASSUME Coherent, NEW w \in Workers, worker[w].step # "idle", UNCHANGED flow,
           NEW x \in Worker, worker' = [worker EXCEPT ![w] = x], Sound(x),
           x.job = worker[w].job, x.task = worker[w].task, x.live = worker[w].live
    PROVE  DriversKept
<1>1. Continues(w, x)
  BY DEF Continues
<1> QED BY <1>1, ContinuesKeeps

LEMMA MarkReadKeeps ==
    ASSUME Coherent, NEW w \in Workers, MarkRead(w) \/ FailRead(w)
    PROVE  DriversKept /\ UNCHANGED rows
<1>1. worker[w].step # "idle"
  BY DEF MarkRead, FailRead, At
<1>2. PICK step \in {"marking", "failing"} :
        /\ worker' = [worker EXCEPT ![w].seen = job[worker[w].job], ![w].step = step]
        /\ step = "failing" => worker[w].task \in {"sync", "on_failure"}
  <2>1. CASE MarkRead(w)
    BY <2>1 DEF MarkRead
  <2>2. CASE FailRead(w)
    BY <1>1, <2>2, Busy DEF FailRead, At, Sound
  <2> QED BY <2>1, <2>2
<1> DEFINE x == [worker[w] EXCEPT !.seen = job[worker[w].job], !.step = step]
<1>3. worker' = [worker EXCEPT ![w] = x]
  BY <1>2
<1>4. /\ x \in Worker /\ x.step = step /\ x.seen = job[worker[w].job]
      /\ x.job = worker[w].job /\ x.task = worker[w].task /\ x.live = worker[w].live
  BY <1>1, Busy DEF Worker, Steps
<1>5. Sound(x)
  BY <1>1, <1>2, <1>4, Busy DEF Sound
<1>6. UNCHANGED flow /\ UNCHANGED rows
  BY DEF MarkRead, FailRead
<1> HIDE DEF x
<1> QED BY <1>1, <1>3, <1>4, <1>5, <1>6, MoveKeeps

LEMMA ExtractKeeps ==
    ASSUME Coherent, NEW w \in Workers, Extract(w)
    PROVE  DriversKept /\ UNCHANGED rows
<1>1. worker[w].step # "idle"
  BY DEF Extract, At
<1>2. PICK d \in Documents :
          worker' = [worker EXCEPT ![w] =
              IF @.task = "sync" THEN [@ EXCEPT !.document = d, !.step = "draft"]
              ELSE [@ EXCEPT !.document = d, !.step = "done", !.seen = None]]
  BY DEF Extract
<1> DEFINE x == IF worker[w].task = "sync"
                THEN [worker[w] EXCEPT !.document = d, !.step = "draft"]
                ELSE [worker[w] EXCEPT !.document = d, !.step = "done", !.seen = None]
<1>3. worker' = [worker EXCEPT ![w] = x]
  BY <1>2
<1>4. /\ x \in Worker /\ x.step \in {"draft", "done"} /\ x.document = d
      /\ x.job = worker[w].job /\ x.task = worker[w].task /\ x.live = worker[w].live
  BY <1>1, Busy DEF Worker, Steps
<1>5. Sound(x)
  BY <1>1, <1>4, Busy DEF Sound
<1>6. UNCHANGED flow /\ UNCHANGED rows
  BY DEF Extract
<1> HIDE DEF x
<1> QED BY <1>1, <1>3, <1>4, <1>5, <1>6, MoveKeeps

LEMMA NameForType ==
    ASSUME NEW seen \in JobRow, NEW d \in Documents
    PROVE  NameFor(seen, d) \in LenderNames
BY DEF NameFor, JobRow, LenderNames

LEMMA DraftReadKeeps ==
    ASSUME Coherent, NEW w \in Workers, DraftRead(w)
    PROVE  DriversKept /\ UNCHANGED rows
<1> DEFINE seen == IF worker[w].seen = None THEN job[worker[w].job] ELSE worker[w].seen
           name == NameFor(seen, worker[w].document)
           existing == IF seen.lender # None THEN {seen.lender} ELSE Called(name)
           target == IF existing = {} THEN None ELSE CHOOSE l \in existing : TRUE
           x == [worker[w] EXCEPT !.seen = seen, !.target = target,
                     !.base = Of(target, "published"),
                     !.known = VersionsOf(target), !.step = "drafting"]
<1>1. worker[w].step = "draft" /\ UNCHANGED rows
  BY DEF DraftRead, At
<1>2. \/ \E e \in {"other", "integrity"} : Raise(w, e)
      \/ worker' = [worker EXCEPT ![w] = x] /\ UNCHANGED flow
  BY DEF DraftRead
<1>3. CASE \E e \in {"other", "integrity"} : Raise(w, e)
  BY <1>1, <1>3, RaiseKeeps DEF Errors
<1>4. CASE worker' = [worker EXCEPT ![w] = x] /\ UNCHANGED flow
  <2>1. seen \in JobRow
    BY <1>1, Busy DEF Worker
  <2>2. target \in Lenders \cup {None}
    <3>1. existing \subseteq Lenders
      <4>1. seen.lender \in Lenders \cup {None}
        BY <2>1 DEF JobRow
      <4> HIDE DEF seen, name
      <4> QED BY <4>1 DEF Called
    <3> HIDE DEF existing
    <3> QED BY <3>1
  <2>3. Of(target, "published") \subseteq Versions /\ VersionsOf(target) \subseteq Versions
    BY DEF Of, VersionsOf
  <2> HIDE DEF seen, target
  <2>4. /\ x \in Worker /\ x.step = "drafting" /\ x.seen = seen
        /\ x.document = worker[w].document
        /\ x.job = worker[w].job /\ x.task = worker[w].task /\ x.live = worker[w].live
    BY <1>1, <2>1, <2>2, <2>3, Busy DEF Worker, Steps
  <2> HIDE DEF x
  <2>5. Sound(x)
    BY <1>1, <2>1, <2>4, Busy DEF Sound
  <2> QED BY <1>1, <1>4, <2>4, <2>5, MoveKeeps
<1> QED BY <1>1, <1>2, <1>3, <1>4

LEMMA FreshKey ==
    ASSUME NEW row, Unused(row) # {}
    PROVE  Fresh(row) \in DOMAIN row /\ row[Fresh(row)] = None
BY DEF Fresh, Unused

\* One commit of create_draft is one change of the rows, or none.
LEMMA DraftCommitKeeps ==
    ASSUME Coherent, NEW w \in Workers, DraftCommit(w)
    PROVE  DriversKept /\ (UNCHANGED rows \/ Drafts)
<1> DEFINE j == worker[w].job
           d == worker[w].document
           t == worker[w].target
           name == NameFor(worker[w].seen, d)
<1>1. /\ worker[w].step = "drafting"
      /\ j \in Jobs /\ job[j] \in JobRow /\ d \in Documents
      /\ worker[w].seen \in JobRow /\ t \in Lenders \cup {None}
  BY Busy DEF DraftCommit, At, Sound, Worker
<1>2. CASE ~Storable(w, Draft[d].programs)
  <2>1. Raise(w, "integrity") /\ UNCHANGED rows
    BY <1>2 DEF DraftCommit
  <2> QED BY <1>1, <2>1, RaiseKeeps DEF Errors
<1>3. CASE Storable(w, Draft[d].programs)
  <2> DEFINE v == Fresh(version)
             l == IF t = None THEN Fresh(lender) ELSE t
             s == Written(w, "status", "draft_ready", job[j].status)
             k == Written(w, "lender", l, job[j].lender)
  <2>1. /\ Unused(version) # {}
        /\ t = None => Unused(lender) # {}
        /\ lender' = IF t = None THEN [lender EXCEPT ![l] = name] ELSE lender
        /\ version' = [version EXCEPT ![v] =
              [lender |-> l, status |-> "draft", source |-> j, document |-> d]]
        /\ job' = [job EXCEPT
              ![j].status = Written(w, "status", "draft_ready", @),
              ![j].lender = Written(w, "lender", l, @),
              ![j].version = v,
              ![j].document = d,
              ![j].dropped = Draft[d].dropped]
        /\ UNCHANGED deleted
        /\ Leave(w)
        /\ UNCHANGED flow
    BY <1>3 DEF DraftCommit
  <2>2. v \in Versions /\ version[v] = None
    BY <2>1, FreshKey DEF Coherent, Typed, RowsTyped
  <2>3. /\ t = None => Called(name) = {}
        /\ t # None => lender[t] # None /\ Of(t, "draft") = {}
    BY <1>3 DEF Storable
  <2>4. /\ l \in Lenders
        /\ t = None => lender[l] = None
        /\ t # None => l = t
    BY <1>1, <2>1, FreshKey DEF Coherent, Typed, RowsTyped
  <2>5. s \in Statuses
    BY <1>1, WrittenOne DEF JobRow, Statuses
  <2>6. k \in Lenders \cup {None}
    <3> HIDE DEF l
    <3>1. job[j].lender \in Lenders \cup {None}
      BY <1>1 DEF JobRow
    <3>2. k \in {l, job[j].lender}
      BY WrittenOne
    <3> QED BY <2>4, <3>1, <3>2
  <2>7. job' = [job EXCEPT ![j] = [job[j] EXCEPT !.status = s, !.lender = k,
              !.version = v, !.document = d, !.dropped = Draft[d].dropped]]
    <3> HIDE DEF l, v, d
    <3> QED BY <1>1, <2>1 DEF Coherent, Typed, RowsTyped, JobRow
  <2>8. name \in LenderNames
    BY <1>1, NameForType
  <2>9. DriversKept
    BY <1>1, <2>1, LeaveKeeps
  <2>10. Drafts
    <3> HIDE DEF j, d, t, name, v, l, s, k
    <3>1. \/ lender' = lender /\ lender[l] # None /\ Of(l, "draft") = {}
          \/ \E n \in LenderNames :
                 /\ lender[l] = None /\ Called(n) = {}
                 /\ lender' = [lender EXCEPT ![l] = n]
      BY <2>1, <2>3, <2>4, <2>8
    <3> QED BY <1>1, <2>1, <2>2, <2>4, <2>5, <2>6, <2>7, <3>1 DEF Drafts
  <2> QED BY <2>9, <2>10
<1> QED BY <1>2, <1>3

\* mark_extracting and fail_job write the status and the error of their job.
LEMMA MarkCommitKeeps ==
    ASSUME Coherent, NEW w \in Workers, MarkCommit(w) \/ FailCommit(w)
    PROVE  DriversKept /\ Marks
<1> DEFINE j == worker[w].job
<1>1. /\ worker[w].step \in {"marking", "failing"}
      /\ worker[w] \in Worker /\ Sound(worker[w])
      /\ j \in Jobs /\ job[j] \in JobRow /\ worker[w].seen \in JobRow
  BY Busy DEF MarkCommit, FailCommit, At, Sound
<1>2. PICK status \in {"extracting", "failed"}, error \in Errors :
         /\ job' = [job EXCEPT ![j].status = Written(w, "status", status, @),
                               ![j].error = Written(w, "error", error, @)]
         /\ UNCHANGED <<lender, version, deleted, flow>>
  <2>1. worker[w].error \in Errors /\ None \in Errors /\ "other" \in Errors
    BY <1>1 DEF Worker, Errors
  <2> QED BY <2>1 DEF MarkCommit, FailCommit
<1>3. Marks
  <2> DEFINE s == Written(w, "status", status, job[j].status)
             e == Written(w, "error", error, job[j].error)
  <2>1. s \in Statuses /\ e \in Errors
    BY <1>1, WrittenOne DEF JobRow, Statuses
  <2>2. job' = [job EXCEPT ![j] = [job[j] EXCEPT !.status = s, !.error = e]]
    BY <1>1, <1>2 DEF Coherent, Typed, RowsTyped, JobRow
  <2> HIDE DEF s, e, j
  <2> QED BY <1>1, <1>2, <2>1, <2>2 DEF Marks
<1>4. CASE FailCommit(w)
  <2>1. Leave(w) /\ UNCHANGED flow /\ worker[w].task # "extract"
    BY <1>1, <1>4 DEF FailCommit, At, Sound
  <2> QED BY <1>1, <1>3, <2>1, LeaveKeeps
<1>5. CASE MarkCommit(w) /\ worker[w].task = "prepare"
  <2>1. Leave(w) /\ UNCHANGED flow /\ worker[w].task # "extract"
    BY <1>5 DEF MarkCommit
  <2> QED BY <1>1, <1>3, <2>1, LeaveKeeps
<1>6. CASE MarkCommit(w) /\ worker[w].task # "prepare"
  <2> DEFINE seen == [worker[w].seen EXCEPT !.status = "extracting", !.error = None]
             x == [worker[w] EXCEPT !.seen = seen, !.step = "extract"]
  <2>1. seen \in JobRow
    BY <1>1 DEF JobRow, Statuses, Errors
  <2>2. worker' = [worker EXCEPT ![w] = x]
    BY <1>1, <1>6 DEF MarkCommit, Worker, JobRow
  <2> HIDE DEF seen
  <2>3. /\ x \in Worker /\ x.step = "extract"
        /\ x.job = worker[w].job /\ x.task = worker[w].task /\ x.live = worker[w].live
    BY <1>1, <2>1 DEF Worker, Steps
  <2> HIDE DEF x
  <2>4. Sound(x)
    BY <1>1, <2>3 DEF Sound
  <2> QED BY <1>1, <1>2, <1>3, <2>2, <2>3, <2>4, MoveKeeps
<1> QED BY <1>4, <1>5, <1>6

LEMMA DoneKeeps ==
    ASSUME Coherent, NEW w \in Workers, Done(w)
    PROVE  DriversKept /\ UNCHANGED rows
<1> DEFINE j == worker[w].job
           f == Succeeded(flow[j], worker[w].document)
<1>1. /\ worker[w].step = "done" /\ worker[w] \in Worker /\ Sound(worker[w])
      /\ flow[j] \in Flow
      /\ worker[w].live => flow[j].task = worker[w].task
  BY Busy DEF Done, At
<1>2. UNCHANGED rows /\ Finish(w)
  BY DEF Done
<1>3. Settles(w, Idle)
  <2>1. CASE ~worker[w].live
    BY <1>2, <2>1, IdleSound DEF Settles, Finish, Done
  <2>2. CASE worker[w].live
    <3>1. flow[j].task \in Tasks /\ worker[w].document \in Documents \cup {None}
      BY <1>1, <2>2 DEF Sound, Worker
    <3>2. /\ f \in Flow /\ f.document = worker[w].document
          /\ f.task = "draft" => flow[j].task = "extract"
      BY <1>1, <3>1, FlowType
    <3>3. f.task = "draft" => f.document \in Documents
      BY <1>1, <2>2, <3>2 DEF Sound
    <3>4. flow' = [flow EXCEPT ![j] = f]
      BY <2>2 DEF Done
    <3> HIDE DEF f
    <3> QED BY <1>2, <2>2, <3>2, <3>3, <3>4, IdleSound DEF Settles, Finish
  <2> QED BY <2>1, <2>2
<1> QED BY <1>1, <1>2, <1>3, IdleSound, SettlesKeeps

LEMMA DisturbKeeps ==
    ASSUME Coherent, NEW w \in Workers, Error(w) \/ Unheard(w) \/ Overrun(w)
    PROVE  DriversKept
<1>1. CASE Error(w)
  <2>1. worker[w].step # "idle" /\ Raise(w, "other")
    BY <1>1 DEF Error
  <2> QED BY <2>1, RaiseKeeps DEF Errors
<1>2. CASE Unheard(w)
  <2>1. worker[w].step # "idle" /\ worker[w].live /\ Finish(w)
    BY <1>2 DEF Unheard, At
  <2>2. flow' = [flow EXCEPT ![worker[w].job] = Failed(@)]
    BY <1>2 DEF Unheard
  <2> QED BY <2>1, <2>2, FinishKeeps
<1>3. CASE Overrun(w)
  <2>1. worker[w].live /\ worker[w] \in Worker /\ Sound(worker[w])
    BY <1>3 DEF Overrun, Coherent, Typed, DriversTyped
  <2>2. worker[w].step # "idle"
    BY <2>1 DEF Sound
  <2> DEFINE x == [worker[w] EXCEPT !.live = FALSE]
             f == Failed(flow[worker[w].job])
  <2>3. worker' = [worker EXCEPT ![w] = x] /\ flow' = [flow EXCEPT ![worker[w].job] = f]
    BY <1>3 DEF Overrun
  <2>4. x \in Worker /\ Sound(x) /\ ~x.live /\ x.job = worker[w].job
    BY <2>1 DEF Worker, Sound
  <2>5. /\ flow[worker[w].job] \in Flow
        /\ flow[worker[w].job].task = "draft" =>
              flow[worker[w].job].document \in Documents
    BY <2>2, Busy DEF Coherent, OneAttempt
  <2>6. /\ f \in Flow
        /\ f.task = "draft" => /\ flow[worker[w].job].task = "draft"
                              /\ f.document = flow[worker[w].job].document
    BY <2>5, FailedType
  <2> HIDE DEF x, f
  <2>7. Settles(w, x)
    BY <2>1, <2>3, <2>4, <2>5, <2>6 DEF Settles
  <2> QED BY <2>2, <2>4, <2>7, SettlesKeeps
<1> QED BY <1>1, <1>2, <1>3

LEMMA BeginSyncKeeps ==
    ASSUME Coherent, NEW w \in Workers, NEW j \in Jobs, BeginSync(w, j)
    PROVE  DriversKept /\ background' \in [Jobs -> Nat]
           /\ \A i \in Jobs : background'[i] > 0 => background[i] > 0
<1> DEFINE x == [Idle EXCEPT !.job = j, !.task = "sync", !.step = "mark"]
<1>1. /\ worker[w] = Idle /\ background[j] > 0 /\ UNCHANGED flow
      /\ background' = [background EXCEPT ![j] = @ - 1]
      /\ worker' = [worker EXCEPT ![w] = x]
  BY DEF BeginSync
<1>2. background \in [Jobs -> Nat] /\ job[j] \in JobRow
  BY <1>1 DEF Coherent, Typed, QueuesTyped, Refers
<1>3. /\ x \in Worker /\ ~x.live /\ x.job = j /\ x.task = "sync" /\ x.step = "mark"
  BY IdleSound DEF Worker, Steps, Idle
<1> HIDE DEF x
<1>4. Sound(x)
  BY <1>3 DEF Sound
<1>5. /\ worker' \in [Workers -> Worker]
      /\ \A u \in Workers : worker'[u] = IF u = w THEN x ELSE worker[u]
  BY <1>1, <1>3 DEF Coherent, Typed, DriversTyped
<1>6. DriversTyped'
  BY <1>1, <1>4, <1>5 DEF Coherent, Typed, DriversTyped
<1>7. OneAttempt'
  BY <1>1, <1>3, <1>5 DEF Coherent, OneAttempt
<1>8. \A u \in Workers : worker'[u].step # "idle" =>
          worker'[u].job \in Jobs /\ job[worker'[u].job] \in JobRow
  BY <1>2, <1>3, <1>5 DEF Coherent, Typed, DriversTyped, Sound, Refers
<1> QED BY <1>1, <1>2, <1>6, <1>7, <1>8 DEF DriversKept, Coherent, Refers

LEMMA BeginAttemptKeeps ==
    ASSUME Coherent, NEW w \in Workers, NEW j \in Jobs, BeginAttempt(w, j)
    PROVE  DriversKept /\ UNCHANGED background
<1> DEFINE step == FirstStep[flow[j].task]
           x == [Idle EXCEPT !.job = j, !.task = flow[j].task, !.live = TRUE,
                             !.document = flow[j].document, !.step = step]
           f == [flow[j] EXCEPT !.given = TRUE]
<1>1. /\ worker[w] = Idle /\ flow[j].task \in Tasks /\ ~flow[j].given
      /\ flow' = [flow EXCEPT ![j] = f]
      /\ worker' = [worker EXCEPT ![w] = x]
      /\ UNCHANGED background
  BY DEF BeginAttempt
<1>2. /\ flow[j] \in Flow /\ job[j] \in JobRow
      /\ flow[j].document \in Documents \cup {None}
      /\ flow[j].task = "draft" => flow[j].document \in Documents
  BY <1>1 DEF Coherent, Typed, DriversTyped, Refers, OneAttempt, Flow
<1>3. /\ step \in {"mark", "draft", "fail"}
      /\ step = "draft" => flow[j].task = "draft"
      /\ step = "fail" => flow[j].task = "on_failure"
  BY <1>1 DEF FirstStep, Tasks
<1>4. /\ f \in Flow /\ f.task = flow[j].task /\ f.given /\ f.document = flow[j].document
  BY <1>2 DEF Flow
<1> HIDE DEF step, f
<1>5. /\ x \in Worker /\ x.live /\ x.job = j /\ x.task = flow[j].task /\ x.step = step
      /\ x.document = flow[j].document
  BY <1>1, <1>2, <1>3, IdleSound DEF Worker, Steps, Idle
<1> HIDE DEF x
<1>6. Sound(x)
  BY <1>1, <1>2, <1>3, <1>5 DEF Sound
<1>7. /\ worker' \in [Workers -> Worker]
      /\ \A u \in Workers : worker'[u] = IF u = w THEN x ELSE worker[u]
      /\ flow' \in [Jobs -> Flow]
      /\ \A i \in Jobs : flow'[i] = IF i = j THEN f ELSE flow[i]
  BY <1>1, <1>4, <1>5 DEF Coherent, Typed, DriversTyped
<1>8. DriversTyped'
  BY <1>6, <1>7 DEF Coherent, Typed, DriversTyped
<1>9. OneAttempt'
  <2>1. \A u \in Workers : worker[u].live =>
          /\ worker[u].job \in Jobs /\ worker[u].job # j
          /\ flow[worker[u].job].task = worker[u].task
          /\ flow[worker[u].job].given
    BY <1>1 DEF Coherent, OneAttempt, Typed, DriversTyped, Sound
  <2>2. \A u \in Workers : u # w /\ worker'[u].live => worker'[u].job # j
    BY <1>7, <2>1
  <2>3. \A u \in Workers : worker'[u].live =>
          flow'[worker'[u].job].task = worker'[u].task /\ flow'[worker'[u].job].given
    BY <1>4, <1>5, <1>7, <2>1
  <2>4. \A u, y \in Workers :
          worker'[u].live /\ worker'[y].live /\ worker'[u].job = worker'[y].job => u = y
    BY <1>5, <1>7, <2>2 DEF Coherent, OneAttempt
  <2>5. \A i \in Jobs : flow'[i].task = "draft" => flow'[i].document \in Documents
    BY <1>2, <1>4, <1>7 DEF Coherent, OneAttempt
  <2> QED BY <2>3, <2>4, <2>5 DEF OneAttempt
<1>10. \A u \in Workers : worker'[u].step # "idle" =>
          worker'[u].job \in Jobs /\ job[worker'[u].job] \in JobRow
  BY <1>2, <1>5, <1>7 DEF Coherent, Typed, DriversTyped, Sound, Refers
<1> QED BY <1>1, <1>2, <1>4, <1>7, <1>8, <1>9, <1>10 DEF DriversKept, Coherent, Refers

LEMMA StillKeeps ==
    ASSUME Coherent, UNCHANGED <<flow, worker>>
    PROVE  DriversKept
BY DEF DriversKept, Coherent, Typed, DriversTyped, Refers, OneAttempt, Sound

-----------------------------------------------------------------------------
(* The steps together *)

LEMMA Assemble ==
    ASSUME Coherent, RowStep, DriversKept, QueuesTyped',
           \A s \in Sessions : session'[s] # None => job[session'[s]] \in JobRow,
           \A j \in Jobs : background'[j] > 0 => job[j] \in JobRow
    PROVE  Coherent'
<1>1. RowsTyped' /\ JobsKept
  BY RowStepTyped DEF Coherent, Typed
<1>2. Typed'
  BY <1>1 DEF Typed, DriversKept
<1>3. \A s \in Sessions : session'[s] # None => session'[s] \in Jobs
  BY DEF QueuesTyped
<1>4. Refers'
  BY <1>1, <1>3 DEF Refers, DriversKept, JobsKept
<1> QED BY <1>2, <1>4 DEF Coherent, DriversKept

LEMMA InitShape == Init => Coherent
<1> SUFFICES ASSUME Init PROVE Coherent
  OBVIOUS
<1>1. RowsTyped
  <2>1. \A l \in DOMAIN Existing : Existing[l] \in LenderNames
    BY DEF LenderNames
  <2> QED BY <2>1, RowsAssumption DEF Init, RowsTyped
<1>2. QueuesTyped
  BY IngestionAssumption DEF Init, QueuesTyped
<1>3. /\ flow = [j \in Jobs |-> Due("none", None)]
      /\ worker = [w \in Workers |-> Idle]
      /\ session = [s \in Sessions |-> None]
      /\ background = [j \in Jobs |-> 0]
  BY DEF Init
<1>4. DriversTyped
  BY <1>3, FlowType, IdleSound DEF DriversTyped
<1>5. Due("none", None).task = "none"
  BY DEF Due
<1>6. Refers /\ OneAttempt
  BY <1>3, <1>5, IdleSound DEF Refers, OneAttempt, Tasks
<1> QED BY <1>1, <1>2, <1>4, <1>6 DEF Coherent, Typed

\* What ingestion itself does to the rows, the reviewers aside.
IngestionStep == UNCHANGED rows \/ Marks \/ Drafts \/ Adds

LEMMA UploadShape ==
    ASSUME Coherent, NEW j \in Jobs, NEW l \in Lenders \cup {None},
           NEW name \in Names \cup {None}, Upload(j, l, name)
    PROVE  Coherent' /\ IngestionStep
<1> DEFINE row == [status |-> "uploaded", error |-> None, lender |-> l,
                   name |-> name, version |-> None,
                   document |-> None, dropped |-> {}]
<1>1. row \in JobRow /\ row.version = None
  BY DEF JobRow, Statuses, Errors
<1>2. /\ job[j] = None /\ job' = [job EXCEPT ![j] = row]
      /\ UNCHANGED <<lender, version, deleted, session, worker, retries>>
      /\ faults' \in 0..MaxFaults
      /\ flow' = flow \/ flow' = [flow EXCEPT ![j] = Due("prepare", None)]
      /\ background' = background \/ background' = [background EXCEPT ![j] = @ + 1]
  BY IngestionAssumption DEF Upload, Fault, NoFault, Coherent, Typed, QueuesTyped
<1> HIDE DEF row
<1>3. Adds
  BY <1>1, <1>2 DEF Adds
<1>4. RowsTyped' /\ JobsKept
  BY <1>3, RowStepTyped DEF RowStep, Coherent, Typed
<1>5. /\ job'[j] \in JobRow
      /\ job[j] \notin JobRow
      /\ Due("prepare", None) \in Flow /\ Due("prepare", None).task = "prepare"
  BY <1>1, <1>2, FlowType, RowsAssumption DEF Coherent, Typed, RowsTyped, Due
<1>6. QueuesTyped'
  BY <1>2 DEF Coherent, Typed, QueuesTyped
<1>7. /\ flow' \in [Jobs -> Flow]
      /\ \A i \in Jobs : i # j => flow'[i] = flow[i] /\ background'[i] = background[i]
      /\ \/ flow'[j].task = flow[j].task /\ flow'[j].document = flow[j].document
         \/ flow'[j].task = "prepare"
  BY <1>2, <1>5 DEF Coherent, Typed, DriversTyped, QueuesTyped
<1>8. DriversTyped'
  BY <1>2, <1>7 DEF Coherent, Typed, DriversTyped
<1>9. Refers'
  <2>1. /\ \A s \in Sessions : session[s] # None => session[s] \in Jobs
        /\ \A w \in Workers : worker[w].step # "idle" => worker[w].job \in Jobs
    BY DEF Coherent, Typed, QueuesTyped, DriversTyped, Sound
  <2> QED BY <1>2, <1>4, <1>5, <1>7, <2>1 DEF Coherent, Refers, JobsKept
<1>10. OneAttempt'
  <2>1. \A w \in Workers : worker[w].live => worker[w].job \in Jobs \ {j}
    BY <1>5 DEF Coherent, Typed, DriversTyped, Sound, Refers
  <2> QED BY <1>2, <1>7, <2>1 DEF Coherent, OneAttempt
<1> QED BY <1>3, <1>4, <1>6, <1>8, <1>9, <1>10 DEF Coherent, Typed, IngestionStep

LEMMA RetryShape ==
    ASSUME Coherent, NEW s \in Sessions,
           (\E j \in Jobs : RetryLoad(s, j)) \/ RetryCommit(s)
    PROVE  Coherent' /\ IngestionStep
<1>1. ASSUME NEW j \in Jobs, RetryLoad(s, j) PROVE Coherent' /\ IngestionStep
  <2>1. /\ job[j] \in JobRow /\ UNCHANGED rows /\ UNCHANGED <<flow, worker>>
        /\ session' = [session EXCEPT ![s] = j] /\ background' = background
        /\ retries' = retries + 1 /\ retries < MaxRetries /\ faults' = faults
    BY <1>1 DEF RetryLoad, queues, NoFault, Coherent, Typed, RowsTyped
  <2>2. QueuesTyped'
    BY <2>1, IngestionAssumption DEF Coherent, Typed, QueuesTyped
  <2>3. DriversKept
    BY <2>1, StillKeeps
  <2>4. /\ \A y \in Sessions : session'[y] # None => job[session'[y]] \in JobRow
        /\ \A i \in Jobs : background'[i] > 0 => job[i] \in JobRow
    BY <2>1 DEF Coherent, Refers, Typed, QueuesTyped
  <2> QED BY <2>1, <2>2, <2>3, <2>4, Assemble DEF RowStep, IngestionStep
<1>2. CASE RetryCommit(s)
  <2> DEFINE j == session[s]
  <2>1. /\ j \in Jobs /\ job[j] \in JobRow
        /\ job' = [job EXCEPT ![j].status = "uploaded", ![j].error = None]
        /\ background' = [background EXCEPT ![j] = @ + 1]
        /\ session' = [session EXCEPT ![s] = None]
        /\ UNCHANGED <<lender, version, deleted, flow, worker, retries, faults>>
    BY <1>2 DEF RetryCommit, NoFault, Coherent, Typed, QueuesTyped, Refers
  <2>2. job' = [job EXCEPT ![j] = [job[j] EXCEPT !.status = "uploaded", !.error = None]]
    BY <2>1 DEF Coherent, Typed, RowsTyped, JobRow
  <2>3. Marks
    <3>1. "uploaded" \in Statuses /\ None \in Errors
      BY DEF Statuses, Errors
    <3> HIDE DEF j
    <3> QED BY <2>1, <2>2, <3>1 DEF Marks
  <2>4. QueuesTyped'
    BY <2>1 DEF Coherent, Typed, QueuesTyped
  <2>5. DriversKept
    BY <2>1, StillKeeps
  <2>6. /\ \A y \in Sessions : session'[y] # None => job[session'[y]] \in JobRow
        /\ \A i \in Jobs : background'[i] > 0 => job[i] \in JobRow
    BY <2>1 DEF Coherent, Refers, Typed, QueuesTyped
  <2> QED BY <2>3, <2>4, <2>5, <2>6, Assemble DEF RowStep, IngestionStep
<1> QED BY <1>1, <1>2

LEMMA WorkerShape ==
    ASSUME Coherent, NEW w \in Workers, Begin(w) \/ Step(w) \/ Disturb(w)
    PROVE  Coherent' /\ IngestionStep
<1>1. faults' \in 0..MaxFaults /\ UNCHANGED <<session, retries>>
  BY IngestionAssumption DEF Begin, Step, Disturb, Error, Unheard, Overrun, Fault, NoFault,
        Coherent, Typed, QueuesTyped
<1>2. CASE Begin(w)
  <2>1. UNCHANGED rows
    BY <1>2 DEF Begin
  <2>2. /\ DriversKept /\ background' \in [Jobs -> Nat]
        /\ \A i \in Jobs : background'[i] > 0 => background[i] > 0
    BY <1>2, BeginSyncKeeps, BeginAttemptKeeps DEF Begin, Coherent, Typed, QueuesTyped
  <2>3. QueuesTyped'
    BY <1>1, <2>2 DEF Coherent, Typed, QueuesTyped
  <2> QED BY <1>1, <2>1, <2>2, <2>3, Assemble DEF Coherent, Refers, RowStep, IngestionStep
<1>3. CASE Step(w) \/ Disturb(w)
  <2>1. DriversKept /\ IngestionStep /\ UNCHANGED background
    <3>1. CASE Step(w)
      BY <3>1, MarkReadKeeps, MarkCommitKeeps, ExtractKeeps, DraftReadKeeps,
         DraftCommitKeeps, DoneKeeps DEF Step, IngestionStep
    <3>2. CASE Disturb(w)
      BY <3>2, DisturbKeeps DEF Disturb, IngestionStep
    <3> QED BY <1>3, <3>1, <3>2
  <2>2. QueuesTyped'
    BY <1>1, <2>1 DEF Coherent, Typed, QueuesTyped
  <2> QED BY <1>1, <2>1, <2>2, Assemble DEF Coherent, Refers, RowStep, IngestionStep
<1> QED BY <1>2, <1>3

LEMMA ReviewShape ==
    ASSUME Coherent, Review
    PROVE  Coherent' /\ Reviewed
<1>1. Reviewed /\ UNCHANGED <<session, background, flow, worker, retries, faults>>
  BY DEF Review, Reviewed, queues, NoFault
<1>2. QueuesTyped'
  BY <1>1 DEF Coherent, Typed, QueuesTyped
<1>3. DriversKept
  BY <1>1, StillKeeps
<1> QED BY <1>1, <1>2, <1>3, Assemble DEF Coherent, Refers, RowStep

LEMMA NextShape ==
    ASSUME Coherent, [Next]_vars
    PROVE  Coherent' /\ RowStep /\ (Review \/ IngestionStep)
<1>1. CASE Client
  BY <1>1, UploadShape, RetryShape DEF Client, RowStep, IngestionStep
<1>2. CASE \E s \in Sessions : RetryCommit(s)
  BY <1>2, RetryShape DEF RowStep, IngestionStep
<1>3. CASE \E w \in Workers : Begin(w) \/ Step(w) \/ Disturb(w)
  BY <1>3, WorkerShape DEF RowStep, IngestionStep
<1>4. CASE Review
  BY <1>4, ReviewShape DEF RowStep
<1>5. CASE UNCHANGED vars
  <2>1. UNCHANGED rows /\ UNCHANGED <<flow, worker>> /\ UNCHANGED <<session, background, faults, retries>>
    BY <1>5 DEF vars, rows
  <2>2. DriversKept /\ QueuesTyped'
    BY <2>1, StillKeeps DEF Coherent, Typed, QueuesTyped
  <2> QED BY <2>1, <2>2, Assemble DEF Coherent, Refers, RowStep, IngestionStep
<1> QED BY <1>1, <1>2, <1>3, <1>4, <1>5 DEF Next

-----------------------------------------------------------------------------
(* The theorems *)

\* The inductive invariant.
IInv == Coherent /\ Linked /\ OneOfEach

LEMMA InitIInv ==
    ASSUME Init, \A j \in Jobs : job[j] \notin JobRow
    PROVE  IInv
<1>1. Coherent
  BY InitShape
<1>2. Linked
  BY DEF Linked
<1>3. OneOfEach
  <2>1. /\ \A l \in Lenders : lender[l] # None =>
              l \in DOMAIN Existing /\ lender[l] = Existing[l]
        /\ \A l \in DOMAIN Existing : lender[l] = Existing[l] /\ lender[l] \in LenderNames
        /\ \A v \in Versions : version[v] # None =>
              v \in DOMAIN Policies /\ version[v] = Policies[v]
    BY IngestionAssumption DEF Init, LenderNames
  <2> QED BY <2>1, RowsAssumption DEF OneOfEach
<1> QED BY <1>1, <1>2, <1>3 DEF IInv

LEMMA Invariant == Spec => []IInv
<1>1. Init => IInv
  BY InitIInv, RowsAssumption DEF Init
<1>2. IInv /\ [Next]_vars => IInv'
  BY NextShape, LinkedStep, OneOfEachStep DEF IInv, Coherent, Typed
<1> QED BY <1>1, <1>2, PTL DEF Spec

\* Every variable keeps its type, however executions, faults and reviews
\* interleave.
THEOREM IngestionTyped == Spec => []TypeOK
<1>1. IInv => TypeOK
  BY DEF IInv, Coherent, Typed, RowsTyped, QueuesTyped, DriversTyped, TypeOK
<1> QED BY <1>1, Invariant, PTL

\* Whatever the guidelines, every rule and program read in them is in the draft
\* of the job or on the checklist of its reviewer.
THEOREM NothingIsLostHolds == Spec => []NothingIsLost
<1>1. IInv => NothingIsLost
  BY LinkedReports DEF IInv, Coherent, Typed
<1> QED BY <1>1, Invariant, PTL

\* Whatever the guidelines, the draft passes the validation of publish.
THEOREM DraftIsPublishableHolds == Spec => []DraftIsPublishable
<1>1. IInv => DraftIsPublishable
  BY DraftsPublishable DEF IInv, Coherent, Typed
<1> QED BY <1>1, Invariant, PTL

\* For any number of uploads, retries and workers: no lender has two drafts or
\* two published versions, no name two lenders, no version lacks its lender.
THEOREM OneOfEachHolds == Spec => []OneOfEach
<1>1. IInv => OneOfEach
  BY DEF IInv
<1> QED BY <1>1, Invariant, PTL

\* For any number of uploads, retries and workers: only reviewers change a
\* version, and what ingestion adds is a draft.
THEOREM IngestionOnlyAddsDraftsHolds == Spec => IngestionOnlyAddsDrafts
<1>1. ASSUME IInv, [Next]_vars
      PROVE  [Review \/ \A v \in Versions : version'[v] # version[v] =>
                    version[v] = None /\ version'[v].status = "draft"]_vars
  <2>1. Review \/ IngestionStep
    BY <1>1, NextShape DEF IInv
  <2>2. version \in [Versions -> VersionRow \cup {None}]
    BY <1>1 DEF IInv, Coherent, Typed, RowsTyped
  <2>3. CASE Drafts
    BY <2>2, <2>3 DEF Drafts
  <2>4. CASE UNCHANGED rows \/ Marks \/ Adds
    BY <2>4 DEF rows, Marks, Adds
  <2> QED BY <2>1, <2>3, <2>4 DEF IngestionStep
<1> QED BY <1>1, Invariant, PTL DEF Spec, IngestionOnlyAddsDrafts

-----------------------------------------------------------------------------
(* Drafts and the jobs they are found through.                              *)

\* What a job calls its lender stays what it is: nobody deletes the lender, so
\* that the job keeps its link or the uploader's name, or the guidelines agree.
NamesAgree ==
    \/ "delete" \notin Reviews
    \/ \A d, e \in Documents : Extracted[d].lender_name = Extracted[e].lender_name

\* Deleted lenders do not come back.
Gone(l) == lender[l] = None /\ l \in deleted
HasRead(w) == worker[w].step # "idle" /\ worker[w].seen # None

Sourced == \A v \in Versions : Ingested(v) => job[version[v].source] \in JobRow

\* The row a session has read names the lender of the job, or a deleted one, or
\* none where the job has since found the lender of that name.
ReadHolds(j, seen) ==
    /\ seen.name = job[j].name
    /\ seen.lender # None => Gone(seen.lender) \/ job[j].lender = seen.lender
    /\ seen.lender = None /\ job[j].lender # None =>
          \A d \in Documents : lender[job[j].lender] = NameFor(seen, d)
\* create_draft writes to the lender it has read, or the one of that name.
TargetHolds(seen, target, document) ==
    /\ seen.lender # None => target = seen.lender
    /\ seen.lender = None /\ target # None =>
          Gone(target) \/ lender[target] = NameFor(seen, document)
NameHolds(row) == "delete" \notin Reviews /\ row.lender = None => row.name # None

\* The strengthening of DraftIsFound.
Traceable ==
    /\ Sourced /\ DraftIsFound
    /\ \A j \in Jobs : job[j] \in JobRow => NameHolds(job[j])
    /\ \A w \in Workers : HasRead(w) => /\ ReadHolds(worker[w].job, worker[w].seen)
                                       /\ NameHolds(worker[w].seen)
    /\ \A w \in Workers : worker[w].step = "drafting" =>
          TargetHolds(worker[w].seen, worker[w].target, worker[w].document)

\* The steps, as far as jobs and lenders are concerned.
SameLinks(old, new) ==
    /\ old \in JobRow /\ new \in JobRow
    /\ new.name = old.name /\ new.lender = old.lender /\ new.version = old.version
Quiet ==
    /\ UNCHANGED <<lender, version, deleted>>
    /\ \A j \in Jobs : \/ job'[j] = job[j]
                       \/ SameLinks(job[j], job'[j])
Forgets(u) == worker'[u].seen = None /\ worker'[u].step # "drafting"
Keeps(u) ==
    /\ worker[u].step # "idle"
    /\ worker'[u].job = worker[u].job /\ worker'[u].seen = worker[u].seen
    /\ worker'[u].step = "drafting" =>
          /\ worker[u].step = "drafting"
          /\ worker'[u].target = worker[u].target
          /\ worker'[u].document = worker[u].document
Recalls(u) ==
    /\ worker[u].step # "idle" /\ worker'[u].step # "drafting"
    /\ worker'[u].job = worker[u].job
    /\ \E row \in {job[worker[u].job], worker[u].seen} :
          /\ row \in JobRow
          /\ worker'[u].seen \in JobRow
          /\ worker'[u].seen.name = row.name
          /\ worker'[u].seen.lender = row.lender
Aims(u) ==
    /\ worker[u].step # "idle" /\ worker'[u].job = worker[u].job
    /\ worker'[u].seen \in {job[worker[u].job], worker[u].seen}
    /\ worker'[u].seen \in JobRow
    /\ worker'[u].seen.lender # None => worker'[u].target = worker'[u].seen.lender
    /\ worker'[u].seen.lender = None /\ worker'[u].target # None =>
          worker'[u].target
              \in Called(NameFor(worker'[u].seen, worker'[u].document))
Looks(u) == worker'[u] = worker[u] \/ Forgets(u) \/ Keeps(u) \/ Recalls(u) \/ Aims(u)

\* A commit of create_draft that the database accepts.
Writes(w, v, l) ==
    LET j == worker[w].job
        name == NameFor(worker[w].seen, worker[w].document)
    IN  /\ worker[w].step = "drafting" /\ version[v] = None
        /\ version'[v].lender = l /\ version'[v].source = j
        /\ \A u \in Versions \ {v} : version'[u] = version[u]
        /\ job'[j] \in JobRow
        /\ job'[j].name = job[j].name /\ job'[j].version = v
        /\ job'[j].lender = Written(w, "lender", l, job[j].lender)
        /\ \A i \in Jobs \ {j} : job'[i] = job[i]
        /\ \/ /\ worker[w].target = None /\ lender[l] = None /\ l \notin deleted
              /\ Called(name) = {} /\ lender' = [lender EXCEPT ![l] = name]
           \/ /\ worker[w].target = l /\ lender[l] # None /\ Of(l, "draft") = {}
              /\ lender' = lender
        /\ UNCHANGED deleted
        /\ \A u \in Workers \ {w} : worker'[u] = worker[u]
        /\ Forgets(w)

LEMMA LeaveForgets ==
    ASSUME Coherent, NEW w \in Workers, Leave(w)
    PROVE  /\ Forgets(w)
           /\ \A u \in Workers \ {w} : worker'[u] = worker[u]
BY DEF Coherent, Typed, DriversTyped, Leave, Forgets, Worker, Idle

LEMMA RaiseForgets ==
    ASSUME Coherent, NEW w \in Workers, NEW e, Raise(w, e)
    PROVE  /\ Forgets(w)
           /\ \A u \in Workers \ {w} : worker'[u] = worker[u]
<1> DEFINE x == IF worker[w].task = "sync"
                THEN [Idle EXCEPT !.job = worker[w].job, !.task = "sync",
                                  !.step = "fail", !.error = e]
                ELSE Idle
<1>1. worker' = [worker EXCEPT ![w] = x]
  BY DEF Raise, Finish
<1>2. x.seen = None /\ x.step # "drafting"
  BY DEF Idle
<1> HIDE DEF x
<1> QED BY <1>1, <1>2 DEF Coherent, Typed, DriversTyped, Forgets

LEMMA DraftCommitWrites ==
    ASSUME Coherent, NEW w \in Workers, DraftCommit(w)
    PROVE  \/ /\ UNCHANGED rows /\ Forgets(w)
              /\ \A u \in Workers \ {w} : worker'[u] = worker[u]
           \/ \E v \in Versions, l \in Lenders : Writes(w, v, l)
<1> DEFINE j == worker[w].job
           d == worker[w].document
           t == worker[w].target
           name == NameFor(worker[w].seen, d)
<1>1. /\ worker[w].step = "drafting"
      /\ j \in Jobs /\ job[j] \in JobRow /\ d \in Documents
      /\ worker[w].seen \in JobRow /\ t \in Lenders \cup {None}
  BY Busy DEF DraftCommit, At, Sound, Worker
<1>2. CASE ~Storable(w, Draft[d].programs)
  <2>1. Raise(w, "integrity") /\ UNCHANGED rows
    BY <1>2 DEF DraftCommit
  <2> QED BY <2>1, RaiseForgets
<1>3. CASE Storable(w, Draft[d].programs)
  <2> DEFINE v == Fresh(version)
             l == IF t = None THEN Fresh(lender) ELSE t
  <2>1. /\ Unused(version) # {}
        /\ t = None => Unused(lender) # {}
        /\ lender' = IF t = None THEN [lender EXCEPT ![l] = name] ELSE lender
        /\ version' = [version EXCEPT ![v] =
              [lender |-> l, status |-> "draft", source |-> j, document |-> d]]
        /\ job' = [job EXCEPT
              ![j].status = Written(w, "status", "draft_ready", @),
              ![j].lender = Written(w, "lender", l, @),
              ![j].version = v,
              ![j].document = d,
              ![j].dropped = Draft[d].dropped]
        /\ UNCHANGED deleted
        /\ Leave(w)
        /\ UNCHANGED flow
    BY <1>3 DEF DraftCommit
  <2>2. v \in Versions /\ version[v] = None
    BY <2>1, FreshKey DEF Coherent, Typed, RowsTyped
  <2>3. /\ t = None => Called(name) = {}
        /\ t # None => lender[t] # None /\ Of(t, "draft") = {}
    BY <1>3 DEF Storable
  <2>4. /\ l \in Lenders
        /\ t = None => lender[l] = None /\ l \notin deleted
        /\ t # None => l = t
    BY <1>1, <2>1 DEF Coherent, Typed, RowsTyped, Fresh, Unused
  <2> HIDE DEF l, v, d, name
  <2>5. /\ job'[j].name = job[j].name /\ job'[j].version = v
        /\ job'[j].lender = Written(w, "lender", l, job[j].lender)
        /\ \A i \in Jobs \ {j} : job'[i] = job[i]
    BY <1>1, <2>1 DEF Coherent, Typed, RowsTyped, JobRow
  <2>6. job'[j] \in JobRow
    BY <1>1, DraftCommitKeeps, RowStepTyped DEF RowStep, Coherent, Typed, JobsKept
  <2>7. /\ version'[v].lender = l /\ version'[v].source = j
        /\ \A u \in Versions \ {v} : version'[u] = version[u]
    BY <2>1, <2>2 DEF Coherent, Typed, RowsTyped
  <2>8. /\ Forgets(w)
        /\ \A u \in Workers \ {w} : worker'[u] = worker[u]
    BY <2>1, LeaveForgets
  <2>9. \/ /\ t = None /\ lender[l] = None /\ l \notin deleted
           /\ Called(name) = {} /\ lender' = [lender EXCEPT ![l] = name]
        \/ /\ t = l /\ lender[l] # None /\ Of(l, "draft") = {}
           /\ lender' = lender
    BY <1>1, <2>1, <2>3, <2>4
  <2>10. Writes(w, v, l)
    BY <1>1, <2>1, <2>2, <2>5, <2>6, <2>7, <2>8, <2>9 DEF Writes, d, name
  <2> QED BY <2>2, <2>4, <2>10
<1> QED BY <1>2, <1>3

LEMMA QuietRows == ASSUME Coherent, UNCHANGED rows \/ Marks PROVE Quiet
<1>1. CASE UNCHANGED rows
  BY <1>1 DEF rows, Quiet
<1>2. CASE Marks
  <2>1. PICK j \in Jobs, s \in Statuses, e \in Errors :
        /\ job[j] \in JobRow
        /\ job' = [job EXCEPT ![j] = [job[j] EXCEPT !.status = s, !.error = e]]
        /\ UNCHANGED <<lender, version, deleted>>
    BY <1>2 DEF Marks
  <2>2. [job[j] EXCEPT !.status = s, !.error = e] \in JobRow
    BY <2>1 DEF JobRow
  <2>3. SameLinks(job[j], job'[j])
    BY <2>1, <2>2 DEF SameLinks, Coherent, Typed, RowsTyped, JobRow
  <2> QED BY <2>1, <2>3 DEF Quiet, Coherent, Typed, RowsTyped
<1> QED BY <1>1, <1>2

\* A new job has a lender, or the name the uploader typed.
Uploads ==
    \E j \in Jobs, row \in JobRow :
        /\ job[j] = None /\ job' = [job EXCEPT ![j] = row]
        /\ row.lender = None => row.name # None
        /\ UNCHANGED <<lender, version, deleted, worker>>

\* What the other workers see of a step of one of them.
Alone(w) == \A u \in Workers \ {w} : worker'[u] = worker[u]

LEMMA StepLooks ==
    ASSUME Coherent, NEW w \in Workers,
           MarkRead(w) \/ FailRead(w) \/ MarkCommit(w) \/ FailCommit(w) \/ Extract(w)
           \/ DraftRead(w) \/ Done(w)
    PROVE  Quiet /\ Looks(w) /\ Alone(w)
<1>0. /\ worker \in [Workers -> Worker]
      /\ worker[w].step # "idle"
      /\ \A x \in Worker : x.seen \in JobRow \cup {None}
  BY DEF MarkRead, FailRead, MarkCommit, FailCommit, Extract, DraftRead, Done,
         At, Coherent, Typed, DriversTyped, Worker
<1>1. CASE MarkRead(w) \/ FailRead(w)
  <2>1. PICK step \in {"marking", "failing"} :
          worker' = [worker EXCEPT ![w].seen = job[worker[w].job], ![w].step = step]
    BY <1>1 DEF MarkRead, FailRead
  <2>2. /\ worker'[w].job = worker[w].job /\ worker'[w].step # "drafting"
        /\ worker'[w].seen = job[worker[w].job]
    BY <1>0, <2>1 DEF Worker
  <2>3. Recalls(w)
    BY <1>0, <2>2, Busy DEF Recalls
  <2>4. Quiet
    BY <1>1, MarkReadKeeps, QuietRows
  <2> QED BY <1>0, <2>1, <2>3, <2>4 DEF Looks, Alone
<1>2. CASE MarkCommit(w) \/ FailCommit(w)
  <2>1. Quiet
    BY <1>2, MarkCommitKeeps, QuietRows
  <2>2. CASE Leave(w)
    BY <2>1, <2>2, LeaveForgets DEF Looks, Alone
  <2>3. CASE worker' = [worker EXCEPT ![w].seen.status = "extracting",
                                      ![w].seen.error = None, ![w].step = "extract"]
    <3>1. worker[w].seen \in JobRow
      BY <1>0, <1>2, Busy DEF MarkCommit, FailCommit, At, Sound
    <3>2. /\ worker'[w].seen = [worker[w].seen EXCEPT !.status = "extracting",
                                                      !.error = None]
          /\ worker'[w].job = worker[w].job /\ worker'[w].step = "extract"
      BY <1>0, <2>3, <3>1 DEF Worker, JobRow
    <3>3. /\ worker'[w].seen \in JobRow
          /\ worker'[w].seen.name = worker[w].seen.name
          /\ worker'[w].seen.lender = worker[w].seen.lender
      BY <3>1, <3>2 DEF JobRow, Statuses, Errors
    <3>4. Recalls(w)
      BY <1>0, <3>1, <3>2, <3>3 DEF Recalls
    <3> QED BY <1>0, <2>1, <2>3, <3>4 DEF Looks, Alone
  <2> QED BY <1>2, <2>2, <2>3 DEF MarkCommit, FailCommit
<1>3. CASE Extract(w)
  <2>1. PICK d \in Documents :
          worker' = [worker EXCEPT ![w] =
              IF @.task = "sync" THEN [@ EXCEPT !.document = d, !.step = "draft"]
              ELSE [@ EXCEPT !.document = d, !.step = "done", !.seen = None]]
    BY <1>3 DEF Extract
  <2>2. CASE worker[w].task = "sync"
    <3>1. /\ worker'[w].seen = worker[w].seen /\ worker'[w].job = worker[w].job
          /\ worker'[w].step # "drafting"
      BY <1>0, <2>1, <2>2 DEF Worker
    <3>2. Keeps(w)
      BY <1>0, <3>1 DEF Keeps
    <3> QED BY <1>0, <1>3, <2>1, <3>2, ExtractKeeps, QuietRows DEF Looks, Alone
  <2>3. CASE worker[w].task # "sync"
    <3>1. worker'[w].seen = None /\ worker'[w].step # "drafting"
      BY <1>0, <2>1, <2>3 DEF Worker
    <3> QED BY <1>0, <1>3, <2>1, <3>1, ExtractKeeps, QuietRows
            DEF Looks, Alone, Forgets
  <2> QED BY <2>2, <2>3
<1>4. CASE DraftRead(w)
  <2> DEFINE seen == IF worker[w].seen = None THEN job[worker[w].job]
                     ELSE worker[w].seen
             name == NameFor(seen, worker[w].document)
             existing == IF seen.lender # None THEN {seen.lender} ELSE Called(name)
             target == IF existing = {} THEN None ELSE CHOOSE l \in existing : TRUE
             known == VersionsOf(target)
             base == Of(target, "published")
  <2>1. Quiet
    BY <1>4, DraftReadKeeps, QuietRows
  <2>2. CASE \E e \in {"integrity", "other"} : Raise(w, e)
    BY <2>1, <2>2, RaiseForgets DEF Looks, Alone
  <2>3. CASE worker' = [worker EXCEPT ![w].seen = seen, ![w].target = target,
                     ![w].base = base, ![w].known = known, ![w].step = "drafting"]
    <3>1. seen \in JobRow /\ seen \in {job[worker[w].job], worker[w].seen}
      BY <1>0, Busy DEF Worker
    <3>2. /\ seen.lender # None => target = seen.lender
          /\ seen.lender = None /\ target # None => target \in Called(name)
      <4> HIDE DEF seen, name
      <4> QED OBVIOUS
    <3> HIDE DEF seen, target, base, known
    <3>3. /\ worker'[w].job = worker[w].job /\ worker'[w].seen = seen
          /\ worker'[w].target = target
          /\ worker'[w].document = worker[w].document
      BY <1>0, <2>3 DEF Worker
    <3>4. Aims(w)
      BY <1>0, <3>1, <3>2, <3>3 DEF Aims
    <3> QED BY <1>0, <2>1, <2>3, <3>4 DEF Looks, Alone
  <2> QED BY <1>4, <2>2, <2>3 DEF DraftRead
<1>5. CASE Done(w)
  <2>1. worker' = [worker EXCEPT ![w] = Idle]
    BY <1>5 DEF Done, Finish
  <2> QED BY <1>0, <1>5, <2>1, DoneKeeps, QuietRows DEF Looks, Alone, Forgets, Idle
<1> QED BY <1>1, <1>2, <1>3, <1>4, <1>5

LEMMA StillLooks ==
    ASSUME Coherent, NEW w \in Workers, Begin(w) \/ Disturb(w)
    PROVE  Quiet /\ Looks(w) /\ Alone(w)
<1>0. worker \in [Workers -> Worker] /\ Quiet
  BY QuietRows DEF Begin, Disturb, Coherent, Typed, DriversTyped
<1>1. CASE Begin(w)
  <2>1. PICK x : worker' = [worker EXCEPT ![w] = x]
                  /\ x.seen = None /\ x.step # "drafting"
    <3>1. ASSUME NEW j \in Jobs, BeginSync(w, j)
          PROVE  \E x : worker' = [worker EXCEPT ![w] = x]
                         /\ x.seen = None /\ x.step # "drafting"
      <4> DEFINE y == [Idle EXCEPT !.job = j, !.task = "sync", !.step = "mark"]
      <4>1. worker' = [worker EXCEPT ![w] = y]
        BY <3>1 DEF BeginSync
      <4>2. y.seen = None /\ y.step # "drafting"
        BY DEF Idle
      <4> HIDE DEF y
      <4> QED BY <4>1, <4>2
    <3>2. ASSUME NEW j \in Jobs, BeginAttempt(w, j)
          PROVE  \E x : worker' = [worker EXCEPT ![w] = x]
                         /\ x.seen = None /\ x.step # "drafting"
      <4> DEFINE y == [Idle EXCEPT !.job = j, !.task = flow[j].task, !.live = TRUE,
                       !.document = flow[j].document,
                       !.step = FirstStep[flow[j].task]]
      <4>1. worker' = [worker EXCEPT ![w] = y] /\ flow[j].task \in Tasks
        BY <3>2 DEF BeginAttempt
      <4>2. y.seen = None /\ y.step # "drafting"
        BY <4>1 DEF Idle, FirstStep, Tasks
      <4> HIDE DEF y
      <4> QED BY <4>1, <4>2
    <3> QED BY <1>1, <3>1, <3>2 DEF Begin
  <2> QED BY <1>0, <2>1 DEF Looks, Alone, Forgets
<1>2. CASE Error(w)
  BY <1>0, <1>2, RaiseForgets DEF Error, Looks, Alone
<1>3. CASE Unheard(w)
  BY <1>0, <1>3 DEF Unheard, Finish, Looks, Alone, Forgets, Idle
<1>4. CASE Overrun(w)
  <2>1. worker' = [worker EXCEPT ![w].live = FALSE] /\ worker[w].live
    BY <1>4 DEF Overrun
  <2>2. worker[w].step # "idle"
    BY <2>1 DEF Coherent, Typed, DriversTyped, Sound
  <2> QED BY <1>0, <2>1, <2>2 DEF Worker, Keeps, Looks, Alone
<1> QED BY <1>1, <1>2, <1>3, <1>4 DEF Disturb

LEMMA NextLooks ==
    ASSUME Coherent, [Next]_vars
    PROVE  \/ Quiet /\ \A u \in Workers : Looks(u)
           \/ \E w \in Workers, v \in Versions, l \in Lenders : Writes(w, v, l)
           \/ Uploads
           \/ Reviewed /\ UNCHANGED worker
<1>1. ASSUME Quiet, UNCHANGED worker
      PROVE  Quiet /\ \A u \in Workers : Looks(u)
  BY <1>1 DEF Looks
<1>2. ASSUME NEW w \in Workers, Quiet, Looks(w), Alone(w)
      PROVE  Quiet /\ \A u \in Workers : Looks(u)
  BY <1>2 DEF Looks, Alone
<1>3. CASE UNCHANGED vars
  BY <1>1, <1>3, QuietRows DEF vars, rows
<1>4. ASSUME NEW j \in Jobs, NEW l \in Lenders \cup {None},
             NEW name \in Names \cup {None}, Upload(j, l, name)
      PROVE  Uploads
  <2> DEFINE row == [status |-> "uploaded", error |-> None, lender |-> l,
                     name |-> name, version |-> None,
                     document |-> None, dropped |-> {}]
  <2>1. /\ job[j] = None /\ job' = [job EXCEPT ![j] = row]
        /\ UNCHANGED <<lender, version, deleted, worker>>
        /\ l = None => name # None
    BY <1>4 DEF Upload, Accepts
  <2>2. row \in JobRow /\ row.lender = l /\ row.name = name
    BY DEF JobRow, Statuses, Errors
  <2> HIDE DEF row
  <2> QED BY <2>1, <2>2 DEF Uploads
<1>5. ASSUME NEW s \in Sessions, NEW j \in Jobs, RetryLoad(s, j)
      PROVE  Quiet /\ UNCHANGED worker
  BY <1>5, QuietRows DEF RetryLoad
<1>6. ASSUME NEW s \in Sessions, RetryCommit(s)
      PROVE  Quiet /\ UNCHANGED worker
  <2>1. session[s] \in Jobs /\ job[session[s]] \in JobRow
    BY <1>6 DEF RetryCommit, Coherent, Typed, QueuesTyped, Refers
  <2>2. SameLinks(job[session[s]], job'[session[s]])
    BY <1>6, <2>1 DEF RetryCommit, SameLinks, Coherent, Typed, RowsTyped, JobRow,
                      Statuses, Errors
  <2> QED BY <1>6, <2>1, <2>2 DEF RetryCommit, Quiet, Coherent, Typed, RowsTyped
<1>7. ASSUME NEW w \in Workers, Step(w)
      PROVE  \/ Quiet /\ \A u \in Workers : Looks(u)
             \/ \E v \in Versions, l \in Lenders : Writes(w, v, l)
  <2>1. CASE DraftCommit(w)
    BY <1>2, <2>1, DraftCommitWrites, QuietRows DEF Looks, Alone
  <2>2. CASE ~DraftCommit(w)
    BY <1>2, <1>7, <2>2, StepLooks DEF Step
  <2> QED BY <2>1, <2>2
<1>8. ASSUME NEW w \in Workers, Begin(w) \/ Disturb(w)
      PROVE  Quiet /\ \A u \in Workers : Looks(u)
  BY <1>2, <1>8, StillLooks
<1>9. CASE Review
  BY <1>9 DEF Review, Reviewed
<1> QED BY <1>1, <1>3, <1>4, <1>5, <1>6, <1>7, <1>8, <1>9 DEF Next, Client

-----------------------------------------------------------------------------
(* Every draft is found: the steps of Traceable.                            *)

LEMMA SameName ==
    ASSUME NamesAgree, NEW row, NEW seen, NameHolds(row), row.lender = None,
           row.name = seen.name, NEW d \in Documents, NEW e \in Documents
    PROVE  NameFor(row, d) = NameFor(seen, e)
BY DEF NamesAgree, NameHolds, NameFor

LEMMA QuietTraces ==
    ASSUME Coherent, Traceable, Quiet, \A u \in Workers : Looks(u)
    PROVE  Traceable'
<1>0. /\ \A w \in Workers : worker[w].step # "idle" =>
            worker[w].job \in Jobs /\ job[worker[w].job] \in JobRow
      /\ \A v \in Versions : Ingested(v) => version[v].source \in Jobs
      /\ \A w \in Workers : worker[w].seen \in JobRow \cup {None}
      /\ None \notin JobRow
  BY RowsAssumption
     DEF Coherent, Typed, DriversTyped, Sound, Refers, Ingested, Worker
<1>1. Sourced' /\ DraftIsFound'
  BY <1>0 DEF Traceable, Sourced, DraftIsFound, Ingested, Quiet, SameLinks
<1>2. \A j \in Jobs : job'[j] \in JobRow => NameHolds(job'[j])
  BY DEF Traceable, NameHolds, Quiet, SameLinks
<1>3. ASSUME NEW j \in Jobs, NEW row
      PROVE  ReadHolds(j, row) => ReadHolds(j, row)'
  BY <1>3 DEF ReadHolds, Quiet, SameLinks, Gone, NameFor
<1>4. ASSUME NEW u \in Workers, HasRead(u)'
      PROVE  /\ ReadHolds(worker[u].job, worker[u].seen)'
             /\ NameHolds(worker[u].seen)'
  <2>1. /\ worker[u].step # "idle" /\ worker'[u].job = worker[u].job
        /\ \E row \in {job[worker[u].job], worker[u].seen} :
              /\ row \in JobRow
              /\ worker'[u].seen.name = row.name
              /\ worker'[u].seen.lender = row.lender
    BY <1>0, <1>4 DEF Looks, Forgets, Keeps, Recalls, Aims, HasRead
  <2>2. PICK j \in Jobs : worker[u].job = j
    BY <1>0, <2>1
  <2>3. PICK row \in {job[j], worker[u].seen} :
              /\ row \in JobRow
              /\ worker'[u].seen.name = row.name
              /\ worker'[u].seen.lender = row.lender
    BY <2>1, <2>2
  <2>4. ReadHolds(j, row) /\ NameHolds(row)
    <3>1. CASE row = job[j]
      BY <2>3, <3>1 DEF ReadHolds, Traceable
    <3>2. CASE row = worker[u].seen
      BY <1>0, <2>1, <2>2, <2>3, <3>2 DEF HasRead, Traceable
    <3> QED BY <2>3, <3>1, <3>2
  <2>5. ReadHolds(j, row)'
    BY <1>3, <2>4
  <2> QED BY <2>1, <2>2, <2>3, <2>4, <2>5 DEF ReadHolds, NameHolds, NameFor
<1>5. ASSUME NEW u \in Workers, worker'[u].step = "drafting"
      PROVE  TargetHolds(worker[u].seen, worker[u].target, worker[u].document)'
  <2>1. CASE Keeps(u) \/ worker'[u] = worker[u]
    BY <1>5, <2>1 DEF Keeps, Traceable, TargetHolds, Quiet, Gone, NameFor
  <2>2. CASE Aims(u)
    BY <1>5, <2>2 DEF Aims, TargetHolds, Quiet, Called, NameFor
  <2> QED BY <1>5, <2>1, <2>2 DEF Looks, Forgets, Recalls
<1> QED BY <1>1, <1>2, <1>4, <1>5 DEF Traceable

LEMMA UploadTraces ==
    ASSUME Coherent, Traceable, Uploads
    PROVE  Traceable'
<1>1. PICK j \in Jobs, row \in JobRow :
        /\ job[j] = None /\ job' = [job EXCEPT ![j] = row]
        /\ row.lender = None => row.name # None
        /\ UNCHANGED <<lender, version, deleted, worker>>
  BY DEF Uploads
<1>2. /\ job'[j] = row /\ job[j] \notin JobRow
      /\ \A i \in Jobs : job[i] \in JobRow => i # j /\ job'[i] = job[i]
      /\ \A i \in Jobs \ {j} : job'[i] = job[i]
  BY <1>1, RowsAssumption DEF Coherent, Typed, RowsTyped
<1>3. \A w \in Workers : worker[w].step # "idle" =>
            worker[w].job \in Jobs /\ job[worker[w].job] \in JobRow
  BY DEF Coherent, Typed, DriversTyped, Sound, Refers
<1>4. \A v \in Versions : Ingested(v) =>
            version[v].source \in Jobs /\ job[version[v].source] \in JobRow
  BY DEF Traceable, Sourced, Ingested
<1>5. Sourced' /\ DraftIsFound'
  BY <1>1, <1>2, <1>4 DEF Traceable, Sourced, DraftIsFound, Ingested
<1>6. \A i \in Jobs : job'[i] \in JobRow => NameHolds(job'[i])
  BY <1>1, <1>2 DEF Traceable, NameHolds
<1>7. \A u \in Workers : HasRead(u)' => /\ ReadHolds(worker[u].job, worker[u].seen)'
                                        /\ NameHolds(worker[u].seen)'
  BY <1>1, <1>2, <1>3 DEF Traceable, HasRead, ReadHolds, Gone, NameFor, NameHolds
<1>8. \A u \in Workers : worker'[u].step = "drafting" =>
          TargetHolds(worker[u].seen, worker[u].target, worker[u].document)'
  BY <1>1 DEF Traceable, TargetHolds, Gone, NameFor
<1> QED BY <1>5, <1>6, <1>7, <1>8 DEF Traceable

Goes(l) == lender'[l] = None /\ l \in deleted'

\* What reviewers do to drafts, jobs and lenders: they only take things away.
Prunes ==
    /\ UNCHANGED worker /\ deleted \subseteq deleted'
    /\ \A v \in Versions : version'[v] # None =>
          /\ version[v] # None
          /\ version'[v].source = version[v].source
          /\ version'[v].lender = version[v].lender
          /\ version'[v].status = "draft" => version[v].status = "draft"
    /\ \A l \in Lenders : \/ lender'[l] = lender[l]
                          \/ "delete" \in Reviews /\ Goes(l)
    /\ \A j \in Jobs : job[j] \in JobRow =>
          /\ job'[j] \in JobRow /\ job'[j].name = job[j].name
          /\ job'[j].lender # job[j].lender =>
                /\ "delete" \in Reviews
                /\ job'[j].lender = None /\ Goes(job[j].lender)
          /\ job'[j].lender # None => lender'[job'[j].lender] = lender[job'[j].lender]
          /\ \A v \in Versions : version'[v] # None /\ job[j].version = v =>
                job'[j].version = v
    /\ \A j \in Jobs : job'[j] \in JobRow => job[j] \in JobRow

LEMMA UnlinkedRow ==
    ASSUME RowsTyped, NEW l, NEW V, NEW j \in Jobs, job[j] \in JobRow
    PROVE  /\ Unlinked(l, V)[j].name = job[j].name
           /\ Unlinked(l, V)[j].lender =
                 (IF job[j].lender = l THEN None ELSE job[j].lender)
           /\ Unlinked(l, V)[j].version =
                 (IF job[j].version \in V THEN None ELSE job[j].version)
BY RowsAssumption DEF Unlinked, JobRow

LEMMA ReviewedPrunes ==
    ASSUME Coherent, Reviewed, UNCHANGED worker
    PROVE  Prunes
<1>0. /\ RowsTyped
      /\ None \notin JobRow
      /\ \A j \in Jobs : job[j] \in JobRow => job'[j] \in JobRow
      /\ job \in [Jobs -> JobRow \cup {None}]
      /\ version \in [Versions -> VersionRow \cup {None}]
      /\ lender \in [Lenders -> LenderNames \cup {None}]
  BY RowStepTyped, RowsAssumption
     DEF RowStep, JobsKept, Coherent, Typed, RowsTyped
<1>1. ASSUME NEW v \in Versions, Publish(v) PROVE Prunes
  <2>1. /\ UNCHANGED <<job, lender, deleted>>
        /\ version' = [u \in Versions |->
              IF u = v THEN [version[v] EXCEPT !.status = "published"]
              ELSE IF u \in Of(version[v].lender, "published")
                   THEN [version[u] EXCEPT !.status = "archived"] ELSE version[u]]
        /\ version[v] # None
    BY <1>1 DEF Publish
  <2>2. ASSUME NEW u \in Versions, version'[u] # None
        PROVE  /\ version[u] # None
               /\ version'[u].source = version[u].source
               /\ version'[u].lender = version[u].lender
               /\ version'[u].status = "draft" => version[u].status = "draft"
    <3>1. version[u] # None
      BY <2>1, <2>2 DEF Of, VersionsOf
    <3>2. version[u] \in VersionRow
      BY <1>0, <3>1
    <3>3. version'[u] \in {version[u], [version[u] EXCEPT !.status = "published"],
                           [version[u] EXCEPT !.status = "archived"]}
      BY <2>1
    <3> QED BY <3>1, <3>2, <3>3 DEF VersionRow
  <2> QED BY <1>0, <2>1, <2>2 DEF Prunes
<1>2. ASSUME NEW v \in Versions, Discard(v) PROVE Prunes
  <2>1. /\ version' = [version EXCEPT ![v] = None]
        /\ job' = Unlinked(None, {v})
        /\ deleted' = deleted \cup {v}
        /\ UNCHANGED lender
    BY <1>2 DEF Discard
  <2>2. \A u \in Versions : version'[u] # None => u # v /\ version'[u] = version[u]
    BY <1>0, <2>1
  <2>3. \A j \in Jobs : job[j] \in JobRow =>
          /\ job'[j].name = job[j].name /\ job'[j].lender = job[j].lender
          /\ job[j].version # v => job'[j].version = job[j].version
    BY <1>0, <2>1, UnlinkedRow
  <2>4. \A j \in Jobs : job'[j] \in JobRow => job[j] \in JobRow
    BY <1>0, <2>1 DEF Unlinked
  <2> QED BY <1>0, <2>1, <2>2, <2>3, <2>4 DEF Prunes
<1>3. ASSUME NEW l \in Lenders, DeleteLender(l) PROVE Prunes
  <2>1. PICK V : V = VersionsOf(l)
    OBVIOUS
  <2>2. /\ version' = [v \in Versions |-> IF v \in V THEN None ELSE version[v]]
        /\ job' = Unlinked(l, V)
        /\ deleted' = deleted \cup V \cup {l}
        /\ lender' = [lender EXCEPT ![l] = None]
        /\ "delete" \in Reviews
    BY <1>3, <2>1 DEF DeleteLender
  <2>3. Goes(l) /\ \A k \in Lenders \ {l} : lender'[k] = lender[k]
    BY <1>0, <2>2 DEF Goes
  <2>4. \A u \in Versions : version'[u] # None => u \notin V /\ version'[u] = version[u]
    BY <1>0, <2>2
  <2>5. ASSUME NEW j \in Jobs, job[j] \in JobRow
        PROVE  /\ job'[j].name = job[j].name
               /\ job'[j].lender = (IF job[j].lender = l THEN None ELSE job[j].lender)
               /\ job[j].version \notin V => job'[j].version = job[j].version
    BY <1>0, <2>2, <2>5, UnlinkedRow
  <2>6. ASSUME NEW j \in Jobs, job[j] \in JobRow
        PROVE  job[j].lender \in Lenders \cup {None}
    BY <2>6 DEF JobRow
  <2>7. \A j \in Jobs : job'[j] \in JobRow => job[j] \in JobRow
    BY <1>0, <2>2 DEF Unlinked
  <2>8. ASSUME NEW j \in Jobs, job[j] \in JobRow
        PROVE  /\ job'[j].lender # job[j].lender =>
                     job'[j].lender = None /\ Goes(job[j].lender)
               /\ job'[j].lender # None =>
                     lender'[job'[j].lender] = lender[job'[j].lender]
    BY <2>3, <2>5, <2>6, <2>8
  <2> QED BY <1>0, <2>2, <2>3, <2>4, <2>5, <2>7, <2>8 DEF Prunes
<1> QED BY <1>1, <1>2, <1>3 DEF Reviewed

LEMMA ReviewTraces ==
    ASSUME Coherent, Traceable, OneOfEach', Prunes
    PROVE  Traceable'
<1>1. \A w \in Workers : worker[w].step # "idle" =>
            worker[w].job \in Jobs /\ job[worker[w].job] \in JobRow
  BY DEF Coherent, Typed, DriversTyped, Sound, Refers
<1>2. Sourced'
  BY DEF Prunes, Traceable, Sourced, Ingested
<1>3. DraftIsFound'
  <2> SUFFICES ASSUME NEW v \in Versions, Ingested(v)', version'[v].status = "draft"
               PROVE  /\ job'[version'[v].source].version = v
                      /\ job'[version'[v].source].lender = version'[v].lender
    BY DEF DraftIsFound
  <2>1. PICK j \in Jobs : version'[v].source = j
    BY DEF Ingested
  <2>2. /\ Ingested(v) /\ version[v].status = "draft" /\ version[v].source = j
        /\ version'[v].lender = version[v].lender /\ version'[v] # None
    BY <2>1 DEF Ingested, Prunes
  <2>3. /\ job[j] \in JobRow /\ job[j].version = v
        /\ job[j].lender = version[v].lender
    BY <2>2 DEF Traceable, Sourced, DraftIsFound
  <2>4. lender'[version[v].lender] # None
    BY <2>2 DEF OneOfEach
  <2>5. job'[j].lender = job[j].lender
    BY <2>3, <2>4 DEF Prunes, Goes
  <2> QED BY <2>1, <2>2, <2>3, <2>5 DEF Prunes
<1>4. \A j \in Jobs : job'[j] \in JobRow => NameHolds(job'[j])
  BY DEF Prunes, Traceable, NameHolds
<1>5. \A l \in Lenders : (Gone(l) => Gone(l)') /\ (Goes(l) <=> Gone(l)')
  BY DEF Prunes, Gone, Goes
<1>6. ASSUME NEW u \in Workers, HasRead(u)'
      PROVE  /\ ReadHolds(worker[u].job, worker[u].seen)'
             /\ NameHolds(worker[u].seen)'
  <2>1. PICK j \in Jobs : worker[u].job = j /\ job[j] \in JobRow
    BY <1>1, <1>6 DEF Prunes, HasRead
  <2>2. PICK seen \in JobRow : worker[u].seen = seen
    BY <1>6 DEF Prunes, HasRead, Coherent, Typed, DriversTyped, Worker
  <2>3. seen.lender \in Lenders \cup {None}
    BY DEF JobRow
  <2>4. ReadHolds(j, seen) /\ NameHolds(seen)
    BY <1>6, <2>1, <2>2 DEF Prunes, HasRead, Traceable
  <2>5. ReadHolds(j, seen)'
    BY <1>5, <2>1, <2>3, <2>4 DEF ReadHolds, Prunes, NameFor
  <2> QED BY <2>1, <2>2, <2>4, <2>5 DEF Prunes
<1>7. ASSUME NEW u \in Workers, worker'[u].step = "drafting"
      PROVE  TargetHolds(worker[u].seen, worker[u].target, worker[u].document)'
  <2>1. TargetHolds(worker[u].seen, worker[u].target, worker[u].document)
        /\ worker[u].target \in Lenders \cup {None}
    BY <1>7 DEF Prunes, Traceable, Coherent, Typed, DriversTyped, Worker
  <2> QED BY <1>5, <2>1 DEF TargetHolds, Prunes, NameFor
<1> QED BY <1>2, <1>3, <1>4, <1>6, <1>7 DEF Traceable

\* create_draft links the job to the lender of its draft, whatever the session
\* has read, and another draft of the job would have been in its way.
LEMMA WriteTraces ==
    ASSUME Coherent, Traceable, OneOfEach, NamesAgree,
           NEW w \in Workers, NEW v \in Versions, NEW l \in Lenders, Writes(w, v, l)
    PROVE  Traceable'
<1>1. PICK j \in Jobs, seen \in JobRow, d \in Documents :
        /\ worker[w].job = j /\ worker[w].seen = seen /\ worker[w].document = d
        /\ job[j] \in JobRow
  BY Busy DEF Writes, Sound
<1>2. PICK target \in Lenders \cup {None} : worker[w].target = target
  BY DEF Coherent, Typed, DriversTyped, Worker
<1> DEFINE name == NameFor(seen, d)
<1>3. /\ ReadHolds(j, seen) /\ NameHolds(seen) /\ TargetHolds(seen, target, d)
      /\ name \in LenderNames /\ name # None /\ l # None
  BY <1>1, <1>2, NameForType, RowsAssumption, IngestionAssumption
     DEF Writes, Traceable, HasRead
<1>4. /\ version[v] = None
      /\ version'[v].lender = l /\ version'[v].source = j
      /\ \A u \in Versions \ {v} : version'[u] = version[u]
      /\ job'[j] \in JobRow
      /\ job'[j].name = job[j].name /\ job'[j].version = v
      /\ job'[j].lender = IF seen.lender = l THEN job[j].lender ELSE l
      /\ \A i \in Jobs \ {j} : job'[i] = job[i]
      /\ UNCHANGED deleted
      /\ \A u \in Workers \ {w} : worker'[u] = worker[u]
      /\ Forgets(w)
  BY <1>1 DEF Writes, Written
<1>5. \/ /\ target = None /\ lender[l] = None /\ l \notin deleted
         /\ Called(name) = {} /\ lender' = [lender EXCEPT ![l] = name]
      \/ /\ target = l /\ lender[l] # None /\ Of(l, "draft") = {}
         /\ lender' = lender
  BY <1>1, <1>2 DEF Writes
<1> HIDE DEF name
<1>6. seen.lender # None => seen.lender = l /\ target = l /\ job[j].lender = l
  BY <1>3, <1>5 DEF ReadHolds, TargetHolds, Gone
<1>7. job'[j].lender = l
  BY <1>3, <1>4, <1>6
<1>8. job[j].lender # None => job[j].lender = l /\ target = l
  <2> SUFFICES ASSUME job[j].lender # None, seen.lender = None
               PROVE  job[j].lender = l /\ target = l
    BY <1>6
  <2>1. PICK k \in Lenders : job[j].lender = k
    BY <1>1 DEF JobRow
  <2>2. lender[k] = name
    BY <1>3, <2>1 DEF ReadHolds, name
  <2>3. target = l
    BY <1>3, <1>5, <2>2 DEF Called
  <2>4. lender[l] = name
    BY <1>3, <1>5, <2>3 DEF TargetHolds, Gone, name
  <2> QED BY <1>3, <2>1, <2>2, <2>3, <2>4 DEF OneOfEach
<1>9. \A k \in Lenders : /\ Gone(k) => Goes(k)
                         /\ lender[k] # None => lender'[k] = lender[k]
  BY <1>4, <1>5 DEF Gone, Goes, Coherent, Typed, RowsTyped
<1>10. \A k \in Lenders : Goes(k) => Gone(k)'
  BY DEF Gone, Goes
<1>11. Sourced'
  BY <1>1, <1>4 DEF Traceable, Sourced, Ingested
<1>12. DraftIsFound'
  <2> SUFFICES ASSUME NEW u \in Versions, Ingested(u)', version'[u].status = "draft"
               PROVE  /\ job'[version'[u].source].version = u
                      /\ job'[version'[u].source].lender = version'[u].lender
    BY DEF DraftIsFound
  <2>1. CASE u = v
    BY <1>4, <1>7, <2>1
  <2>2. CASE u # v
    <3>1. /\ Ingested(u) /\ version[u].status = "draft"
          /\ version'[u] = version[u]
      BY <1>4, <2>2 DEF Ingested
    <3>2. /\ version[u].source \in Jobs
          /\ job[version[u].source].version = u
          /\ job[version[u].source].lender = version[u].lender
          /\ version[u].lender \in Lenders
      BY <3>1, RowsAssumption
         DEF Traceable, DraftIsFound, Ingested, Coherent, Typed, RowsTyped,
             VersionRow
    <3>3. version[u].source # j
      <4>1. SUFFICES ASSUME version[u].source = j PROVE FALSE
        OBVIOUS
      <4>2. version[u].lender = l /\ target = l
        BY <1>8, <3>2, <4>1, IngestionAssumption
      <4>3. Of(l, "draft") = {}
        BY <1>3, <1>5, <4>2
      <4> QED BY <3>1, <4>2, <4>3 DEF Of, VersionsOf, Ingested
    <3> QED BY <1>4, <3>1, <3>2, <3>3
  <2> QED BY <2>1, <2>2
<1>13. \A i \in Jobs : job'[i] \in JobRow => NameHolds(job'[i])
  BY <1>3, <1>4, <1>7 DEF Traceable, NameHolds
<1>14. ASSUME NEW u \in Workers, HasRead(u)'
       PROVE  /\ ReadHolds(worker[u].job, worker[u].seen)'
              /\ NameHolds(worker[u].seen)'
  <2>1. u # w /\ worker'[u] = worker[u] /\ HasRead(u)
    BY <1>4, <1>14 DEF Forgets, HasRead
  <2>2. PICK i \in Jobs, row \in JobRow :
          worker[u].job = i /\ worker[u].seen = row /\ job[i] \in JobRow
    BY <2>1, Busy DEF HasRead, Worker
  <2>3. ReadHolds(i, row) /\ NameHolds(row)
    BY <2>1, <2>2 DEF Traceable
  <2>4. row.lender \in Lenders \cup {None} /\ job[i].lender \in Lenders \cup {None}
    BY <2>2 DEF JobRow
  <2>5. job'[i].name = job[i].name
    BY <1>4
  <2>6. row.lender # None => Goes(row.lender) \/ job'[i].lender = row.lender
    BY <1>4, <1>7, <1>8, <1>9, <2>3, <2>4 DEF ReadHolds
  <2>7. ASSUME row.lender = None, job'[i].lender # None, NEW e \in Documents
        PROVE  lender'[job'[i].lender] = NameFor(row, e)
    <3>1. NameFor(row, e) # None
      BY <2>2, NameForType, RowsAssumption
    <3>2. CASE job[i].lender # None /\ job'[i].lender = job[i].lender
      BY <1>9, <2>3, <2>4, <2>7, <3>1, <3>2 DEF ReadHolds
    <3>3. CASE i = j /\ job[j].lender = None
      <4>1. seen.lender = None
        BY <1>3, <1>6, <3>3
      <4>2. lender'[l] = name
        BY <1>3, <1>5, <4>1 DEF TargetHolds, Gone, name, Coherent, Typed, RowsTyped
      <4>3. NameFor(row, e) = name
        BY <1>3, <2>3, <2>7, <3>3, SameName DEF ReadHolds, name
      <4> QED BY <1>7, <3>3, <4>2, <4>3
    <3> QED BY <1>4, <1>7, <1>8, <2>7, <3>2, <3>3
  <2>8. ReadHolds(i, row)'
    BY <1>10, <2>3, <2>4, <2>5, <2>6, <2>7 DEF ReadHolds, NameFor
  <2> QED BY <2>1, <2>2, <2>3, <2>8
<1>15. ASSUME NEW u \in Workers, worker'[u].step = "drafting"
       PROVE  TargetHolds(worker[u].seen, worker[u].target, worker[u].document)'
  <2>1. u # w /\ worker'[u] = worker[u]
    BY <1>4, <1>15 DEF Forgets
  <2>2. PICK row \in JobRow, t \in Lenders \cup {None}, e \in Documents :
          worker[u].seen = row /\ worker[u].target = t /\ worker[u].document = e
    BY <1>15, <2>1, Busy DEF Sound, Worker
  <2>3. TargetHolds(row, t, e) /\ NameFor(row, e) # None
    BY <1>15, <2>1, <2>2, NameForType, RowsAssumption DEF Traceable
  <2>4. TargetHolds(row, t, e)'
    BY <1>9, <1>10, <2>3 DEF TargetHolds, NameFor
  <2> QED BY <2>1, <2>2, <2>4
<1> QED BY <1>11, <1>12, <1>13, <1>14, <1>15 DEF Traceable

\* However often a job runs and whatever the reviewers do, each draft is found
\* through the job it comes from, which names the lender of the draft, unless a
\* lender is deleted while guidelines disagree on what it is called.
THEOREM DraftIsFoundHolds == ASSUME NamesAgree PROVE Spec => []DraftIsFound
<1>1. Init => Traceable
  <2>1. ASSUME Init
        PROVE  /\ \A v \in Versions : ~Ingested(v)
               /\ \A j \in Jobs : job[j] \notin JobRow
               /\ \A w \in Workers : worker[w].step = "idle"
    <3>1. None \notin Jobs /\ None \notin JobRow
      BY IngestionAssumption, RowsAssumption
    <3>2. \A v \in Versions : version[v] # None =>
              v \in DOMAIN Policies /\ version[v] = Policies[v]
      BY <2>1 DEF Init
    <3> QED BY <2>1, <3>1, <3>2, RowsAssumption DEF Init, Ingested, Idle
  <2> QED BY <2>1 DEF Traceable, Sourced, DraftIsFound, HasRead
<1>2. IInv /\ IInv' /\ Traceable /\ [Next]_vars => Traceable'
  BY NextLooks, QuietTraces, UploadTraces, WriteTraces, ReviewedPrunes, ReviewTraces
     DEF IInv
<1> QED BY <1>1, <1>2, Invariant, PTL DEF Spec, Traceable
=============================================================================

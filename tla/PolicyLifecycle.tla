-------------------------- MODULE PolicyLifecycle --------------------------
(***************************************************************************)
(* Lenders, the versions of their credit policies, and the evaluations     *)
(* that read them (api/lenders.py, services/policies.py, models/policy.py).*)
(*                                                                         *)
(* Every handler is one transaction of its own session at READ COMMITTED:  *)
(* it reads, in one or two statements at different moments, checks what it *)
(* read, and commits.  No handler locks or compares a version number; what *)
(* the commit itself enforces are the constraints of the tables: the two   *)
(* partial unique indexes, the unique version numbers, the foreign keys,   *)
(* and the ORM's refusal of an UPDATE that matches no row.  Two writers of *)
(* one row wait for each other, so a flush and the commit that follows it  *)
(* are one step.                                                           *)
(*                                                                         *)
(* A policy's programs and rules are abstracted to one content; Empty is a *)
(* policy without programs.  Whether a lender is active, its name and its  *)
(* contacts are left out, and results are never replaced.                  *)
(***************************************************************************)
EXTENDS Naturals

CONSTANTS
    Lenders, Versions,   \* identities the database can hand out
    Contents, Empty,     \* contents of a policy, and the one without programs
    Sessions,            \* API request handlers that can be in flight at once
    Evaluators,          \* evaluations that can be in flight at once
    Ops,                 \* the operations clients use
    NoLender, NoVersion

Operations == {"draft", "publish", "edit", "discard", "delete"}

ASSUME PolicyAssumption ==
    /\ Empty \in Contents
    /\ NoLender \notin Lenders
    /\ NoVersion \notin Versions
    /\ Ops \subseteq Operations

VARIABLES
    lender,    \* whether the row of a lender exists
    status,    \* policy_versions.status
    owner,     \* policy_versions.lender_id
    number,    \* policy_versions.version_number
    content,   \* the version's programs and rules
    results,   \* lender_match_results: the version, the content evaluated
    req,       \* the request each session is serving, and what it has read
    eval       \* the evaluation of one lender, and what it has read

vars == <<lender, status, owner, number, content, results, req, eval>>

-----------------------------------------------------------------------------
Status == {"none", "draft", "published", "archived", "gone"}
Rows == {"draft", "published", "archived"}
Result == [version : Versions, content : Contents]
Request == [op : {"idle", "insert", "archive"} \cup Operations,
            lender : Lenders \cup {NoLender},
            version : Versions \cup {NoVersion},   \* the version acted on
            seen : Versions \cup {NoVersion},      \* the published one it read
            number : Nat, content : Contents]
Evaluation == [step : {"idle", "selected", "evaluated"},
               version : Versions \cup {NoVersion}, content : Contents]

IdleRequest == [op |-> "idle", lender |-> NoLender, version |-> NoVersion,
                seen |-> NoVersion, number |-> 0, content |-> Empty]
IdleEvaluation == [step |-> "idle", version |-> NoVersion, content |-> Empty]

TypeOK ==
    /\ lender \in [Lenders -> {"absent", "present", "deleted"}]
    /\ status \in [Versions -> Status]
    /\ owner \in [Versions -> Lenders \cup {NoLender}]
    /\ number \in [Versions -> Nat]
    /\ content \in [Versions -> Contents]
    /\ results \subseteq Result
    /\ req \in [Sessions -> Request]
    /\ eval \in [Evaluators -> Evaluation]

Init ==
    /\ lender = [l \in Lenders |-> "absent"]
    /\ status = [v \in Versions |-> "none"]
    /\ owner = [v \in Versions |-> NoLender]
    /\ number = [v \in Versions |-> 0]
    /\ content = [v \in Versions |-> Empty]
    /\ results = {}
    /\ req = [s \in Sessions |-> IdleRequest]
    /\ eval = [e \in Evaluators |-> IdleEvaluation]

-----------------------------------------------------------------------------
(* What a statement sees, and what a constraint forbids. *)

VersionsOf(l) == {v \in Versions : owner[v] = l /\ status[v] \in Rows}
With(l, st) == {v \in VersionsOf(l) : status[v] = st}
Used(v) == \E r \in results : r.version = v

\* get_version(lender, PUBLISHED), over the versions the session does not hold.
PublishedOr(l, held) ==
    LET found == With(l, "published") \ {held}
    IN IF found = {} THEN {NoVersion} ELSE found

Numbers(l) == {0} \cup {number[v] : v \in VersionsOf(l)}

\* select max(version_number), or 0.
Highest(l) == {n \in Numbers(l) : \A m \in Numbers(l) : m <= n}

-----------------------------------------------------------------------------
(* Lenders. *)

\* Mutant of InsertVersion: the index uq_policy_versions_one_draft is missing.
InsertSecondDraft(l, v, n, c) ==
    /\ status[v] = "none"
    /\ \A w \in VersionsOf(l) : number[w] # n
    /\ status' = [status EXCEPT ![v] = "draft"]
    /\ owner' = [owner EXCEPT ![v] = l]
    /\ number' = [number EXCEPT ![v] = n]
    /\ content' = [content EXCEPT ![v] = c]

\* INSERT of a draft, guarded by the constraints of policy_versions.
InsertVersion(l, v, n, c) ==
    /\ status[v] = "none"
    /\ With(l, "draft") = {}
    /\ \A w \in VersionsOf(l) : number[w] # n
    /\ status' = [status EXCEPT ![v] = "draft"]
    /\ owner' = [owner EXCEPT ![v] = l]
    /\ number' = [number EXCEPT ![v] = n]
    /\ content' = [content EXCEPT ![v] = c]

\* create_lender: the lender and its first, empty draft in one transaction.
CreateLender(l) ==
    /\ lender[l] = "absent"
    /\ lender' = [lender EXCEPT ![l] = "present"]
    /\ \E v \in Versions : InsertVersion(l, v, 1, Empty)
    /\ UNCHANGED <<results, req, eval>>

Accept(s, op, l, v, seen, c) ==
    /\ req[s].op = "idle"
    /\ op \in Ops
    /\ req' = [req EXCEPT ![s] = [op |-> op, lender |-> l, version |-> v,
                                  seen |-> seen, number |-> 0, content |-> c]]
    /\ UNCHANGED <<lender, status, owner, number, content, results, eval>>

\* delete_lender reads the lender and counts its results.
LoadLender(s, l) ==
    /\ lender[l] = "present"
    /\ \A v \in VersionsOf(l) : ~Used(v)
    /\ Accept(s, "delete", l, NoVersion, NoVersion, Empty)

Answered(s) == req' = [req EXCEPT ![s] = IdleRequest]

\* Mutant of CommitDelete: the foreign key of the results is not enforced.
CommitDeleteUnchecked(s) ==
    LET l == req[s].lender IN
    /\ req[s].op = "delete"
    /\ lender[l] = "present"
    /\ lender' = [lender EXCEPT ![l] = "deleted"]
    /\ status' = [v \in Versions |->
                    IF v \in VersionsOf(l) THEN "gone" ELSE status[v]]
    /\ Answered(s)
    /\ UNCHANGED <<owner, number, content, results, eval>>

\* The delete cascades to the versions; a result that refers to one of them
\* forbids it.
CommitDelete(s) ==
    LET l == req[s].lender IN
    /\ req[s].op = "delete"
    /\ lender[l] = "present"
    /\ \A v \in VersionsOf(l) : ~Used(v)
    /\ lender' = [lender EXCEPT ![l] = "deleted"]
    /\ status' = [v \in Versions |->
                    IF v \in VersionsOf(l) THEN "gone" ELSE status[v]]
    /\ Answered(s)
    /\ UNCHANGED <<owner, number, content, results, eval>>

-----------------------------------------------------------------------------
(* create_draft: the versions, then the highest number, then the INSERT.  If
   there is a draft it is returned and nothing changes. *)

LoadVersions(s, l) ==
    /\ lender[l] = "present"
    /\ With(l, "draft") = {}
    /\ \E p \in PublishedOr(l, NoVersion) :
           Accept(s, "draft", l, NoVersion, p,
                  IF p = NoVersion THEN Empty ELSE content[p])

ReadNumber(s) ==
    /\ req[s].op = "draft"
    /\ \E n \in Highest(req[s].lender) :
           req' = [req EXCEPT ![s].op = "insert", ![s].number = n + 1]
    /\ UNCHANGED <<lender, status, owner, number, content, results, eval>>

InsertDraft(s) ==
    /\ req[s].op = "insert"
    /\ lender[req[s].lender] = "present"
    /\ \E v \in Versions :
           InsertVersion(req[s].lender, v, req[s].number, req[s].content)
    /\ Answered(s)
    /\ UNCHANGED <<lender, results, eval>>

-----------------------------------------------------------------------------
(* Operations on a draft: publish, edit, discard. *)

\* Mutant of LoadDraft: require_draft is forgotten.
LoadAnyVersion(s, v, op) ==
    /\ status[v] \in Rows
    /\ op = "publish" => content[v] # Empty
    /\ Accept(s, op, owner[v], v, NoVersion, Empty)

\* _version and require_draft; publish also validates the content.
LoadDraft(s, v, op) ==
    /\ status[v] = "draft"
    /\ op = "publish" => content[v] # Empty
    /\ Accept(s, op, owner[v], v, NoVersion, Empty)

\* publish loads the lender's versions lazily, after its guards.  The version
\* it holds is not refreshed and still counts as a draft.
ReadSiblings(s) ==
    /\ req[s].op = "publish"
    /\ \E p \in PublishedOr(req[s].lender, req[s].version) :
           req' = [req EXCEPT ![s].op = "archive", ![s].seen = p]
    /\ UNCHANGED <<lender, status, owner, number, content, results, eval>>

\* Mutant of CommitPublish: the archiving is committed, not flushed.
CommitPublishInTwo(s) ==
    LET v == req[s].version
        p == req[s].seen
    IN
    /\ req[s].op = "archive"
    /\ p # NoVersion => status[p] \in Rows
    /\ \/ /\ p # NoVersion
          /\ status' = [status EXCEPT ![p] = "archived"]
          /\ req' = [req EXCEPT ![s].seen = NoVersion]
       \/ /\ p = NoVersion
          /\ status[v] \in Rows
          /\ With(req[s].lender, "published") \subseteq {v}
          /\ status' = [status EXCEPT ![v] = "published"]
          /\ Answered(s)
    /\ UNCHANGED <<lender, owner, number, content, results, eval>>

\* Archive what was read as published, then publish; a row that is gone or a
\* second published version rolls both back.
CommitPublish(s) ==
    LET v == req[s].version
        p == req[s].seen
    IN
    /\ req[s].op = "archive"
    /\ status[v] \in Rows
    /\ p # NoVersion => status[p] \in Rows
    /\ With(req[s].lender, "published") \subseteq {p, v}
    /\ status' = [w \in Versions |-> CASE w = v -> "published"
                                       [] w = p -> "archived"
                                       [] OTHER -> status[w]]
    /\ Answered(s)
    /\ UNCHANGED <<lender, owner, number, content, results, eval>>

\* add, update or delete a program or a rule: whatever it does, the version
\* then has another content.
CommitEdit(s) ==
    LET v == req[s].version IN
    /\ req[s].op = "edit"
    /\ status[v] \in Rows
    /\ \E c \in Contents \ {content[v]} : content' = [content EXCEPT ![v] = c]
    /\ Answered(s)
    /\ UNCHANGED <<lender, status, owner, number, results, eval>>

\* Mutant of CommitDiscard: the row is kept, with a status of its own.
CommitDiscardMarks(s) ==
    LET v == req[s].version IN
    /\ req[s].op = "discard"
    /\ status[v] \in Rows
    /\ ~Used(v)
    /\ status' = [status EXCEPT ![v] = "discarded"]
    /\ Answered(s)
    /\ UNCHANGED <<lender, owner, number, content, results, eval>>

CommitDiscard(s) ==
    LET v == req[s].version IN
    /\ req[s].op = "discard"
    /\ status[v] \in Rows
    /\ ~Used(v)
    /\ status' = [status EXCEPT ![v] = "gone"]
    /\ Answered(s)
    /\ UNCHANGED <<lender, owner, number, content, results, eval>>

\* A commit that a constraint refuses, a stale row, a deadlock victim, a
\* delete that finds nothing left, a restart of the API: the request ends and
\* nothing is written.
Rollback(s) ==
    /\ req[s].op # "idle"
    /\ Answered(s)
    /\ UNCHANGED <<lender, status, owner, number, content, results, eval>>

-----------------------------------------------------------------------------
(* Evaluations of a run.  A workflow selects the published versions, reads
   the content of each in a child task, and stores the result in a third
   transaction; the in-process driver does the first two at once. *)

Step(e, new) ==
    /\ eval' = [eval EXCEPT ![e] = new]
    /\ UNCHANGED <<lender, status, owner, number, content, req>>

Select(e, v) ==
    /\ eval[e].step = "idle"
    /\ status[v] = "published"
    /\ Step(e, [step |-> "selected", version |-> v, content |-> Empty])
    /\ UNCHANGED results

Evaluate(e) ==
    LET v == eval[e].version IN
    /\ eval[e].step = "selected"
    /\ status[v] \in Rows
    /\ Step(e, [step |-> "evaluated", version |-> v, content |-> content[v]])
    /\ UNCHANGED results

Record(e) ==
    LET v == eval[e].version IN
    /\ eval[e].step = "evaluated"
    /\ status[v] \in Rows
    /\ results' = results \cup {[version |-> v, content |-> eval[e].content]}
    /\ Step(e, IdleEvaluation)

\* The run failed, or its version is gone.
GiveUp(e) ==
    /\ eval[e].step # "idle"
    /\ Step(e, IdleEvaluation)
    /\ UNCHANGED results

-----------------------------------------------------------------------------
Read(s) ==
    \/ \E l \in Lenders : LoadLender(s, l) \/ LoadVersions(s, l)
    \/ \E v \in Versions, op \in {"publish", "edit", "discard"} :
           LoadDraft(s, v, op)
    \/ ReadNumber(s)
    \/ ReadSiblings(s)

Write(s) ==
    \/ InsertDraft(s) \/ CommitPublish(s) \/ CommitEdit(s)
    \/ CommitDiscard(s) \/ CommitDelete(s)

Evaluator(e) ==
    \/ \E v \in Versions : Select(e, v)
    \/ Evaluate(e) \/ Record(e) \/ GiveUp(e)

Next ==
    \/ \E l \in Lenders : CreateLender(l)
    \/ \E s \in Sessions : Read(s) \/ Write(s) \/ Rollback(s)
    \/ \E e \in Evaluators : Evaluator(e)

Spec == Init /\ [][Next]_vars
-----------------------------------------------------------------------------
(* Properties of every interleaving. *)

\* A lender has at most one draft and at most one published version, however
\* create_draft and publish interleave (models/policy.py: "At most one
\* published and one draft version per lender").
OneOfEach ==
    \A l \in Lenders, st \in {"draft", "published"} :
        \A v, w \in With(l, st) : v = w

\* Whatever a result refers to was published and still exists: neither a
\* discard that loaded the version as a draft nor a delete_lender that counted
\* no results takes it away (models/policy.py: "Match results point at the
\* exact version they were evaluated against").
ResultsPointAtPublished ==
    \A r \in results : status[r.version] \in {"published", "archived"}

\* No publish, refused or completed, takes a lender out of underwriting: a
\* published version is archived only in the step in which another one of its
\* lender is published (publish flushes both in one transaction).
KeepsPublished ==
    [][\A v \in Versions :
          status[v] = "published" /\ status'[v] = "archived" =>
              With(owner[v], "published")' # {}]_vars

-----------------------------------------------------------------------------
(* Properties while one operator edits and any number of runs evaluate.  With
   two operators they fail: an edit or a discard that loaded a draft commits
   into the version that a publish has published since, and see ForwardOnly
   and DraftStartsFromPublished. *)

\* A result holds what its version says: publishing and editing never rewrite
\* history, although selecting, reading and recording a version are three
\* transactions.
HistoryIsKept == \A r \in results : content[r.version] = r.content

\* The published version is newer than every archived one.
PublishedIsNewest ==
    \A l \in Lenders :
        \A v \in With(l, "published"), w \in With(l, "archived") :
            number[w] < number[v]

\* The handlers implement the atomic lifecycle of PolicyVersions.
Abstract == INSTANCE PolicyVersions
ImplementsPolicyVersions == Abstract!Spec

\* A version goes draft, published, archived and never back
\* (services/policies.py: "Policy lifecycle: draft -> published -> archived").
ForwardOnly ==
    [][\A v \in Versions :
          status[v] = "archived" => status'[v] \in {"archived", "gone"}]_vars

\* A new draft starts with what is published (services/policies.py: "clones
\* the published version into a new one").
DraftStartsFromPublished ==
    [][\A v \in Versions :
          status[v] = "none" /\ status'[v] = "draft" =>
              \A p \in With(owner'[v], "published") :
                  content'[v] = content[p]]_vars
=============================================================================

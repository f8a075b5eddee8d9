---------------------------- MODULE PolicyProofs ----------------------------
(***************************************************************************)
(* Safety of PolicyLifecycle for any number of lenders, versions, sessions *)
(* and evaluations.                                                        *)
(***************************************************************************)
EXTENDS PolicyLifecycle, TLAPS

Acting == {"publish", "archive", "edit", "discard"}

\* What a request refers to: the version it acts on belongs to its lender and
\* was inserted; the version it is about to archive is another one of that
\* lender.
RequestsRefer ==
    \A s \in Sessions :
        /\ req[s].op \in Acting =>
              /\ req[s].version \in Versions
              /\ owner[req[s].version] = req[s].lender
              /\ status[req[s].version] # "none"
        /\ req[s].op = "archive" /\ req[s].seen # NoVersion =>
              /\ owner[req[s].seen] = req[s].lender
              /\ status[req[s].seen] # "none"
              /\ req[s].seen # req[s].version

\* An evaluation works on a version that has been published.
EvaluationsRefer ==
    \A e \in Evaluators :
        eval[e].step # "idle" =>
            /\ eval[e].version \in Versions
            /\ status[eval[e].version] \in {"published", "archived", "gone"}

IInv ==
    /\ TypeOK
    /\ RequestsRefer
    /\ EvaluationsRefer
    /\ OneOfEach
    /\ ResultsPointAtPublished

-----------------------------------------------------------------------------
(* Types. *)

LEMMA IdleTypes == IdleRequest \in Request /\ IdleEvaluation \in Evaluation
BY PolicyAssumption DEF IdleRequest, Request, IdleEvaluation, Evaluation

LEMMA AnsweredType ==
    ASSUME TypeOK, NEW s \in Sessions, Answered(s)
    PROVE  req' \in [Sessions -> Request]
BY IdleTypes DEF Answered, TypeOK

LEMMA AcceptType ==
    ASSUME TypeOK, NEW s \in Sessions, NEW op \in Operations,
           NEW l \in Lenders \cup {NoLender},
           NEW v \in Versions \cup {NoVersion},
           NEW p \in Versions \cup {NoVersion}, NEW c \in Contents,
           Accept(s, op, l, v, p, c)
    PROVE  TypeOK'
<1>1. [op |-> op, lender |-> l, version |-> v, seen |-> p, number |-> 0,
       content |-> c] \in Request
  BY DEF Request
<1>2. req' \in [Sessions -> Request]
  BY <1>1 DEF Accept, TypeOK
<1> QED BY <1>2 DEF Accept, TypeOK

LEMMA InsertType ==
    ASSUME TypeOK, NEW l \in Lenders \cup {NoLender}, NEW v \in Versions,
           NEW n \in Nat, NEW c \in Contents, InsertVersion(l, v, n, c)
    PROVE  /\ status' \in [Versions -> Status]
           /\ owner' \in [Versions -> Lenders \cup {NoLender}]
           /\ number' \in [Versions -> Nat]
           /\ content' \in [Versions -> Contents]
BY DEF InsertVersion, TypeOK, Status

LEMMA StepType ==
    ASSUME TypeOK, NEW e \in Evaluators, NEW new \in Evaluation, Step(e, new)
    PROVE  /\ eval' \in [Evaluators -> Evaluation]
           /\ UNCHANGED <<lender, status, owner, number, content, req>>
BY DEF Step, TypeOK

\* Every step keeps the types.
LEMMA TypePreserved ==
    ASSUME TypeOK, EvaluationsRefer, [Next]_vars PROVE TypeOK'
<1> USE PolicyAssumption
<1>1. ASSUME NEW l \in Lenders, CreateLender(l) PROVE TypeOK'
  <2>1. PICK v \in Versions : InsertVersion(l, v, 1, Empty)
    BY <1>1 DEF CreateLender
  <2>2. lender' \in [Lenders -> {"absent", "present", "deleted"}]
    BY <1>1 DEF CreateLender, TypeOK
  <2> QED BY <1>1, <2>1, <2>2, InsertType DEF CreateLender, TypeOK
<1>2. ASSUME NEW s \in Sessions, Read(s) PROVE TypeOK'
  <2>1. ASSUME NEW l \in Lenders, LoadLender(s, l) PROVE TypeOK'
    BY <2>1, AcceptType DEF LoadLender, Operations
  <2>2. ASSUME NEW l \in Lenders, LoadVersions(s, l) PROVE TypeOK'
    <3>1. PICK p \in PublishedOr(l, NoVersion) :
             Accept(s, "draft", l, NoVersion, p,
                    IF p = NoVersion THEN Empty ELSE content[p])
      BY <2>2 DEF LoadVersions
    <3>2. p \in Versions \cup {NoVersion}
      BY DEF PublishedOr, With, VersionsOf
    <3>3. (IF p = NoVersion THEN Empty ELSE content[p]) \in Contents
      BY <3>2 DEF TypeOK
    <3> QED BY <3>1, <3>2, <3>3, AcceptType DEF Operations
  <2>3. ASSUME NEW v \in Versions, NEW op \in {"publish", "edit", "discard"},
               LoadDraft(s, v, op)
        PROVE  TypeOK'
    <3>1. owner[v] \in Lenders \cup {NoLender}
      BY DEF TypeOK
    <3> QED BY <2>3, <3>1, AcceptType DEF LoadDraft, Operations
  <2>4. CASE ReadNumber(s)
    <3>1. PICK n \in Highest(req[s].lender) :
             req' = [req EXCEPT ![s].op = "insert", ![s].number = n + 1]
      BY <2>4 DEF ReadNumber
    <3>2. n \in Nat /\ n + 1 \in Nat
      BY DEF Highest, Numbers, VersionsOf, TypeOK
    <3>3. req[s] \in Request
      BY DEF TypeOK
    <3>4. [req[s] EXCEPT !.op = "insert", !.number = n + 1] \in Request
      BY <3>2, <3>3 DEF Request
    <3>5. req' \in [Sessions -> Request]
      BY <3>1, <3>4 DEF TypeOK
    <3> QED BY <2>4, <3>5 DEF ReadNumber, TypeOK
  <2>5. CASE ReadSiblings(s)
    <3>1. PICK p \in PublishedOr(req[s].lender, req[s].version) :
             req' = [req EXCEPT ![s].op = "archive", ![s].seen = p]
      BY <2>5 DEF ReadSiblings
    <3>2. p \in Versions \cup {NoVersion}
      BY DEF PublishedOr, With, VersionsOf
    <3>3. req[s] \in Request
      BY DEF TypeOK
    <3>4. [req[s] EXCEPT !.op = "archive", !.seen = p] \in Request
      BY <3>2, <3>3 DEF Request
    <3>5. req' \in [Sessions -> Request]
      BY <3>1, <3>4 DEF TypeOK
    <3> QED BY <2>5, <3>5 DEF ReadSiblings, TypeOK
  <2> QED BY <1>2, <2>1, <2>2, <2>3, <2>4, <2>5 DEF Read
<1>3. ASSUME NEW s \in Sessions, Write(s) PROVE TypeOK'
  <2>0. req[s] \in Request
    BY DEF TypeOK
  <2>1. CASE InsertDraft(s)
    <3>1. PICK v \in Versions :
             InsertVersion(req[s].lender, v, req[s].number, req[s].content)
      BY <2>1 DEF InsertDraft
    <3>2. /\ req[s].lender \in Lenders \cup {NoLender}
          /\ req[s].number \in Nat
          /\ req[s].content \in Contents
      BY <2>0 DEF Request
    <3>3. /\ status' \in [Versions -> Status]
          /\ owner' \in [Versions -> Lenders \cup {NoLender}]
          /\ number' \in [Versions -> Nat]
          /\ content' \in [Versions -> Contents]
      BY <3>1, <3>2, InsertType
    <3> QED BY <2>1, <3>3, AnsweredType DEF InsertDraft, TypeOK
  <2>2. CASE CommitPublish(s)
    BY <2>2, AnsweredType DEF CommitPublish, TypeOK, Status
  <2>3. CASE CommitEdit(s)
    BY <2>3, AnsweredType DEF CommitEdit, TypeOK
  <2>4. CASE CommitDiscard(s)
    BY <2>4, AnsweredType DEF CommitDiscard, TypeOK, Status
  <2>5. CASE CommitDelete(s)
    BY <2>5, AnsweredType DEF CommitDelete, TypeOK, Status
  <2> QED BY <1>3, <2>1, <2>2, <2>3, <2>4, <2>5 DEF Write
<1>4. ASSUME NEW s \in Sessions, Rollback(s) PROVE TypeOK'
  BY <1>4, AnsweredType DEF Rollback, TypeOK
<1>5. ASSUME NEW e \in Evaluators, Evaluator(e) PROVE TypeOK'
  <2>1. ASSUME NEW v \in Versions, Select(e, v) PROVE TypeOK'
    <3>1. [step |-> "selected", version |-> v, content |-> Empty] \in Evaluation
      BY DEF Evaluation
    <3> QED BY <2>1, <3>1, StepType DEF Select, TypeOK
  <2>2. CASE Evaluate(e)
    <3>1. eval[e].version \in Versions
      BY <2>2 DEF Evaluate, EvaluationsRefer
    <3>2. [step |-> "evaluated", version |-> eval[e].version,
           content |-> content[eval[e].version]] \in Evaluation
      BY <3>1 DEF Evaluation, TypeOK
    <3> QED BY <2>2, <3>2, StepType DEF Evaluate, TypeOK
  <2>3. CASE Record(e)
    <3>1. eval[e].version \in Versions
      BY <2>3 DEF Record, EvaluationsRefer
    <3>2. eval[e].content \in Contents
      BY DEF TypeOK, Evaluation
    <3>3. results' \subseteq Result
      BY <2>3, <3>1, <3>2 DEF Record, Result, TypeOK
    <3> QED BY <2>3, <3>3, IdleTypes, StepType DEF Record, TypeOK
  <2>4. CASE GiveUp(e)
    BY <2>4, IdleTypes, StepType DEF GiveUp, TypeOK
  <2> QED BY <1>5, <2>1, <2>2, <2>3, <2>4 DEF Evaluator
<1>6. CASE UNCHANGED vars
  BY <1>6 DEF vars, TypeOK
<1> QED BY <1>1, <1>2, <1>3, <1>4, <1>5, <1>6 DEF Next
-----------------------------------------------------------------------------
(* What each group of steps leaves alone. *)

\* Only four transactions and the creation of a lender change the versions;
\* every other step leaves them, or changes their content only.
LEMMA QuietOrWrites ==
    ASSUME [Next]_vars
    PROVE  \/ UNCHANGED <<lender, status, owner, number>>
           \/ \E l \in Lenders : CreateLender(l)
           \/ \E s \in Sessions :
                  InsertDraft(s) \/ CommitPublish(s) \/ CommitDiscard(s)
                  \/ CommitDelete(s)
<1>1. ASSUME NEW s \in Sessions, Read(s) \/ Rollback(s)
      PROVE  UNCHANGED <<lender, status, owner, number>>
  BY <1>1 DEF Read, Rollback, LoadLender, LoadVersions, LoadDraft, ReadNumber,
              ReadSiblings, Accept
<1>2. ASSUME NEW s \in Sessions, CommitEdit(s)
      PROVE  UNCHANGED <<lender, status, owner, number>>
  BY <1>2 DEF CommitEdit
<1>3. ASSUME NEW e \in Evaluators, Evaluator(e)
      PROVE  UNCHANGED <<lender, status, owner, number>>
  BY <1>3 DEF Evaluator, Select, Evaluate, Record, GiveUp, Step
<1> QED BY <1>1, <1>2, <1>3 DEF Next, Write, vars

\* An inserted version keeps its owner, and is not a draft again once it
\* left that status.
LEMMA VersionsPersist ==
    ASSUME TypeOK, RequestsRefer, [Next]_vars, NEW v \in Versions,
           status[v] # "none"
    PROVE  /\ owner'[v] = owner[v]
           /\ number'[v] = number[v]
           /\ status'[v] # "none"
           /\ status[v] \in {"published", "archived", "gone"} =>
                 status'[v] \in {"published", "archived", "gone"}
<1>1. CASE UNCHANGED <<lender, status, owner, number>>
  BY <1>1
<1>2. ASSUME NEW l, NEW w \in Versions, NEW n, NEW c, InsertVersion(l, w, n, c)
      PROVE  v # w /\ owner'[v] = owner[v] /\ number'[v] = number[v]
             /\ status'[v] = status[v]
  BY <1>2 DEF InsertVersion, TypeOK
<1>3. ASSUME NEW l \in Lenders, CreateLender(l)
      PROVE  owner'[v] = owner[v] /\ number'[v] = number[v]
             /\ status'[v] = status[v]
  BY <1>2, <1>3 DEF CreateLender
<1>4. ASSUME NEW s \in Sessions, InsertDraft(s)
      PROVE  owner'[v] = owner[v] /\ number'[v] = number[v]
             /\ status'[v] = status[v]
  BY <1>2, <1>4 DEF InsertDraft
<1>5. ASSUME NEW s \in Sessions, CommitPublish(s)
      PROVE  /\ owner' = owner /\ number' = number
             /\ status'[v] \in {"published", "archived", status[v]}
  BY <1>5 DEF CommitPublish
<1>6. ASSUME NEW s \in Sessions, CommitDiscard(s) \/ CommitDelete(s)
      PROVE  /\ owner' = owner /\ number' = number
             /\ status'[v] \in {"gone", status[v]}
  BY <1>6 DEF CommitDiscard, CommitDelete, TypeOK
<1> QED BY QuietOrWrites, <1>1, <1>3, <1>4, <1>5, <1>6

\* What requests refer to stays what they refer to.
LEMMA RequestsReferPreserved ==
    ASSUME IInv, [Next]_vars PROVE RequestsRefer'
<1> USE DEF IInv
<1> SUFFICES ASSUME NEW s \in Sessions
             PROVE  /\ req'[s].op \in Acting =>
                          /\ req'[s].version \in Versions
                          /\ owner'[req'[s].version] = req'[s].lender
                          /\ status'[req'[s].version] # "none"
                    /\ req'[s].op = "archive" /\ req'[s].seen # NoVersion =>
                          /\ owner'[req'[s].seen] = req'[s].lender
                          /\ status'[req'[s].seen] # "none"
                          /\ req'[s].seen # req'[s].version
  BY DEF RequestsRefer
<1>0. req[s] \in Request
  BY DEF TypeOK
<1>1. CASE req'[s] = req[s]
  <2>1. ASSUME req[s].op = "archive", req[s].seen # NoVersion
        PROVE  req[s].seen \in Versions
    BY <2>1, <1>0 DEF Request
  <2> QED BY <1>1, <2>1, VersionsPersist DEF RequestsRefer
<1>2. CASE req'[s] = IdleRequest
  BY <1>2 DEF IdleRequest, Acting
<1>3. ASSUME NEW t \in Sessions, NEW op \in {"draft", "delete"}, NEW l, NEW p,
             NEW c, Accept(t, op, l, NoVersion, p, c), t = s
      PROVE  req'[s].op = op
  BY <1>3 DEF Accept, TypeOK
<1>4. ASSUME NEW v \in Versions, NEW op \in {"publish", "edit", "discard"},
             LoadDraft(s, v, op)
      PROVE  /\ req'[s].op \in Acting \ {"archive"}
             /\ req'[s].version = v /\ req'[s].lender = owner[v]
             /\ status[v] = "draft" /\ UNCHANGED <<owner, status>>
  BY <1>4 DEF LoadDraft, Accept, TypeOK, Acting
<1>5. CASE ReadNumber(s)
  <2>1. PICK n : req' = [req EXCEPT ![s].op = "insert", ![s].number = n + 1]
    BY <1>5 DEF ReadNumber
  <2>2. req'[s].op = "insert"
    BY <2>1, <1>0 DEF TypeOK, Request
  <2> QED BY <2>2 DEF Acting
<1>6. CASE ReadSiblings(s)
  <2>1. PICK p \in PublishedOr(req[s].lender, req[s].version) :
           req' = [req EXCEPT ![s].op = "archive", ![s].seen = p]
    BY <1>6 DEF ReadSiblings
  <2>2. /\ req'[s].op = "archive" /\ req'[s].seen = p
        /\ req'[s].version = req[s].version /\ req'[s].lender = req[s].lender
    BY <2>1, <1>0 DEF TypeOK, Request
  <2>3. p # NoVersion => /\ owner[p] = req[s].lender
                         /\ status[p] = "published"
                         /\ p # req[s].version
    BY DEF PublishedOr, With, VersionsOf
  <2>4. req[s].op \in Acting /\ UNCHANGED <<owner, status>>
    BY <1>6 DEF ReadSiblings, Acting
  <2> QED BY <2>2, <2>3, <2>4 DEF RequestsRefer
<1>7. ASSUME NEW t \in Sessions, Read(t), t # s PROVE req'[s] = req[s]
  BY <1>7 DEF Read, LoadLender, LoadVersions, LoadDraft, ReadNumber,
              ReadSiblings, Accept, TypeOK
<1>8. CASE Read(s)
  <2>1. ASSUME NEW l \in Lenders, LoadLender(s, l) \/ LoadVersions(s, l)
        PROVE  req'[s].op \in {"draft", "delete"}
    BY <2>1, <1>3 DEF LoadLender, LoadVersions
  <2>2. CASE \E l \in Lenders : LoadLender(s, l) \/ LoadVersions(s, l)
    BY <2>1, <2>2 DEF Acting
  <2>3. CASE \E v \in Versions, op \in {"publish", "edit", "discard"} :
                LoadDraft(s, v, op)
    BY <1>4, <2>3
  <2> QED BY <1>5, <1>6, <1>8, <2>2, <2>3 DEF Read
<1>9. ASSUME NEW t \in Sessions, Write(t) \/ Rollback(t)
      PROVE  req'[s] \in {req[s], IdleRequest}
  <2>1. Answered(t)
    BY <1>9 DEF Write, InsertDraft, CommitPublish, CommitEdit, CommitDiscard,
                CommitDelete, Rollback
  <2> QED BY <2>1 DEF Answered, TypeOK
<1>10. ASSUME \/ \E l \in Lenders : CreateLender(l)
              \/ \E e \in Evaluators : Evaluator(e)
              \/ UNCHANGED vars
       PROVE  req' = req
  BY <1>10 DEF CreateLender, Evaluator, Select, Evaluate, Record, GiveUp, Step,
               vars
<1> QED BY <1>1, <1>2, <1>7, <1>8, <1>9, <1>10 DEF Next

LEMMA EvaluationsReferPreserved ==
    ASSUME IInv, [Next]_vars PROVE EvaluationsRefer'
<1> USE DEF IInv
<1> SUFFICES ASSUME NEW e \in Evaluators, eval'[e].step # "idle"
             PROVE  /\ eval'[e].version \in Versions
                    /\ status'[eval'[e].version]
                          \in {"published", "archived", "gone"}
  BY DEF EvaluationsRefer
<1>1. CASE eval'[e].step # "idle" /\ eval'[e].version = eval[e].version
           /\ eval[e].step # "idle"
  BY <1>1, VersionsPersist DEF EvaluationsRefer
<1>2. CASE eval'[e] = eval[e]
  BY <1>1, <1>2
<1>3. ASSUME NEW d \in Evaluators, Evaluator(d), d # e
      PROVE  eval'[e] = eval[e]
  BY <1>3 DEF Evaluator, Select, Evaluate, Record, GiveUp, Step, TypeOK
<1>4. CASE Evaluator(e)
  <2>1. ASSUME NEW v \in Versions, Select(e, v)
        PROVE  eval'[e].version = v /\ status'[v] = "published"
    BY <2>1 DEF Select, Step, TypeOK
  <2>2. CASE Evaluate(e)
    BY <1>1, <2>2 DEF Evaluate, Step, TypeOK
  <2>3. CASE Record(e) \/ GiveUp(e)
    BY <2>3 DEF Record, GiveUp, Step, TypeOK, IdleEvaluation
  <2> QED BY <1>4, <2>1, <2>2, <2>3 DEF Evaluator
<1>5. ASSUME ~\E d \in Evaluators : Evaluator(d) PROVE eval' = eval
  <2>1. ASSUME NEW s \in Sessions, Read(s) \/ Write(s) \/ Rollback(s)
        PROVE  eval' = eval
    BY <2>1 DEF Read, Write, Rollback, LoadLender, LoadVersions, LoadDraft,
                ReadNumber, ReadSiblings, Accept, InsertDraft, CommitPublish,
                CommitEdit, CommitDiscard, CommitDelete
  <2> QED BY <1>5, <2>1 DEF Next, CreateLender, vars
<1> QED BY <1>2, <1>3, <1>4, <1>5
-----------------------------------------------------------------------------
(* The invariants. *)

\* The rows of m when v is inserted for l with number n: no other row appears,
\* and the inserted one respects the constraints.
Inserted(l, v, n, m) ==
    /\ VersionsOf(m)' = IF m = l THEN VersionsOf(m) \cup {v}
                        ELSE VersionsOf(m)
    /\ \A w \in VersionsOf(m) :
          status'[w] = status[w] /\ number'[w] = number[w]
    /\ status'[v] = "draft" /\ number'[v] = n
    /\ m = l => \A w \in VersionsOf(m) : status[w] # "draft" /\ number[w] # n

LEMMA InsertEffect ==
    ASSUME TypeOK, NEW l, NEW v \in Versions, NEW n, NEW c,
           InsertVersion(l, v, n, c), NEW m \in Lenders
    PROVE  Inserted(l, v, n, m)
BY DEF Inserted, InsertVersion, With, VersionsOf, Rows, TypeOK

LEMMA PublishEffect ==
    ASSUME TypeOK, RequestsRefer, NEW s \in Sessions, CommitPublish(s),
           NEW m \in Lenders
    PROVE  /\ VersionsOf(m)' = VersionsOf(m)
           /\ req[s].version \in Versions
           /\ owner[req[s].version] = req[s].lender
           /\ status'[req[s].version] = "published"
           /\ \A w \in VersionsOf(m) :
                 /\ number'[w] = number[w]
                 /\ status'[w] = "draft" => status[w] = "draft"
                 /\ status'[w] = "published" =>
                       \/ w = req[s].version
                       \/ status[w] = "published" /\ m # req[s].lender
<1> DEFINE v == req[s].version
           p == req[s].seen
<1>1. v \in Versions /\ owner[v] = req[s].lender
  BY DEF RequestsRefer, CommitPublish, Acting
<1>2. \A w \in Versions : status'[w] = CASE w = v -> "published"
                                        [] w = p -> "archived"
                                        [] OTHER -> status[w]
  BY DEF CommitPublish
<1>3. status[v] \in Rows /\ (p \in Versions => status[p] \in Rows)
  BY PolicyAssumption DEF CommitPublish
<1>4. UNCHANGED <<owner, number>>
  BY DEF CommitPublish
<1>5. \A w \in Versions : status'[w] \in Rows <=> status[w] \in Rows
  BY <1>2, <1>3 DEF Rows
<1>6. VersionsOf(m)' = VersionsOf(m)
  BY <1>4, <1>5 DEF VersionsOf
<1>7. ASSUME NEW w \in VersionsOf(m), status'[w] = "published", w # v
      PROVE  status[w] = "published" /\ m # req[s].lender
  <2>1. w \in Versions /\ owner[w] = m /\ w # p /\ status[w] = "published"
    BY <1>2, <1>7 DEF VersionsOf
  <2>2. m = req[s].lender => w \in With(req[s].lender, "published")
    BY <2>1, <1>7 DEF With
  <2> QED BY <2>1, <2>2, <1>7 DEF CommitPublish
<1>8. ASSUME NEW w \in VersionsOf(m), status'[w] = "draft"
      PROVE  status[w] = "draft"
  BY <1>2, <1>8 DEF VersionsOf
<1>9. status'[v] = "published"
  <2>1. v # p
    BY <1>1, PolicyAssumption DEF RequestsRefer, CommitPublish
  <2> QED BY <1>1, <2>1 DEF CommitPublish
<1>10. \A w \in VersionsOf(m) : number'[w] = number[w]
  BY <1>4
<1> HIDE DEF v, p
<1> QED BY <1>1, <1>6, <1>7, <1>8, <1>9, <1>10 DEF v

\* A discard and a delete only take versions away.
LEMMA RemovalEffect ==
    ASSUME TypeOK, NEW s \in Sessions, CommitDiscard(s) \/ CommitDelete(s),
           NEW m \in Lenders
    PROVE  /\ UNCHANGED <<owner, number>>
           /\ VersionsOf(m)' \subseteq VersionsOf(m)
           /\ \A w \in Versions : status'[w] \in {status[w], "gone"}
<1>1. UNCHANGED <<owner, number>>
  BY DEF CommitDiscard, CommitDelete
<1>2. \A w \in Versions : status'[w] \in {status[w], "gone"}
  BY DEF CommitDiscard, CommitDelete, TypeOK
<1>3. VersionsOf(m)' \subseteq VersionsOf(m)
  <2>1. \A w \in Versions : status'[w] \in Rows => status[w] \in Rows
    BY DEF CommitDiscard, CommitDelete, Rows, TypeOK
  <2> QED BY <1>1, <2>1 DEF VersionsOf
<1> QED BY <1>1, <1>2, <1>3

LEMMA OneOfEachPreserved == ASSUME IInv, [Next]_vars PROVE OneOfEach'
<1> TypeOK /\ RequestsRefer
  BY DEF IInv
<1> SUFFICES ASSUME NEW l \in Lenders, NEW st \in {"draft", "published"},
                    NEW v \in VersionsOf(l)', NEW w \in VersionsOf(l)',
                    status'[v] = st, status'[w] = st
             PROVE  v = w
  BY DEF OneOfEach, With
<1>0. ASSUME v \in VersionsOf(l), w \in VersionsOf(l), status[v] = st,
             status[w] = st
      PROVE  v = w
  BY <1>0 DEF IInv, OneOfEach, With
<1>1. CASE UNCHANGED <<lender, status, owner, number>>
  BY <1>0, <1>1 DEF VersionsOf
<1>2. ASSUME NEW m, NEW u \in Versions, NEW n, NEW c, InsertVersion(m, u, n, c)
      PROVE  v = w
  <2>1. Inserted(m, u, n, l)
    BY <1>2, InsertEffect
  <2>2. CASE v \in VersionsOf(l) /\ w \in VersionsOf(l)
    BY <1>0, <2>1, <2>2 DEF Inserted
  <2>3. CASE ~(v \in VersionsOf(l) /\ w \in VersionsOf(l))
    BY <2>1, <2>3 DEF Inserted
  <2> QED BY <2>2, <2>3
<1>3. ASSUME NEW m \in Lenders, CreateLender(m) PROVE v = w
  BY <1>2, <1>3 DEF CreateLender
<1>4. ASSUME NEW s \in Sessions, InsertDraft(s) PROVE v = w
  BY <1>2, <1>4 DEF InsertDraft
<1>5. ASSUME NEW s \in Sessions, CommitPublish(s) PROVE v = w
  <2>1. CASE st = "draft"
    BY <1>0, <1>5, <2>1, PublishEffect
  <2>2. CASE st = "published" /\ l # req[s].lender
    <3>1. v # req[s].version /\ w # req[s].version
      BY <1>5, <2>2, PublishEffect DEF VersionsOf
    <3> QED BY <1>0, <1>5, <2>2, <3>1, PublishEffect
  <2>3. CASE st = "published" /\ l = req[s].lender
    BY <1>5, <2>3, PublishEffect
  <2> QED BY <2>1, <2>2, <2>3
<1>6. ASSUME NEW s \in Sessions, CommitDiscard(s) \/ CommitDelete(s)
      PROVE  v = w
  <2>1. v \in VersionsOf(l) /\ w \in VersionsOf(l)
    BY <1>6, RemovalEffect
  <2>2. status[v] = st /\ status[w] = st
    BY <1>6, <2>1, RemovalEffect DEF VersionsOf
  <2> QED BY <1>0, <2>1, <2>2
<1> QED BY QuietOrWrites, <1>1, <1>3, <1>4, <1>5, <1>6

LEMMA ResultsPreserved ==
    ASSUME IInv, [Next]_vars PROVE ResultsPointAtPublished'
<1> USE DEF IInv
<1>0. \A r \in results : /\ r.version \in Versions
                         /\ status[r.version] \in {"published", "archived"}
  BY DEF TypeOK, Result, ResultsPointAtPublished
<1>1. ASSUME NEW r \in results
      PROVE  status'[r.version] \in {"published", "archived"}
  <2>1. status'[r.version] \in {"published", "archived", "gone"}
    BY <1>0, VersionsPersist
  <2>2. ASSUME status'[r.version] = "gone" PROVE FALSE
    <3>1. CASE UNCHANGED <<lender, status, owner, number>>
      BY <1>0, <2>2, <3>1
    <3>2. ASSUME NEW m, NEW u \in Versions, NEW n, NEW c,
                 InsertVersion(m, u, n, c)
          PROVE  FALSE
      BY <1>0, <2>2, <3>2 DEF InsertVersion, TypeOK
    <3>3. ASSUME NEW m \in Lenders, CreateLender(m) PROVE FALSE
      BY <3>2, <3>3 DEF CreateLender
    <3>4. ASSUME NEW s \in Sessions, InsertDraft(s) PROVE FALSE
      BY <3>2, <3>4 DEF InsertDraft
    <3>5. ASSUME NEW s \in Sessions, CommitPublish(s) PROVE FALSE
      BY <1>0, <2>2, <3>5 DEF CommitPublish
    <3>6. ASSUME NEW s \in Sessions, CommitDiscard(s) PROVE FALSE
      BY <1>0, <2>2, <3>6 DEF CommitDiscard, Used, TypeOK
    <3>7. ASSUME NEW s \in Sessions, CommitDelete(s) PROVE FALSE
      BY <1>0, <2>2, <3>7 DEF CommitDelete, Used
    <3> QED BY QuietOrWrites, <3>1, <3>3, <3>4, <3>5, <3>6, <3>7
  <2> QED BY <2>1, <2>2
<1>2. ASSUME NEW e \in Evaluators, Record(e)
      PROVE  /\ status' = status
             /\ \A r \in results' : \/ r \in results
                                    \/ status[r.version] \in {"published", "archived"}
  BY <1>2 DEF Record, Step, EvaluationsRefer, Rows
<1>3. ASSUME ~\E e \in Evaluators : Record(e) PROVE results' = results
  <2>1. ASSUME NEW s \in Sessions, Read(s) \/ Write(s) \/ Rollback(s)
        PROVE  results' = results
    BY <2>1 DEF Read, Write, Rollback, LoadLender, LoadVersions, LoadDraft,
                ReadNumber, ReadSiblings, Accept, InsertDraft, CommitPublish,
                CommitEdit, CommitDiscard, CommitDelete
  <2>2. ASSUME NEW e \in Evaluators, Evaluator(e) PROVE results' = results
    BY <2>2, <1>3 DEF Evaluator, Select, Evaluate, GiveUp
  <2> QED BY <2>1, <2>2 DEF Next, CreateLender, vars
<1> QED BY <1>1, <1>2, <1>3 DEF ResultsPointAtPublished

-----------------------------------------------------------------------------
LEMMA InitIInv == Init => IInv
<1> SUFFICES ASSUME Init PROVE IInv
  OBVIOUS
<1>1. TypeOK
  BY IdleTypes, PolicyAssumption DEF Init, TypeOK, Status
<1>2. RequestsRefer /\ EvaluationsRefer
  BY DEF Init, RequestsRefer, EvaluationsRefer, IdleRequest, IdleEvaluation,
         Acting
<1>3. \A l \in Lenders : VersionsOf(l) = {}
  BY DEF Init, VersionsOf, Rows
<1> QED BY <1>1, <1>2, <1>3 DEF IInv, OneOfEach, With,
                                ResultsPointAtPublished, Init

LEMMA NextIInv == IInv /\ [Next]_vars => IInv'
BY TypePreserved, RequestsReferPreserved, EvaluationsReferPreserved,
   OneOfEachPreserved, ResultsPreserved DEF IInv

\* The inductive invariant holds in every interleaving of the handlers and the
\* evaluations: types, references of what is in flight, and the two
\* invariants of the tables.
THEOREM PolicySafety == Spec => []IInv
BY InitIInv, NextIInv, PTL DEF Spec

\* At most one draft and one published version of a lender, whatever the
\* sessions do concurrently.
THEOREM OneOfEachHolds == Spec => []OneOfEach
<1>1. IInv => OneOfEach
  BY DEF IInv
<1> QED BY <1>1, PolicySafety, PTL

\* What a result refers to was published and is still there.
THEOREM ResultsPointAtPublishedHolds == Spec => []ResultsPointAtPublished
<1>1. IInv => ResultsPointAtPublished
  BY DEF IInv
<1> QED BY <1>1, PolicySafety, PTL

\* A published version is archived only in the step that publishes another one.
THEOREM KeepsPublishedHolds == Spec => KeepsPublished
<1>1. ASSUME IInv, [Next]_vars, NEW v \in Versions, status[v] = "published",
             status'[v] = "archived"
      PROVE  With(owner[v], "published")' # {}
  <2>0. TypeOK /\ RequestsRefer
    BY <1>1 DEF IInv
  <2>1. CASE UNCHANGED <<lender, status, owner, number>>
    BY <1>1, <2>1
  <2>2. ASSUME NEW m, NEW u \in Versions, NEW n, NEW c,
               InsertVersion(m, u, n, c)
        PROVE  FALSE
    BY <1>1, <2>0, <2>2 DEF InsertVersion, TypeOK
  <2>3. ASSUME NEW m \in Lenders, CreateLender(m) PROVE FALSE
    BY <2>2, <2>3 DEF CreateLender
  <2>4. ASSUME NEW s \in Sessions, InsertDraft(s) PROVE FALSE
    BY <2>2, <2>4 DEF InsertDraft
  <2>5. ASSUME NEW s \in Sessions, CommitDiscard(s) \/ CommitDelete(s)
        PROVE  FALSE
    BY <1>1, <2>0, <2>5 DEF CommitDiscard, CommitDelete, TypeOK
  <2>6. ASSUME NEW s \in Sessions, CommitPublish(s)
        PROVE  With(owner[v], "published")' # {}
    <3>1. /\ v = req[s].seen /\ v # NoVersion
          /\ status'[req[s].version] = "published" /\ owner' = owner
      BY <1>1, <2>0, <2>6, PolicyAssumption DEF CommitPublish, RequestsRefer,
                                               Acting
    <3>2. /\ req[s].version \in Versions
          /\ owner[req[s].version] = req[s].lender
          /\ owner[v] = req[s].lender
      BY <2>0, <2>6, <3>1 DEF CommitPublish, RequestsRefer, Acting
    <3>3. req[s].version \in With(owner[v], "published")'
      BY <3>1, <3>2 DEF With, VersionsOf, Rows
    <3> QED BY <3>3
  <2> QED BY <1>1, QuietOrWrites, <2>1, <2>3, <2>4, <2>5, <2>6
<1>2. IInv /\ [Next]_vars =>
        [\A v \in Versions :
            status[v] = "published" /\ status'[v] = "archived" =>
                With(owner[v], "published")' # {}]_vars
  BY <1>1
<1> QED BY <1>2, PolicySafety, PTL DEF Spec, KeepsPublished
-----------------------------------------------------------------------------
(* Version numbers, as long as nobody discards. *)

\* A draft has the highest number of its lender, so it comes first in the
\* lender's history, although create_draft reads the highest number in one
\* statement and inserts in another.
DraftIsNewest ==
    \A l \in Lenders :
        \A v \in With(l, "draft"), w \in VersionsOf(l) :
            w # v => number[w] < number[v]

\* Every number from 1 to n is taken.
Filled(l, n) == \A k \in 1 .. n : \E w \in VersionsOf(l) : number[w] = k

NumbersAreFilled ==
    \A l \in Lenders :
        lender[l] = "deleted" \/ \A v \in VersionsOf(l) : Filled(l, number[v])

Inserting(s, l, n) ==
    req[s].op = "insert" /\ req[s].lender = l /\ req[s].number = n + 1

\* The numbers below the one a request is about to insert are taken.
RequestsAreFilled ==
    \A s \in Sessions :
        /\ req[s].op # "discard"
        /\ req[s].op \in {"draft", "insert"} => req[s].lender \in Lenders
        /\ req[s].op = "insert" => \E n \in Nat : req[s].number = n + 1
        /\ \A l \in Lenders, n \in Nat :
              Inserting(s, l, n) => lender[l] = "deleted" \/ Filled(l, n)

Numbering ==
    /\ IInv
    /\ RequestsAreFilled
    /\ NumbersAreFilled
    /\ DraftIsNewest

\* No row of l appears or becomes a draft, and rows leave l only with l.
Kept(l) ==
    /\ VersionsOf(l)' \subseteq VersionsOf(l)
    /\ \A w \in VersionsOf(l) :
          number'[w] = number[w] /\ (status'[w] = "draft" => status[w] = "draft")
    /\ lender'[l] = "deleted" \/ VersionsOf(l) \subseteq VersionsOf(l)'

\* The next number is inserted for l.
Grown(l) ==
    /\ lender[l] # "deleted"
    /\ \E v \in Versions, n \in Nat : Inserted(l, v, n + 1, l) /\ Filled(l, n)

LEMMA RowsChange ==
    ASSUME Numbering, [Next]_vars, NEW l \in Lenders
    PROVE  Kept(l) \/ Grown(l)
<1>0. TypeOK /\ RequestsRefer /\ RequestsAreFilled
  BY DEF Numbering, IInv
<1>1. CASE UNCHANGED <<lender, status, owner, number>>
  BY <1>1 DEF Kept, VersionsOf
<1>2. ASSUME NEW m \in Lenders, m # l, NEW u \in Versions, NEW n, NEW c,
             InsertVersion(m, u, n, c)
      PROVE  Kept(l)
  <2>1. Inserted(m, u, n, l)
    BY <1>0, <1>2, InsertEffect
  <2> QED BY <1>2, <2>1 DEF Inserted, Kept
<1>3. ASSUME NEW m \in Lenders, CreateLender(m) PROVE Kept(l) \/ Grown(l)
  <2>1. PICK u \in Versions : InsertVersion(m, u, 1, Empty)
    BY <1>3 DEF CreateLender
  <2>2. CASE m # l
    BY <1>2, <2>1, <2>2
  <2>3. CASE m = l
    <3>1. Inserted(l, u, 0 + 1, l)
      BY <1>0, <2>1, <2>3, InsertEffect
    <3>2. Filled(l, 0)
      BY DEF Filled
    <3> QED BY <1>3, <2>3, <3>1, <3>2 DEF Grown, CreateLender
  <2> QED BY <2>2, <2>3
<1>4. ASSUME NEW s \in Sessions, InsertDraft(s) PROVE Kept(l) \/ Grown(l)
  <2>1. PICK u \in Versions :
           InsertVersion(req[s].lender, u, req[s].number, req[s].content)
    BY <1>4 DEF InsertDraft
  <2>2. req[s].op = "insert" /\ req[s].lender \in Lenders
    BY <1>0, <1>4 DEF InsertDraft, RequestsAreFilled
  <2>3. CASE req[s].lender # l
    BY <1>2, <2>1, <2>2, <2>3
  <2>4. CASE req[s].lender = l
    <3>1. PICK n \in Nat : req[s].number = n + 1
      BY <1>0, <2>2 DEF RequestsAreFilled
    <3>2. Filled(l, n)
      BY <1>0, <1>4, <2>2, <2>4, <3>1
         DEF RequestsAreFilled, Inserting, InsertDraft
    <3>3. Inserted(l, u, n + 1, l)
      BY <1>0, <2>1, <2>4, <3>1, InsertEffect
    <3> QED BY <1>4, <2>4, <3>2, <3>3 DEF Grown, InsertDraft
  <2> QED BY <2>3, <2>4
<1>5. ASSUME NEW s \in Sessions, CommitPublish(s) PROVE Kept(l)
  BY <1>0, <1>5, PublishEffect DEF Kept
<1>6. ASSUME NEW s \in Sessions, CommitDiscard(s) PROVE FALSE
  BY <1>0, <1>6 DEF CommitDiscard, RequestsAreFilled
<1>7. ASSUME NEW s \in Sessions, CommitDelete(s) PROVE Kept(l)
  <2>1. /\ VersionsOf(l)' \subseteq VersionsOf(l)
        /\ UNCHANGED number
        /\ \A w \in Versions : status'[w] \in {status[w], "gone"}
    BY <1>0, <1>7, RemovalEffect
  <2>2. \A w \in VersionsOf(l) : status'[w] = "draft" => status[w] = "draft"
    BY <2>1 DEF VersionsOf
  <2>3. lender'[l] = "deleted" \/ VersionsOf(l) \subseteq VersionsOf(l)'
    <3>1. CASE req[s].lender = l
      BY <1>0, <1>7, <3>1 DEF CommitDelete, TypeOK
    <3>2. CASE req[s].lender # l
      <4>1. \A w \in VersionsOf(l) : status'[w] = status[w]
        BY <1>7, <3>2 DEF CommitDelete, VersionsOf
      <4>2. UNCHANGED owner
        BY <1>7 DEF CommitDelete
      <4> QED BY <4>1, <4>2 DEF VersionsOf
    <3> QED BY <3>1, <3>2
  <2> QED BY <2>1, <2>2, <2>3 DEF Kept
<1> QED BY QuietOrWrites, <1>1, <1>3, <1>4, <1>5, <1>6, <1>7

LEMMA FilledStays ==
    ASSUME Numbering, [Next]_vars, NEW l \in Lenders, NEW n, Filled(l, n)
    PROVE  lender'[l] = "deleted" \/ Filled(l, n)'
<1>1. ASSUME VersionsOf(l) \subseteq VersionsOf(l)',
             \A w \in VersionsOf(l) : number'[w] = number[w]
      PROVE  Filled(l, n)'
  BY <1>1 DEF Filled
<1> QED BY <1>1, RowsChange DEF Kept, Grown, Inserted

\* A deleted lender stays deleted.
LEMMA DeletedStays ==
    ASSUME TypeOK, [Next]_vars, NEW l \in Lenders, lender[l] = "deleted"
    PROVE  lender'[l] = "deleted"
<1>1. ASSUME NEW m \in Lenders, CreateLender(m) PROVE lender'[l] = "deleted"
  BY <1>1 DEF CreateLender, TypeOK
<1>2. ASSUME NEW s \in Sessions, InsertDraft(s) \/ CommitPublish(s)
                                 \/ CommitDiscard(s)
      PROVE  lender' = lender
  BY <1>2 DEF InsertDraft, CommitPublish, CommitDiscard
<1>3. ASSUME NEW s \in Sessions, CommitDelete(s) PROVE lender'[l] = "deleted"
  BY <1>3 DEF CommitDelete, TypeOK
<1> QED BY QuietOrWrites, <1>1, <1>2, <1>3

\* What is read as the highest number has every number below it taken.
LEMMA HighestIsFilled ==
    ASSUME Numbering, NEW l \in Lenders, NEW n \in Highest(l)
    PROVE  n \in Nat /\ (lender[l] = "deleted" \/ Filled(l, n))
<1>1. n \in Nat
  BY DEF Highest, Numbers, VersionsOf, Numbering, IInv, TypeOK
<1>2. CASE n = 0
  BY <1>1, <1>2 DEF Filled
<1>3. CASE n # 0
  <2>1. PICK v \in VersionsOf(l) : number[v] = n
    BY <1>3 DEF Highest, Numbers
  <2> QED BY <1>1, <2>1 DEF Numbering, NumbersAreFilled
<1> QED BY <1>1, <1>2, <1>3

\* How the request of a session changes: it ends, it goes on, it begins with
\* another operation than an insert, or it reads the highest number.
LEMMA RequestChange ==
    ASSUME TypeOK, [Next]_vars, NEW s \in Sessions
    PROVE  \/ req'[s] \in {req[s], IdleRequest}
           \/ req'[s].op \in Ops /\ (req'[s].op = "draft" =>
                                        req'[s].lender \in Lenders)
           \/ req'[s].op = "archive"
           \/ ReadNumber(s)
<1>1. ASSUME NEW op, NEW l, NEW v, NEW p, NEW c, Accept(s, op, l, v, p, c)
      PROVE  op \in Ops /\ req'[s].op = op /\ req'[s].lender = l
  BY <1>1 DEF Accept, TypeOK
<1>2. ASSUME NEW l \in Lenders, LoadLender(s, l) \/ LoadVersions(s, l)
      PROVE  req'[s].op \in Ops /\ req'[s].lender \in Lenders
  BY <1>1, <1>2 DEF LoadLender, LoadVersions
<1>3. ASSUME NEW v \in Versions, NEW op \in {"publish", "edit", "discard"},
             LoadDraft(s, v, op)
      PROVE  req'[s].op \in Ops /\ req'[s].op # "draft"
  BY <1>1, <1>3 DEF LoadDraft
<1>4. CASE ReadSiblings(s)
  <2>1. PICK p : req' = [req EXCEPT ![s].op = "archive", ![s].seen = p]
    BY <1>4 DEF ReadSiblings
  <2> QED BY <2>1 DEF TypeOK, Request
<1>5. ASSUME NEW t \in Sessions, Read(t), t # s PROVE req'[s] = req[s]
  BY <1>5 DEF Read, LoadLender, LoadVersions, LoadDraft, ReadNumber,
              ReadSiblings, Accept, TypeOK
<1>6. ASSUME NEW t \in Sessions, Write(t) \/ Rollback(t)
      PROVE  req'[s] \in {req[s], IdleRequest}
  <2>1. Answered(t)
    BY <1>6 DEF Write, InsertDraft, CommitPublish, CommitEdit, CommitDiscard,
                CommitDelete, Rollback
  <2> QED BY <2>1 DEF Answered, TypeOK
<1>7. ASSUME \/ \E l \in Lenders : CreateLender(l)
             \/ \E e \in Evaluators : Evaluator(e)
             \/ UNCHANGED vars
      PROVE  req' = req
  BY <1>7 DEF CreateLender, Evaluator, Select, Evaluate, Record, GiveUp, Step,
              vars
<1> QED BY <1>2, <1>3, <1>4, <1>5, <1>6, <1>7 DEF Next, Read

LEMMA RequestsFilledPreserved ==
    ASSUME "discard" \notin Ops, Numbering, [Next]_vars
    PROVE  RequestsAreFilled'
<1>0. TypeOK /\ RequestsAreFilled
  BY DEF Numbering, IInv
<1> SUFFICES ASSUME NEW s \in Sessions
             PROVE  /\ req'[s].op # "discard"
                    /\ req'[s].op \in {"draft", "insert"} =>
                          req'[s].lender \in Lenders
                    /\ req'[s].op = "insert" =>
                          \E n \in Nat : req'[s].number = n + 1
                    /\ \A l \in Lenders, n \in Nat :
                          Inserting(s, l, n)' =>
                              lender'[l] = "deleted" \/ Filled(l, n)'
  BY DEF RequestsAreFilled
<1>1. CASE req'[s] = req[s]
  <2>1. ASSUME NEW l \in Lenders, NEW n \in Nat, Inserting(s, l, n)'
        PROVE  lender'[l] = "deleted" \/ Filled(l, n)'
    <3>1. lender[l] = "deleted" \/ Filled(l, n)
      BY <1>0, <1>1, <2>1 DEF RequestsAreFilled, Inserting
    <3> QED BY <1>0, <3>1, DeletedStays, FilledStays
  <2> QED BY <1>0, <1>1, <2>1 DEF RequestsAreFilled
<1>2. CASE req'[s] = IdleRequest
  BY <1>2 DEF IdleRequest, Inserting
<1>3. CASE req'[s].op \in Ops /\ (req'[s].op = "draft" =>
                                     req'[s].lender \in Lenders)
  <2>1. req'[s].op # "insert" /\ req'[s].op # "discard"
    BY <1>3, PolicyAssumption DEF Operations
  <2> QED BY <1>3, <2>1 DEF Inserting
<1>4. CASE req'[s].op = "archive"
  BY <1>4 DEF Inserting
<1>5. CASE ReadNumber(s)
  <2>1. PICK m \in Highest(req[s].lender) :
           req' = [req EXCEPT ![s].op = "insert", ![s].number = m + 1]
    BY <1>5 DEF ReadNumber
  <2>2. req[s].lender \in Lenders
    BY <1>0, <1>5 DEF ReadNumber, RequestsAreFilled
  <2>3. /\ m \in Nat
        /\ lender[req[s].lender] = "deleted" \/ Filled(req[s].lender, m)
    BY <2>2, HighestIsFilled
  <2>4. req[s] \in Request
    BY <1>0 DEF TypeOK
  <2>5. /\ req'[s].op = "insert" /\ req'[s].lender = req[s].lender
        /\ req'[s].number = m + 1
    BY <1>0, <2>1, <2>4 DEF TypeOK, Request
  <2>6. UNCHANGED <<lender, status, owner, number>>
    BY <1>5 DEF ReadNumber
  <2>7. ASSUME NEW l \in Lenders, NEW n \in Nat, Inserting(s, l, n)'
        PROVE  lender'[l] = "deleted" \/ Filled(l, n)'
    <3>1. l = req[s].lender /\ n = m
      BY <2>3, <2>5, <2>7 DEF Inserting
    <3>2. lender[l] = "deleted" \/ Filled(l, n)
      BY <2>3, <3>1
    <3> QED BY <2>6, <3>2 DEF Filled, VersionsOf
  <2> QED BY <2>2, <2>3, <2>5, <2>7
<1> QED BY <1>0, <1>1, <1>2, <1>3, <1>4, <1>5, RequestChange

LEMMA NumbersFilledPreserved ==
    ASSUME Numbering, [Next]_vars PROVE NumbersAreFilled'
<1>0. TypeOK /\ NumbersAreFilled
  BY DEF Numbering, IInv
<1> SUFFICES ASSUME NEW l \in Lenders, lender'[l] # "deleted",
                    NEW w \in VersionsOf(l)', NEW k \in 1 .. number'[w]
             PROVE  \E u \in VersionsOf(l)' : number'[u] = k
  BY DEF NumbersAreFilled, Filled
<1>1. lender[l] # "deleted"
  BY <1>0, DeletedStays
<1>2. ASSUME NEW n, Filled(l, n), k \in 1 .. n
      PROVE  \E u \in VersionsOf(l)' : number'[u] = k
  <2>1. Filled(l, n)'
    BY <1>2, FilledStays
  <2> QED BY <1>2, <2>1 DEF Filled
<1>3. CASE w \in VersionsOf(l) /\ number'[w] = number[w]
  BY <1>0, <1>1, <1>2, <1>3 DEF NumbersAreFilled
<1>4. CASE Kept(l)
  BY <1>3, <1>4 DEF Kept
<1>5. CASE Grown(l)
  <2>1. PICK v \in Versions, n \in Nat :
           Inserted(l, v, n + 1, l) /\ Filled(l, n)
    BY <1>5 DEF Grown
  <2>2. CASE w \in VersionsOf(l)
    BY <1>3, <2>1, <2>2 DEF Inserted
  <2>3. CASE w \notin VersionsOf(l)
    <3>1. w = v /\ number'[w] = n + 1
      BY <2>1, <2>3 DEF Inserted
    <3>2. CASE k = n + 1
      BY <3>1, <3>2
    <3>3. CASE k # n + 1
      BY <1>2, <2>1, <3>1, <3>3
    <3> QED BY <3>2, <3>3
  <2> QED BY <2>2, <2>3
<1> QED BY <1>4, <1>5, RowsChange

LEMMA DraftNewestPreserved ==
    ASSUME Numbering, [Next]_vars PROVE DraftIsNewest'
<1>0. TypeOK /\ NumbersAreFilled /\ DraftIsNewest
  BY DEF Numbering, IInv
<1> SUFFICES ASSUME NEW l \in Lenders, NEW v \in VersionsOf(l)',
                    status'[v] = "draft", NEW w \in VersionsOf(l)', w # v
             PROVE  number'[w] < number'[v]
  BY DEF DraftIsNewest, With
<1>1. CASE Kept(l)
  BY <1>0, <1>1 DEF Kept, DraftIsNewest, With
<1>2. CASE Grown(l)
  <2>1. PICK u \in Versions, n \in Nat :
           Inserted(l, u, n + 1, l) /\ Filled(l, n)
    BY <1>2 DEF Grown
  <2>2. v = u /\ number'[v] = n + 1
    BY <2>1 DEF Inserted
  <2>3. w \in VersionsOf(l) /\ number'[w] = number[w] /\ number[w] # n + 1
    BY <2>1, <2>2 DEF Inserted
  <2>4. number[w] \in Nat
    BY <1>0, <2>3 DEF TypeOK, VersionsOf
  <2>5. lender[l] # "deleted"
    BY <1>2 DEF Grown
  <2>6. ~ n + 1 < number[w]
    <3>1. Filled(l, number[w])
      BY <1>0, <2>3, <2>5 DEF NumbersAreFilled
    <3> SUFFICES ASSUME n + 1 < number[w] PROVE FALSE
      OBVIOUS
    <3>2. PICK x \in VersionsOf(l) : number[x] = n + 1
      BY <2>4, <3>1 DEF Filled
    <3> QED BY <2>1, <3>2 DEF Inserted
  <2> QED BY <2>2, <2>3, <2>4, <2>6
<1> QED BY <1>1, <1>2, RowsChange

\* While no client discards, DraftIsNewest holds: numbers stay without gaps,
\* so an insert that finds its number free finds every higher one free.
THEOREM DraftIsNewestHolds ==
    ASSUME "discard" \notin Ops PROVE Spec => []DraftIsNewest
<1>1. Init => Numbering
  <2> SUFFICES ASSUME Init PROVE Numbering
    OBVIOUS
  <2>1. IInv
    BY InitIInv
  <2>2. \A l \in Lenders : VersionsOf(l) = {}
    BY DEF Init, VersionsOf, Rows
  <2>3. \A s \in Sessions : req[s].op = "idle"
    BY DEF Init, IdleRequest
  <2> QED BY <2>1, <2>2, <2>3
          DEF Numbering, RequestsAreFilled, NumbersAreFilled, DraftIsNewest,
              With, Inserting
<1>2. Numbering /\ [Next]_vars => Numbering'
  BY NextIInv, RequestsFilledPreserved, NumbersFilledPreserved,
     DraftNewestPreserved DEF Numbering
<1>3. Numbering => DraftIsNewest
  BY DEF Numbering
<1> QED BY <1>1, <1>2, <1>3, PTL DEF Spec

\* Every variable keeps its type: what a handler of api/lenders.py holds between
\* its statements is of the kind that its next statement expects.
THEOREM PolicyTyped == Spec => []TypeOK
<1>1. IInv => TypeOK
  BY DEF IInv
<1> QED BY <1>1, PolicySafety, PTL
=============================================================================

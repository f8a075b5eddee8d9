-------------------------- MODULE PolicyRefinement --------------------------
(***************************************************************************)
(* What the handlers of PolicyLifecycle achieve while one operator works:  *)
(* for any number of lenders, versions and evaluations, the atomic         *)
(* lifecycle of PolicyVersions.                                            *)
(***************************************************************************)
EXTENDS PolicyProofs

\* The requests that change policies come one at a time.
OneOperator == \A s, t \in Sessions : s = t

-----------------------------------------------------------------------------
(* The inductive invariant. *)

\* Rows have an owner, and only lenders that exist have rows.
RowsOwned ==
    \A v \in Versions :
        /\ status[v] = "none" => owner[v] = NoLender
        /\ status[v] \in Rows =>
              owner[v] \in Lenders /\ lender[owner[v]] = "present"

RequestsOwn ==
    \A s \in Sessions :
        req[s].op \in {"draft", "insert", "delete"} => req[s].lender \in Lenders

\* c is what a new draft of l starts with.
StartsWith(l, c) ==
    /\ With(l, "published") = {} => c = Empty
    /\ \A p \in With(l, "published") : c = content[p]

\* What create_draft has read is still so.
DraftingIsCurrent ==
    \A s \in Sessions :
        /\ req[s].op \in {"draft", "insert"} =>
              /\ lender[req[s].lender] = "present"
              /\ StartsWith(req[s].lender, req[s].content)
        /\ req[s].op = "insert" =>
              \A w \in VersionsOf(req[s].lender) : number[w] < req[s].number

\* What publish, edit and discard have read is still so.
WritingIsCurrent ==
    \A s \in Sessions :
        /\ req[s].op \in Acting => status[req[s].version] = "draft"
        /\ req[s].op \in {"publish", "archive"} =>
              content[req[s].version] # Empty
        /\ req[s].op = "archive" =>
              With(req[s].lender, "published") = {req[s].seen} \ {NoVersion}

\* What an evaluation has read of its version is still what the version says.
EvaluationsHold ==
    \A e \in Evaluators :
        eval[e].step = "evaluated" => eval[e].content = content[eval[e].version]

Undisturbed ==
    /\ IInv
    /\ RowsOwned
    /\ RequestsOwn
    /\ DraftingIsCurrent
    /\ WritingIsCurrent
    /\ EvaluationsHold
    /\ DraftIsNewest
    /\ PublishedIsNewest
    /\ HistoryIsKept

Parts ==
    /\ TypeOK
    /\ RequestsRefer
    /\ EvaluationsRefer
    /\ OneOfEach
    /\ ResultsPointAtPublished
    /\ RowsOwned
    /\ RequestsOwn
    /\ DraftingIsCurrent
    /\ WritingIsCurrent
    /\ EvaluationsHold
    /\ DraftIsNewest
    /\ PublishedIsNewest
    /\ HistoryIsKept

LEMMA UndisturbedParts == ASSUME Undisturbed PROVE Parts
BY DEF Undisturbed, IInv, Parts

-----------------------------------------------------------------------------
(* What a step does to the rows. *)

Table == <<lender, status, owner, number, content>>

LEMMA TableSteps ==
    ASSUME [Next]_vars
    PROVE  \/ UNCHANGED Table
           \/ \E l \in Lenders : CreateLender(l)
           \/ \E s \in Sessions : Write(s)
<1>1. ASSUME NEW s \in Sessions, Read(s) \/ Rollback(s) PROVE UNCHANGED Table
  BY <1>1 DEF Read, Rollback, LoadLender, LoadVersions, LoadDraft, ReadNumber,
              ReadSiblings, Accept, Table
<1>2. ASSUME NEW e \in Evaluators, Evaluator(e) PROVE UNCHANGED Table
  BY <1>2 DEF Evaluator, Select, Evaluate, Record, GiveUp, Step, Table
<1> QED BY <1>1, <1>2 DEF Next, vars, Table

\* An inserted row: the others keep what they say.
LEMMA InsertRows ==
    ASSUME TypeOK, NEW l, NEW v \in Versions, NEW n, NEW c,
           InsertVersion(l, v, n, c)
    PROVE  /\ status[v] = "none" /\ status'[v] = "draft"
           /\ owner'[v] = l /\ number'[v] = n /\ content'[v] = c
           /\ \A w \in Versions \ {v} :
                 /\ status'[w] = status[w] /\ owner'[w] = owner[w]
                 /\ number'[w] = number[w] /\ content'[w] = content[w]
BY DEF InsertVersion, TypeOK

\* What an insert for another lender leaves of m.
LEMMA InsertElsewhere ==
    ASSUME TypeOK, NEW l, NEW v \in Versions, NEW n, NEW c,
           InsertVersion(l, v, n, c), NEW m \in Lenders, m # l
    PROVE  /\ VersionsOf(m)' = VersionsOf(m)
           /\ With(m, "published")' = With(m, "published")
           /\ \A w \in VersionsOf(m) :
                 /\ status'[w] = status[w] /\ number'[w] = number[w]
                 /\ content'[w] = content[w]
<1>1. Inserted(l, v, n, m)
  BY InsertEffect
<1>2. \A w \in VersionsOf(m) : content'[w] = content[w]
  BY InsertRows DEF VersionsOf, Rows
<1> QED BY <1>1, <1>2 DEF Inserted, With

\* A lender that is created has no rows yet.
LEMMA NewLenderIsEmpty ==
    ASSUME RowsOwned, NEW l \in Lenders, lender[l] # "present"
    PROVE  VersionsOf(l) = {}
BY DEF RowsOwned, VersionsOf

\* A write ends its request.
LEMMA WritesAnswer ==
    ASSUME TypeOK, NEW s \in Sessions, Write(s) \/ Rollback(s)
    PROVE  req'[s] = IdleRequest
<1>1. Answered(s)
  BY DEF Write, Rollback, InsertDraft, CommitPublish, CommitEdit, CommitDiscard,
         CommitDelete
<1> QED BY <1>1 DEF Answered, TypeOK

LEMMA RowsOwnedPreserved ==
    ASSUME Undisturbed, [Next]_vars PROVE RowsOwned'
<1>0. TypeOK /\ RowsOwned /\ RequestsOwn
  BY UndisturbedParts DEF Parts
<1> SUFFICES ASSUME NEW w \in Versions
             PROVE  /\ status'[w] = "none" => owner'[w] = NoLender
                    /\ status'[w] \in Rows =>
                          /\ owner'[w] \in Lenders
                          /\ lender'[owner'[w]] = "present"
  BY DEF RowsOwned
<1>1. CASE UNCHANGED Table
  BY <1>0, <1>1 DEF RowsOwned, Table
<1>2. ASSUME NEW l \in Lenders, CreateLender(l)
      PROVE  /\ status'[w] = "none" => owner'[w] = NoLender
             /\ status'[w] \in Rows =>
                   owner'[w] \in Lenders /\ lender'[owner'[w]] = "present"
  <2>1. PICK v \in Versions : InsertVersion(l, v, 1, Empty)
    BY <1>2 DEF CreateLender
  <2>2. \A m \in Lenders : m = l \/ lender[m] = "present"
                              => lender'[m] = "present"
    BY <1>0, <1>2 DEF CreateLender, TypeOK
  <2>3. CASE w = v
    BY <1>0, <2>1, <2>2, <2>3, InsertRows
  <2>4. CASE w # v
    BY <1>0, <2>1, <2>2, <2>4, InsertRows DEF RowsOwned
  <2> QED BY <2>3, <2>4
<1>3. ASSUME NEW s \in Sessions, InsertDraft(s)
      PROVE  /\ status'[w] = "none" => owner'[w] = NoLender
             /\ status'[w] \in Rows =>
                   owner'[w] \in Lenders /\ lender'[owner'[w]] = "present"
  <2>1. PICK v \in Versions :
           InsertVersion(req[s].lender, v, req[s].number, req[s].content)
    BY <1>3 DEF InsertDraft
  <2>2. /\ req[s].lender \in Lenders /\ lender[req[s].lender] = "present"
        /\ lender' = lender
    BY <1>0, <1>3 DEF InsertDraft, RequestsOwn
  <2>3. CASE w = v
    BY <1>0, <2>1, <2>2, <2>3, InsertRows
  <2>4. CASE w # v
    BY <1>0, <2>1, <2>2, <2>4, InsertRows DEF RowsOwned
  <2> QED BY <2>3, <2>4
<1>4. ASSUME NEW s \in Sessions, CommitPublish(s)
      PROVE  /\ UNCHANGED <<lender, owner>>
             /\ status'[w] = "none" => status[w] = "none"
             /\ status'[w] \in Rows => status[w] \in Rows
  <2>1. status'[w] \in {status[w], "published", "archived"}
    BY <1>4 DEF CommitPublish
  <2>2. status'[w] # status[w] => status[w] \in Rows
    <3>1. status'[w] # status[w] => w = req[s].version \/ w = req[s].seen
      BY <1>4 DEF CommitPublish
    <3>2. w # NoVersion
      BY PolicyAssumption
    <3> QED BY <1>4, <3>1, <3>2 DEF CommitPublish
  <2> QED BY <1>4, <2>1, <2>2 DEF CommitPublish, Rows
<1>5. ASSUME NEW s \in Sessions, CommitEdit(s)
      PROVE  UNCHANGED <<lender, status, owner>>
  BY <1>5 DEF CommitEdit
<1>6. ASSUME NEW s \in Sessions, CommitDiscard(s)
      PROVE  UNCHANGED <<lender, owner>> /\ status'[w] \in {status[w], "gone"}
  BY <1>0, <1>6 DEF CommitDiscard, TypeOK
<1>7. ASSUME NEW s \in Sessions, CommitDelete(s)
      PROVE  /\ status'[w] = "none" => owner'[w] = NoLender
             /\ status'[w] \in Rows =>
                   owner'[w] \in Lenders /\ lender'[owner'[w]] = "present"
  <2>1. /\ owner' = owner
        /\ lender' = [lender EXCEPT ![req[s].lender] = "deleted"]
        /\ status'[w] = IF w \in VersionsOf(req[s].lender) THEN "gone"
                        ELSE status[w]
    BY <1>7 DEF CommitDelete
  <2>2. CASE w \in VersionsOf(req[s].lender)
    BY <2>1, <2>2 DEF Rows
  <2>3. CASE w \notin VersionsOf(req[s].lender)
    <3>1. status'[w] = status[w] /\ owner'[w] = owner[w]
      BY <2>1, <2>3
    <3>2. ASSUME status[w] \in Rows
          PROVE  owner[w] \in Lenders /\ lender'[owner[w]] = "present"
      <4>1. owner[w] # req[s].lender
        BY <2>3, <3>2 DEF VersionsOf
      <4>2. owner[w] \in Lenders /\ lender[owner[w]] = "present"
        BY <1>0, <3>2 DEF RowsOwned
      <4> QED BY <1>0, <2>1, <4>1, <4>2 DEF TypeOK
    <3> QED BY <1>0, <3>1, <3>2 DEF RowsOwned
  <2> QED BY <2>2, <2>3
<1>8. ASSUME NEW s \in Sessions,
             CommitPublish(s) \/ CommitEdit(s) \/ CommitDiscard(s)
      PROVE  /\ status'[w] = "none" => owner'[w] = NoLender
             /\ status'[w] \in Rows =>
                   owner'[w] \in Lenders /\ lender'[owner'[w]] = "present"
  BY <1>0, <1>4, <1>5, <1>6, <1>8 DEF RowsOwned, Rows
<1> QED BY <1>1, <1>2, <1>3, <1>7, <1>8, TableSteps DEF Write

-----------------------------------------------------------------------------
(* Requests.  With one operator a session's request meets no other write. *)

\* How the request of a session changes: it ends, it goes on while the session
\* writes nothing, or the session reads.
LEMMA RequestSteps ==
    ASSUME TypeOK, [Next]_vars, NEW s \in Sessions
    PROVE  \/ req'[s] = req[s] /\ ~Write(s)
           \/ req'[s] = IdleRequest
           \/ Read(s)
<1>1. ASSUME NEW t \in Sessions, Write(t) \/ Rollback(t)
      PROVE  req'[t] = IdleRequest /\ (t # s => req'[s] = req[s])
  <2>1. Answered(t)
    BY <1>1 DEF Write, Rollback, InsertDraft, CommitPublish, CommitEdit,
                CommitDiscard, CommitDelete
  <2> QED BY <2>1 DEF Answered, TypeOK
<1>2. ASSUME NEW t \in Sessions, Read(t), t # s PROVE req'[s] = req[s]
  BY <1>2 DEF Read, LoadLender, LoadVersions, LoadDraft, ReadNumber,
              ReadSiblings, Accept, TypeOK
<1>3. ASSUME \/ \E l \in Lenders : CreateLender(l)
             \/ \E e \in Evaluators : Evaluator(e)
             \/ UNCHANGED vars
      PROVE  req' = req
  BY <1>3 DEF CreateLender, Evaluator, Select, Evaluate, Record, GiveUp, Step,
              vars
<1> QED BY <1>1, <1>2, <1>3 DEF Next

\* A request that goes on has seen no other handler write; only a lender may
\* have been created.
LEMMA NothingWritten ==
    ASSUME OneOperator, TypeOK, [Next]_vars, NEW s \in Sessions, ~Write(s)
    PROVE  UNCHANGED Table \/ \E l \in Lenders : CreateLender(l)
<1>1. \A t \in Sessions : ~Write(t)
  <2> TAKE t \in Sessions
  <2>1. t = s
    BY DEF OneOperator
  <2> QED BY <2>1
<1> QED BY <1>1, TableSteps

\* What reading does to a request.
LEMMA ReadEffect ==
    ASSUME Undisturbed, NEW s \in Sessions, Read(s)
    PROVE  /\ UNCHANGED Table
           /\ \/ req'[s].op = "delete" /\ req'[s].lender \in Lenders
              \/ \E l \in Lenders :
                     /\ lender[l] = "present"
                     /\ req'[s].op = "draft" /\ req'[s].lender = l
                     /\ StartsWith(l, req'[s].content)
              \/ /\ req'[s].op \in {"publish", "edit", "discard"}
                 /\ req'[s].version \in Versions
                 /\ status[req'[s].version] = "draft"
                 /\ req'[s].op = "publish" => content[req'[s].version] # Empty
              \/ /\ req[s].op = "draft" /\ req'[s].op = "insert"
                 /\ req'[s].lender = req[s].lender
                 /\ req'[s].content = req[s].content
                 /\ \A w \in VersionsOf(req[s].lender) :
                       number[w] < req'[s].number
              \/ /\ req[s].op = "publish" /\ req'[s].op = "archive"
                 /\ req'[s].lender = req[s].lender
                 /\ req'[s].version = req[s].version
                 /\ With(req[s].lender, "published")
                       = {req'[s].seen} \ {NoVersion}
<1>0. TypeOK /\ OneOfEach /\ WritingIsCurrent /\ RequestsOwn
      /\ RequestsRefer
  BY UndisturbedParts DEF Parts
<1>00. req[s] \in Request
  BY <1>0 DEF TypeOK
<1>1. ASSUME NEW op, NEW l, NEW v, NEW p, NEW c, Accept(s, op, l, v, p, c)
      PROVE  /\ UNCHANGED Table
             /\ req'[s] = [op |-> op, lender |-> l, version |-> v, seen |-> p,
                           number |-> 0, content |-> c]
  BY <1>0, <1>1 DEF Accept, TypeOK, Table
<1>2. ASSUME NEW l \in Lenders, LoadLender(s, l)
      PROVE  /\ UNCHANGED Table
             /\ req'[s].op = "delete" /\ req'[s].lender = l
  <2>1. Accept(s, "delete", l, NoVersion, NoVersion, Empty)
    BY <1>2 DEF LoadLender
  <2>2. /\ UNCHANGED Table
        /\ req'[s] = [op |-> "delete", lender |-> l, version |-> NoVersion,
                      seen |-> NoVersion, number |-> 0, content |-> Empty]
    BY <1>1, <2>1
  <2> QED BY <2>2
<1>3. ASSUME NEW l \in Lenders, NEW held \in Versions \cup {NoVersion},
             held \notin With(l, "published"), NEW p \in PublishedOr(l, held)
      PROVE  With(l, "published") = {p} \ {NoVersion}
  <2>1. With(l, "published") \ {held} = With(l, "published")
    BY <1>3
  <2>2. CASE With(l, "published") = {}
    BY <1>3, <2>1, <2>2 DEF PublishedOr
  <2>3. CASE With(l, "published") # {}
    <3>1. p \in With(l, "published")
      BY <1>3, <2>1, <2>3 DEF PublishedOr
    <3>2. \A q \in With(l, "published") : q = p
      BY <1>0, <3>1 DEF OneOfEach
    <3>3. p # NoVersion
      BY <3>1, PolicyAssumption DEF With, VersionsOf
    <3> QED BY <3>1, <3>2, <3>3
  <2> QED BY <2>2, <2>3
<1>4. ASSUME NEW l \in Lenders, LoadVersions(s, l)
      PROVE  /\ UNCHANGED Table
             /\ lender[l] = "present"
             /\ req'[s].op = "draft" /\ req'[s].lender = l
             /\ StartsWith(l, req'[s].content)
  <2>1. PICK p \in PublishedOr(l, NoVersion) :
           Accept(s, "draft", l, NoVersion, p,
                  IF p = NoVersion THEN Empty ELSE content[p])
    BY <1>4 DEF LoadVersions
  <2>2. /\ UNCHANGED Table
        /\ req'[s] = [op |-> "draft", lender |-> l, version |-> NoVersion,
                      seen |-> p, number |-> 0,
                      content |-> IF p = NoVersion THEN Empty ELSE content[p]]
    BY <1>1, <2>1
  <2>3. NoVersion \notin With(l, "published")
    BY PolicyAssumption DEF With, VersionsOf
  <2>4. With(l, "published") = {p} \ {NoVersion}
    BY <1>3, <2>3
  <2> QED BY <1>4, <2>2, <2>4 DEF StartsWith, LoadVersions
<1>5. ASSUME NEW v \in Versions, NEW op \in {"publish", "edit", "discard"},
             LoadDraft(s, v, op)
      PROVE  /\ UNCHANGED Table
             /\ req'[s].op = op /\ req'[s].version = v /\ status[v] = "draft"
             /\ op = "publish" => content[v] # Empty
  <2>1. Accept(s, op, owner[v], v, NoVersion, Empty)
    BY <1>5 DEF LoadDraft
  <2>2. /\ UNCHANGED Table
        /\ req'[s] = [op |-> op, lender |-> owner[v], version |-> v,
                      seen |-> NoVersion, number |-> 0, content |-> Empty]
    BY <1>1, <2>1
  <2> QED BY <1>5, <2>2 DEF LoadDraft
<1>6. ASSUME ReadNumber(s)
      PROVE  /\ UNCHANGED Table
             /\ req[s].op = "draft" /\ req'[s].op = "insert"
             /\ req'[s].lender = req[s].lender
             /\ req'[s].content = req[s].content
             /\ \A w \in VersionsOf(req[s].lender) : number[w] < req'[s].number
  <2>1. PICK n \in Highest(req[s].lender) :
           req' = [req EXCEPT ![s].op = "insert", ![s].number = n + 1]
    BY <1>6 DEF ReadNumber
  <2>2. /\ req'[s].op = "insert" /\ req'[s].lender = req[s].lender
        /\ req'[s].content = req[s].content /\ req'[s].number = n + 1
    BY <1>0, <1>00, <2>1 DEF TypeOK, Request
  <2>3. n \in Nat /\ \A w \in VersionsOf(req[s].lender) : number[w] <= n
    BY <1>0 DEF Highest, Numbers, VersionsOf, TypeOK
  <2>4. \A w \in VersionsOf(req[s].lender) : number[w] \in Nat
    BY <1>0 DEF VersionsOf, TypeOK
  <2>5. \A w \in VersionsOf(req[s].lender) : number[w] < n + 1
    BY <2>3, <2>4
  <2> QED BY <1>6, <2>2, <2>5 DEF ReadNumber, Table
<1>7. ASSUME ReadSiblings(s)
      PROVE  /\ UNCHANGED Table
             /\ req[s].op = "publish" /\ req'[s].op = "archive"
             /\ req'[s].lender = req[s].lender
             /\ req'[s].version = req[s].version
             /\ With(req[s].lender, "published") = {req'[s].seen} \ {NoVersion}
  <2>1. PICK p \in PublishedOr(req[s].lender, req[s].version) :
           req' = [req EXCEPT ![s].op = "archive", ![s].seen = p]
    BY <1>7 DEF ReadSiblings
  <2>2. /\ req'[s].op = "archive" /\ req'[s].lender = req[s].lender
        /\ req'[s].version = req[s].version /\ req'[s].seen = p
    BY <1>0, <1>00, <2>1 DEF TypeOK, Request
  <2>3. /\ req[s].op = "publish" /\ req[s].version \in Versions
        /\ status[req[s].version] = "draft"
        /\ owner[req[s].version] = req[s].lender
    BY <1>0, <1>7 DEF ReadSiblings, WritingIsCurrent, RequestsRefer, Acting
  <2>4. req[s].version \notin With(req[s].lender, "published")
    BY <2>3 DEF With
  <2>5. req[s].lender \in Lenders
    BY <2>3, UndisturbedParts DEF Parts, RowsOwned, Rows
  <2>6. With(req[s].lender, "published") = {p} \ {NoVersion}
    BY <1>3, <2>3, <2>4, <2>5
  <2> QED BY <1>7, <2>2, <2>6 DEF ReadSiblings, Table
<1>8. CASE \E l \in Lenders : LoadLender(s, l)
  BY <1>2, <1>8
<1>9. CASE \E l \in Lenders : LoadVersions(s, l)
  <2>1. PICK l \in Lenders : LoadVersions(s, l)
    BY <1>9
  <2> QED BY <1>4, <2>1
<1>10. CASE \E v \in Versions, op \in {"publish", "edit", "discard"} :
               LoadDraft(s, v, op)
  BY <1>5, <1>10
<1> QED BY <1>6, <1>7, <1>8, <1>9, <1>10 DEF Read

\* What the creation of a lender leaves of one that exists.
LEMMA CreationElsewhere ==
    ASSUME TypeOK, NEW l \in Lenders, CreateLender(l), NEW m \in Lenders,
           lender[m] # "absent"
    PROVE  /\ lender'[m] = lender[m]
           /\ VersionsOf(m)' = VersionsOf(m)
           /\ With(m, "published")' = With(m, "published")
           /\ \A w \in VersionsOf(m) :
                 /\ status'[w] = status[w] /\ number'[w] = number[w]
                 /\ content'[w] = content[w]
<1>1. PICK v \in Versions : InsertVersion(l, v, 1, Empty)
  BY DEF CreateLender
<1>2. m # l /\ lender'[m] = lender[m]
  BY DEF CreateLender, TypeOK
<1> QED BY <1>1, <1>2, InsertElsewhere

LEMMA RequestsOwnPreserved ==
    ASSUME Undisturbed, [Next]_vars PROVE RequestsOwn'
<1>0. TypeOK /\ RequestsOwn
  BY UndisturbedParts DEF Parts
<1> SUFFICES ASSUME NEW s \in Sessions,
                    req'[s].op \in {"draft", "insert", "delete"}
             PROVE  req'[s].lender \in Lenders
  BY DEF RequestsOwn
<1>1. CASE req'[s] = req[s]
  BY <1>0, <1>1 DEF RequestsOwn
<1>2. CASE req'[s] = IdleRequest
  BY <1>2 DEF IdleRequest
<1>3. CASE Read(s)
  BY <1>0, <1>3, ReadEffect DEF RequestsOwn
<1> QED BY <1>0, <1>1, <1>2, <1>3, RequestSteps

LEMMA DraftingPreserved ==
    ASSUME OneOperator, Undisturbed, [Next]_vars PROVE DraftingIsCurrent'
<1>0. TypeOK /\ RequestsOwn /\ DraftingIsCurrent
  BY UndisturbedParts DEF Parts
<1> DEFINE Goal(s) ==
      /\ req[s].op \in {"draft", "insert"} =>
            /\ lender[req[s].lender] = "present"
            /\ StartsWith(req[s].lender, req[s].content)
      /\ req[s].op = "insert" =>
            \A w \in VersionsOf(req[s].lender) : number[w] < req[s].number
<1> SUFFICES ASSUME NEW s \in Sessions PROVE Goal(s)'
  BY DEF DraftingIsCurrent
<1>1. Goal(s)
  BY <1>0 DEF DraftingIsCurrent
<1>2. CASE req'[s] = IdleRequest
  BY <1>2 DEF IdleRequest
<1>3. CASE Read(s)
  <2>1. UNCHANGED Table
    BY <1>3, ReadEffect
  <2>2. CASE req'[s].op \notin {"draft", "insert"}
    BY <2>2
  <2>3. CASE req'[s].op = "draft"
    <3>1. PICK l \in Lenders :
             /\ lender[l] = "present" /\ req'[s].lender = l
             /\ StartsWith(l, req'[s].content)
      BY <1>3, <2>3, ReadEffect
    <3> QED BY <2>1, <2>3, <3>1 DEF Table, StartsWith, With, VersionsOf
  <2>4. CASE req'[s].op = "insert"
    <3>1. /\ req[s].op = "draft"
          /\ req'[s].lender = req[s].lender
          /\ req'[s].content = req[s].content
          /\ \A w \in VersionsOf(req[s].lender) : number[w] < req'[s].number
      BY <1>3, <2>4, ReadEffect
    <3> QED BY <1>1, <2>1, <2>4, <3>1 DEF Table, StartsWith, With, VersionsOf
  <2> QED BY <2>2, <2>3, <2>4
<1>4. CASE req'[s] = req[s] /\ ~Write(s)
  <2>1. CASE UNCHANGED Table
    BY <1>1, <1>4, <2>1 DEF Table, StartsWith, With, VersionsOf
  <2>2. ASSUME NEW l \in Lenders, CreateLender(l),
               req[s].op \in {"draft", "insert"}
        PROVE  Goal(s)'
    <3>1. PICK m \in Lenders : m = req[s].lender /\ lender[m] = "present"
      BY <1>0, <1>1, <2>2 DEF RequestsOwn
    <3>3. /\ lender'[m] = "present"
          /\ VersionsOf(m)' = VersionsOf(m)
          /\ With(m, "published")' = With(m, "published")
          /\ \A w \in VersionsOf(m) :
                number'[w] = number[w] /\ content'[w] = content[w]
      BY <1>0, <2>2, <3>1, CreationElsewhere
    <3>4. StartsWith(m, req[s].content)'
      BY <1>1, <1>4, <2>2, <3>1, <3>3 DEF StartsWith, With
    <3> QED BY <1>1, <1>4, <2>2, <3>1, <3>3, <3>4
  <2>3. CASE req[s].op \notin {"draft", "insert"}
    BY <1>4, <2>3
  <2> QED BY <1>0, <1>4, <2>1, <2>2, <2>3, NothingWritten
<1> QED BY <1>0, <1>2, <1>3, <1>4, RequestSteps

LEMMA WritingPreserved ==
    ASSUME OneOperator, Undisturbed, [Next]_vars PROVE WritingIsCurrent'
<1>0. TypeOK /\ RequestsRefer /\ RowsOwned /\ WritingIsCurrent
  BY UndisturbedParts DEF Parts
<1> DEFINE Goal(s) ==
      /\ req[s].op \in Acting => status[req[s].version] = "draft"
      /\ req[s].op \in {"publish", "archive"} =>
            content[req[s].version] # Empty
      /\ req[s].op = "archive" =>
            With(req[s].lender, "published") = {req[s].seen} \ {NoVersion}
<1> SUFFICES ASSUME NEW s \in Sessions PROVE Goal(s)'
  BY DEF WritingIsCurrent
<1>1. Goal(s)
  BY <1>0 DEF WritingIsCurrent
<1>2. CASE req'[s] = IdleRequest
  BY <1>2 DEF IdleRequest, Acting
<1>3. CASE Read(s)
  <2>1. UNCHANGED Table
    BY <1>3, ReadEffect
  <2>2. CASE req'[s].op \notin Acting
    BY <2>2 DEF Acting
  <2>3. CASE req'[s].op \in Acting \ {"archive"}
    <3>1. /\ status[req'[s].version] = "draft"
          /\ req'[s].op = "publish" => content[req'[s].version] # Empty
      BY <1>3, <2>3, ReadEffect DEF Acting
    <3> QED BY <2>1, <2>3, <3>1 DEF Table
  <2>4. CASE req'[s].op = "archive"
    <3>1. /\ req[s].op = "publish" /\ req'[s].lender = req[s].lender
          /\ req'[s].version = req[s].version
          /\ With(req[s].lender, "published") = {req'[s].seen} \ {NoVersion}
      BY <1>3, <2>4, ReadEffect
    <3> QED BY <1>1, <2>1, <2>4, <3>1 DEF Table, With, VersionsOf, Acting
  <2> QED BY <2>2, <2>3, <2>4
<1>4. CASE req'[s] = req[s] /\ ~Write(s)
  <2>1. CASE UNCHANGED Table
    BY <1>1, <1>4, <2>1 DEF Table, With, VersionsOf
  <2>2. ASSUME NEW l \in Lenders, CreateLender(l), req[s].op \in Acting
        PROVE  Goal(s)'
    <3>1. /\ req[s].version \in Versions
          /\ owner[req[s].version] = req[s].lender
          /\ status[req[s].version] = "draft"
      BY <1>0, <1>1, <2>2 DEF RequestsRefer
    <3>2. PICK m \in Lenders : m = req[s].lender /\ lender[m] = "present"
      BY <1>0, <3>1 DEF RowsOwned, Rows
    <3>3. req[s].version \in VersionsOf(m)
      BY <3>1, <3>2 DEF VersionsOf, Rows
    <3>4. /\ With(m, "published")' = With(m, "published")
          /\ status'[req[s].version] = status[req[s].version]
          /\ content'[req[s].version] = content[req[s].version]
      BY <1>0, <2>2, <3>2, <3>3, CreationElsewhere
    <3> QED BY <1>1, <1>4, <2>2, <3>1, <3>2, <3>4
  <2>3. CASE req[s].op \notin Acting
    BY <1>4, <2>3 DEF Acting
  <2> QED BY <1>0, <1>4, <2>1, <2>2, <2>3, NothingWritten
<1> QED BY <1>0, <1>2, <1>3, <1>4, RequestSteps

-----------------------------------------------------------------------------
(* Contents and numbers. *)

\* What a publish commits: the draft is published, and exactly what was
\* published before is archived.
LEMMA PublishRows ==
    ASSUME Undisturbed, NEW s \in Sessions, CommitPublish(s)
    PROVE  \E v \in Versions, l \in Lenders :
              /\ v = req[s].version /\ l = owner[v]
              /\ status[v] = "draft" /\ content[v] # Empty
              /\ UNCHANGED <<lender, owner, number, content, results, eval>>
              /\ status' = [w \in Versions |->
                              CASE w = v -> "published"
                                [] w \in With(l, "published") -> "archived"
                                [] OTHER -> status[w]]
<1> DEFINE v == req[s].version
           l == req[s].lender
           p == req[s].seen
<1>0. RequestsRefer /\ RowsOwned /\ WritingIsCurrent
  BY UndisturbedParts DEF Parts
<1>1. v \in Versions /\ l = owner[v] /\ status[v] = "draft"
      /\ content[v] # Empty
  BY <1>0 DEF CommitPublish, RequestsRefer, WritingIsCurrent, Acting
<1>2. l \in Lenders
  BY <1>0, <1>1 DEF RowsOwned, Rows
<1>3. With(l, "published") = {p} \ {NoVersion}
  BY <1>0 DEF CommitPublish, WritingIsCurrent
<1>4. \A w \in Versions : w = p <=> w \in With(l, "published")
  BY <1>3, PolicyAssumption
<1>5. status' = [w \in Versions |-> CASE w = v -> "published"
                                      [] w = p -> "archived"
                                      [] OTHER -> status[w]]
  BY DEF CommitPublish
<1>6. status' = [w \in Versions |->
                   CASE w = v -> "published"
                     [] w \in With(l, "published") -> "archived"
                     [] OTHER -> status[w]]
  <2> HIDE DEF v, l, p
  <2> QED BY <1>4, <1>5
<1>7. UNCHANGED <<lender, owner, number, content, results, eval>>
  BY DEF CommitPublish
<1> QED BY <1>1, <1>2, <1>6, <1>7

\* What has been published keeps its content.
LEMMA ContentFrozen ==
    ASSUME Undisturbed, [Next]_vars, NEW v \in Versions,
           status[v] \in {"published", "archived", "gone"}
    PROVE  content'[v] = content[v]
<1>0. TypeOK /\ WritingIsCurrent
  BY UndisturbedParts DEF Parts
<1>1. CASE UNCHANGED Table
  BY <1>1 DEF Table
<1>2. ASSUME NEW l, NEW u \in Versions, NEW n, NEW c, InsertVersion(l, u, n, c)
      PROVE  content'[v] = content[v]
  BY <1>0, <1>2, InsertRows
<1>3. ASSUME NEW l \in Lenders, CreateLender(l) PROVE content'[v] = content[v]
  BY <1>2, <1>3 DEF CreateLender
<1>4. ASSUME NEW s \in Sessions, InsertDraft(s) PROVE content'[v] = content[v]
  BY <1>2, <1>4 DEF InsertDraft
<1>5. ASSUME NEW s \in Sessions, CommitEdit(s) PROVE content'[v] = content[v]
  <2>1. status[req[s].version] = "draft"
    BY <1>0, <1>5 DEF CommitEdit, WritingIsCurrent, Acting
  <2> QED BY <1>0, <1>5, <2>1 DEF CommitEdit, TypeOK
<1>6. ASSUME NEW s \in Sessions,
             CommitPublish(s) \/ CommitDiscard(s) \/ CommitDelete(s)
      PROVE  content' = content
  BY <1>6 DEF CommitPublish, CommitDiscard, CommitDelete
<1> QED BY <1>1, <1>3, <1>4, <1>5, <1>6, TableSteps DEF Write

\* How an evaluation and the results change.
LEMMA EvaluationSteps ==
    ASSUME TypeOK, EvaluationsRefer, [Next]_vars
    PROVE  /\ \A e \in Evaluators :
                 eval'[e].step = "evaluated" =>
                     \/ eval'[e] = eval[e]
                     \/ /\ eval'[e].content = content[eval'[e].version]
                        /\ UNCHANGED content
           /\ \/ UNCHANGED results
              \/ \E e \in Evaluators : Record(e)
<1>1. ASSUME NEW e \in Evaluators, eval'[e].step = "evaluated"
      PROVE  \/ eval'[e] = eval[e]
             \/ /\ eval'[e].content = content[eval'[e].version]
                /\ UNCHANGED content
  <2>1. ASSUME NEW d \in Evaluators, Evaluator(d), d # e
        PROVE  eval'[e] = eval[e]
    BY <2>1 DEF Evaluator, Select, Evaluate, Record, GiveUp, Step, TypeOK
  <2>2. CASE Evaluator(e)
    <3>1. ASSUME NEW v \in Versions, Select(e, v) PROVE FALSE
      BY <1>1, <3>1 DEF Select, Step, TypeOK
    <3>2. CASE Evaluate(e)
      BY <3>2 DEF Evaluate, Step, TypeOK
    <3>3. CASE Record(e) \/ GiveUp(e)
      BY <1>1, <3>3 DEF Record, GiveUp, Step, TypeOK, IdleEvaluation
    <3> QED BY <2>2, <3>1, <3>2, <3>3 DEF Evaluator
  <2>3. CASE ~\E d \in Evaluators : Evaluator(d)
    <3>1. ASSUME NEW s \in Sessions, Read(s) \/ Write(s) \/ Rollback(s)
          PROVE  eval' = eval
      BY <3>1 DEF Read, Write, Rollback, LoadLender, LoadVersions, LoadDraft,
                  ReadNumber, ReadSiblings, Accept, InsertDraft, CommitPublish,
                  CommitEdit, CommitDiscard, CommitDelete
    <3> QED BY <2>3, <3>1 DEF Next, CreateLender, vars
  <2> QED BY <2>1, <2>2, <2>3
<1>2. ASSUME ~\E e \in Evaluators : Record(e) PROVE UNCHANGED results
  <2>1. ASSUME NEW s \in Sessions, Read(s) \/ Write(s) \/ Rollback(s)
        PROVE  results' = results
    BY <2>1 DEF Read, Write, Rollback, LoadLender, LoadVersions, LoadDraft,
                ReadNumber, ReadSiblings, Accept, InsertDraft, CommitPublish,
                CommitEdit, CommitDiscard, CommitDelete
  <2>2. ASSUME NEW e \in Evaluators, Evaluator(e) PROVE results' = results
    BY <1>2, <2>2 DEF Evaluator, Select, Evaluate, GiveUp
  <2> QED BY <2>1, <2>2 DEF Next, CreateLender, vars
<1> QED BY <1>1, <1>2

LEMMA EvaluationsHoldPreserved ==
    ASSUME Undisturbed, [Next]_vars PROVE EvaluationsHold'
<1>0. TypeOK /\ EvaluationsRefer /\ EvaluationsHold
  BY UndisturbedParts DEF Parts
<1> SUFFICES ASSUME NEW e \in Evaluators, eval'[e].step = "evaluated"
             PROVE  eval'[e].content = content'[eval'[e].version]
  BY DEF EvaluationsHold
<1>1. CASE eval'[e] = eval[e]
  <2>1. /\ eval[e].version \in Versions
        /\ status[eval[e].version] \in {"published", "archived", "gone"}
        /\ eval[e].content = content[eval[e].version]
    BY <1>0, <1>1 DEF EvaluationsRefer, EvaluationsHold
  <2> QED BY <1>1, <2>1, ContentFrozen
<1>2. CASE /\ eval'[e].content = content[eval'[e].version]
           /\ UNCHANGED content
  BY <1>2
<1> QED BY <1>0, <1>1, <1>2, EvaluationSteps

LEMMA HistoryPreserved ==
    ASSUME Undisturbed, [Next]_vars PROVE HistoryIsKept'
<1>0. TypeOK /\ EvaluationsRefer /\ EvaluationsHold /\ HistoryIsKept
      /\ ResultsPointAtPublished
  BY UndisturbedParts DEF Parts
<1>1. ASSUME NEW r \in results PROVE content'[r.version] = r.content
  <2>1. /\ r.version \in Versions /\ content[r.version] = r.content
        /\ status[r.version] \in {"published", "archived"}
    BY <1>0 DEF TypeOK, Result, HistoryIsKept, ResultsPointAtPublished
  <2> QED BY <2>1, ContentFrozen
<1>2. ASSUME NEW e \in Evaluators, Record(e), NEW r \in results', r \notin results
      PROVE  content'[r.version] = r.content
  <2>1. /\ r = [version |-> eval[e].version, content |-> eval[e].content]
        /\ UNCHANGED content /\ eval[e].step = "evaluated"
    BY <1>2 DEF Record, Step
  <2> QED BY <1>0, <2>1 DEF EvaluationsHold
<1> QED BY <1>0, <1>1, <1>2, EvaluationSteps DEF HistoryIsKept

\* The newest of a lender's versions, after a row has been inserted.
LEMMA InsertNewest ==
    ASSUME Undisturbed, NEW l \in Lenders, NEW v \in Versions, NEW n, NEW c,
           InsertVersion(l, v, n, c), \A w \in VersionsOf(l) : number[w] < n
    PROVE  DraftIsNewest' /\ PublishedIsNewest'
<1>0. TypeOK /\ DraftIsNewest /\ PublishedIsNewest
  BY UndisturbedParts DEF Parts
<1>1. \A m \in Lenders : Inserted(l, v, n, m)
  BY <1>0, InsertEffect
<1>2. ASSUME NEW m \in Lenders, NEW u \in VersionsOf(m)', status'[u] = "draft",
             NEW w \in VersionsOf(m)', w # u
      PROVE  number'[w] < number'[u]
  <2>1. CASE m # l
    BY <1>0, <1>1, <1>2, <2>1 DEF Inserted, DraftIsNewest, With
  <2>2. CASE m = l
    <3>1. u = v /\ w \in VersionsOf(l)
      BY <1>1, <1>2, <2>2 DEF Inserted
    <3> QED BY <1>1, <2>2, <3>1 DEF Inserted
  <2> QED BY <2>1, <2>2
<1>3. ASSUME NEW m \in Lenders, NEW u \in VersionsOf(m)',
             status'[u] = "published",
             NEW w \in VersionsOf(m)', status'[w] = "archived"
      PROVE  number'[w] < number'[u]
  <2>1. u \in VersionsOf(m) /\ w \in VersionsOf(m)
    BY <1>1, <1>3 DEF Inserted
  <2> QED BY <1>0, <1>1, <1>3, <2>1 DEF Inserted, PublishedIsNewest, With
<1> QED BY <1>2, <1>3 DEF DraftIsNewest, PublishedIsNewest, With

LEMMA NewestPreserved ==
    ASSUME Undisturbed, [Next]_vars
    PROVE  DraftIsNewest' /\ PublishedIsNewest'
<1>0. TypeOK /\ RequestsRefer /\ RowsOwned /\ RequestsOwn /\ DraftingIsCurrent
      /\ DraftIsNewest /\ PublishedIsNewest
  BY UndisturbedParts DEF Parts
<1>1. CASE UNCHANGED <<lender, status, owner, number>>
  BY <1>0, <1>1 DEF DraftIsNewest, PublishedIsNewest, With, VersionsOf
<1>2. ASSUME NEW l \in Lenders, CreateLender(l)
      PROVE  DraftIsNewest' /\ PublishedIsNewest'
  <2>1. PICK v \in Versions : InsertVersion(l, v, 1, Empty)
    BY <1>2 DEF CreateLender
  <2>2. VersionsOf(l) = {}
    BY <1>0, <1>2, NewLenderIsEmpty DEF CreateLender
  <2> QED BY <2>1, <2>2, InsertNewest
<1>3. ASSUME NEW s \in Sessions, InsertDraft(s)
      PROVE  DraftIsNewest' /\ PublishedIsNewest'
  <2>1. PICK v \in Versions :
           InsertVersion(req[s].lender, v, req[s].number, req[s].content)
    BY <1>3 DEF InsertDraft
  <2>2. PICK l \in Lenders : l = req[s].lender
    BY <1>0, <1>3 DEF InsertDraft, RequestsOwn
  <2>3. \A w \in VersionsOf(l) : number[w] < req[s].number
    BY <1>0, <1>3, <2>2 DEF InsertDraft, DraftingIsCurrent
  <2>4. PICK n, c : n = req[s].number /\ c = req[s].content
    OBVIOUS
  <2>5. InsertVersion(l, v, n, c)
    BY <2>1, <2>2, <2>4
  <2> QED BY <2>3, <2>4, <2>5, InsertNewest
<1>4. ASSUME NEW s \in Sessions, CommitPublish(s)
      PROVE  DraftIsNewest' /\ PublishedIsNewest'
  <2>1. PICK v \in Versions, l \in Lenders :
           /\ l = owner[v]
           /\ status[v] = "draft"
           /\ UNCHANGED <<owner, number>>
           /\ status' = [w \in Versions |->
                           CASE w = v -> "published"
                             [] w \in With(l, "published") -> "archived"
                             [] OTHER -> status[w]]
    BY <1>4, PublishRows
  <2>2. \A m \in Lenders : VersionsOf(m)' = VersionsOf(m)
    BY <1>0, <1>4, PublishEffect
  <2>3. v \in With(l, "draft")
    BY <2>1 DEF With, VersionsOf, Rows
  <2>4. ASSUME NEW m \in Lenders, NEW u \in VersionsOf(m),
               status'[u] = "draft", NEW w \in VersionsOf(m), w # u
        PROVE  number[w] < number[u]
    <3>1. status[u] = "draft"
      BY <2>1, <2>4 DEF VersionsOf
    <3> QED BY <1>0, <2>4, <3>1 DEF DraftIsNewest, With
  <2>5. ASSUME NEW m \in Lenders, NEW u \in VersionsOf(m),
               status'[u] = "published",
               NEW w \in VersionsOf(m), status'[w] = "archived"
        PROVE  number[w] < number[u]
    <3>1. CASE m = l
      <4>1. u \in Versions /\ owner[u] = l
        BY <3>1 DEF VersionsOf
      <4>2. status'[u] = CASE u = v -> "published"
                           [] u \in With(l, "published") -> "archived"
                           [] OTHER -> status[u]
        BY <2>1, <4>1
      <4>3. u # v => status'[u] = IF u \in With(l, "published")
                                  THEN "archived" ELSE status[u]
        BY <4>2
      <4>4. u = v
        BY <2>5, <3>1, <4>3 DEF With
      <4>5. w # v
        BY <2>5, <4>4
      <4> QED BY <1>0, <2>3, <3>1, <4>4, <4>5 DEF DraftIsNewest
    <3>2. CASE m # l
      <4>1. \A x \in VersionsOf(m) : x # v /\ x \notin With(l, "published")
        BY <2>1, <3>2 DEF VersionsOf, With
      <4>2. \A x \in VersionsOf(m) : status'[x] = status[x]
        BY <2>1, <4>1 DEF VersionsOf
      <4> QED BY <1>0, <2>5, <4>2 DEF PublishedIsNewest, With
    <3> QED BY <3>1, <3>2
  <2> QED BY <2>1, <2>2, <2>4, <2>5 DEF DraftIsNewest, PublishedIsNewest, With
<1>5. ASSUME NEW s \in Sessions, CommitDiscard(s) \/ CommitDelete(s)
      PROVE  DraftIsNewest' /\ PublishedIsNewest'
  <2>1. /\ UNCHANGED number
        /\ \A w \in Versions : status'[w] \in {status[w], "gone"}
    BY <1>0, <1>5 DEF CommitDiscard, CommitDelete, TypeOK
  <2>2. \A m \in Lenders : VersionsOf(m)' \subseteq VersionsOf(m)
    BY <1>0, <1>5, RemovalEffect
  <2>3. ASSUME NEW m \in Lenders, NEW st \in {"draft", "published", "archived"}
        PROVE  With(m, st)' \subseteq With(m, st)
    BY <2>1, <2>2 DEF With, VersionsOf
  <2> QED BY <1>0, <2>1, <2>2, <2>3 DEF DraftIsNewest, PublishedIsNewest
<1> QED BY QuietOrWrites, <1>1, <1>2, <1>3, <1>4, <1>5

LEMMA InitUndisturbed == Init => Undisturbed
<1> SUFFICES ASSUME Init PROVE Undisturbed
  OBVIOUS
<1>1. IInv
  BY InitIInv
<1>2. \A l \in Lenders : VersionsOf(l) = {}
  BY DEF Init, VersionsOf, Rows
<1>3. RowsOwned
  BY DEF Init, RowsOwned, Rows
<1>4. /\ \A s \in Sessions : req[s].op = "idle"
      /\ \A e \in Evaluators : eval[e].step = "idle"
      /\ results = {}
  BY DEF Init, IdleRequest, IdleEvaluation
<1>5. RequestsOwn /\ DraftingIsCurrent /\ WritingIsCurrent
  BY <1>4 DEF RequestsOwn, DraftingIsCurrent, WritingIsCurrent, Acting
<1>6. EvaluationsHold /\ HistoryIsKept
  BY <1>4 DEF EvaluationsHold, HistoryIsKept
<1>7. DraftIsNewest /\ PublishedIsNewest
  BY <1>2 DEF DraftIsNewest, PublishedIsNewest, With
<1> QED BY <1>1, <1>3, <1>5, <1>6, <1>7 DEF Undisturbed

LEMMA NextUndisturbed ==
    ASSUME OneOperator PROVE Undisturbed /\ [Next]_vars => Undisturbed'
<1> SUFFICES ASSUME Undisturbed, [Next]_vars PROVE Undisturbed'
  OBVIOUS
<1>1. IInv'
  BY NextIInv DEF Undisturbed
<1>2. RowsOwned' /\ RequestsOwn'
  BY RowsOwnedPreserved, RequestsOwnPreserved
<1>3. DraftingIsCurrent' /\ WritingIsCurrent'
  BY DraftingPreserved, WritingPreserved
<1>4. EvaluationsHold' /\ HistoryIsKept'
  BY EvaluationsHoldPreserved, HistoryPreserved
<1>5. DraftIsNewest' /\ PublishedIsNewest'
  BY NewestPreserved
<1> QED BY <1>1, <1>2, <1>3, <1>4, <1>5 DEF Undisturbed

-----------------------------------------------------------------------------
(* What one operator can rely on. *)

\* While one operator works, nothing that a handler or an evaluation has read
\* has changed when it writes, and the versions of a lender are in order.
THEOREM UndisturbedHolds ==
    ASSUME OneOperator PROVE Spec => []Undisturbed
<1>1. Init => Undisturbed
  BY InitUndisturbed
<1>2. Undisturbed /\ [Next]_vars => Undisturbed'
  BY NextUndisturbed
<1> QED BY <1>1, <1>2, PTL DEF Spec

\* A result holds what its version says, however publishing and editing fall
\* between the three transactions of an evaluation.
THEOREM HistoryIsKeptHolds ==
    ASSUME OneOperator PROVE Spec => []HistoryIsKept
<1>1. Undisturbed => HistoryIsKept
  BY DEF Undisturbed
<1>2. Spec => []Undisturbed
  BY UndisturbedHolds
<1> QED BY <1>1, <1>2, PTL

\* The published version is newer than every archived one, although numbers of
\* discarded drafts are given out again.
THEOREM PublishedIsNewestHolds ==
    ASSUME OneOperator PROVE Spec => []PublishedIsNewest
<1>1. Undisturbed => PublishedIsNewest
  BY DEF Undisturbed
<1>2. Spec => []Undisturbed
  BY UndisturbedHolds
<1> QED BY <1>1, <1>2, PTL

-----------------------------------------------------------------------------
(* The refinement of PolicyVersions, step by step. *)

LEMMA OfIsWith ==
    \A l \in Lenders : /\ Abstract!Of(l, "draft") = With(l, "draft")
                       /\ Abstract!Of(l, "published") = With(l, "published")
BY DEF Abstract!Of, With, VersionsOf, Rows

LEMMA InsertIsDraft ==
    ASSUME NEW l \in Lenders, NEW v \in Versions, NEW n, NEW c,
           InsertVersion(l, v, n, c), StartsWith(l, c), UNCHANGED results
    PROVE  Abstract!Draft(l, v)
<1>1. c \in Abstract!Basis(l)
  <2>1. CASE With(l, "published") = {}
    BY <2>1, OfIsWith DEF StartsWith, Abstract!Basis
  <2>2. CASE With(l, "published") # {}
    <3>1. PICK p \in With(l, "published") : c = content[p]
      BY <2>2 DEF StartsWith
    <3> QED BY <2>2, <3>1, OfIsWith DEF Abstract!Basis
  <2> QED BY <2>1, <2>2
<1> QED BY <1>1, OfIsWith DEF InsertVersion, Abstract!Draft

LEMMA CreationRefines ==
    ASSUME Undisturbed, NEW l \in Lenders, CreateLender(l)
    PROVE  \E v \in Versions : Abstract!Draft(l, v)
<1>1. PICK v \in Versions : InsertVersion(l, v, 1, Empty)
  BY DEF CreateLender
<1>2. VersionsOf(l) = {}
  BY UndisturbedParts, NewLenderIsEmpty DEF CreateLender, Parts
<1>3. StartsWith(l, Empty) /\ UNCHANGED results
  BY <1>2 DEF StartsWith, With, CreateLender
<1> QED BY <1>1, <1>3, InsertIsDraft

LEMMA InsertRefines ==
    ASSUME Undisturbed, NEW s \in Sessions, InsertDraft(s)
    PROVE  \E l \in Lenders, v \in Versions : Abstract!Draft(l, v)
<1>1. PICK v \in Versions :
         InsertVersion(req[s].lender, v, req[s].number, req[s].content)
  BY DEF InsertDraft
<1>2. PICK l, n, c :
         l = req[s].lender /\ n = req[s].number /\ c = req[s].content
  OBVIOUS
<1>3. l \in Lenders /\ StartsWith(l, c) /\ UNCHANGED results
  BY <1>2, UndisturbedParts
     DEF InsertDraft, Parts, RequestsOwn, DraftingIsCurrent
<1>4. InsertVersion(l, v, n, c)
  BY <1>1, <1>2
<1> QED BY <1>3, <1>4, InsertIsDraft

LEMMA PublishRefines ==
    ASSUME Undisturbed, NEW s \in Sessions, CommitPublish(s)
    PROVE  \E v \in Versions : Abstract!Publish(v)
<1>1. PICK v \in Versions, l \in Lenders :
         /\ l = owner[v]
         /\ status[v] = "draft" /\ content[v] # Empty
         /\ UNCHANGED <<owner, content, results>>
         /\ status' = [w \in Versions |->
                         CASE w = v -> "published"
                           [] w \in With(l, "published") -> "archived"
                           [] OTHER -> status[w]]
  BY PublishRows
<1>2. Abstract!Of(owner[v], "published") = With(l, "published")
  BY <1>1, OfIsWith
<1> QED BY <1>1, <1>2 DEF Abstract!Publish

LEMMA EditRefines ==
    ASSUME Undisturbed, NEW s \in Sessions, CommitEdit(s)
    PROVE  \E v \in Versions : Abstract!Edit(v)
<1>1. req[s].version \in Versions /\ status[req[s].version] = "draft"
  BY UndisturbedParts
     DEF CommitEdit, Parts, RequestsRefer, WritingIsCurrent, Acting
<1>2. PICK v \in Versions : v = req[s].version
  BY <1>1
<1> QED BY <1>1, <1>2 DEF CommitEdit, Abstract!Edit

LEMMA DiscardRefines ==
    ASSUME Undisturbed, NEW s \in Sessions, CommitDiscard(s)
    PROVE  \E v \in Versions : status[v] = "draft" /\ Abstract!Remove({v})
<1>1. req[s].version \in Versions /\ status[req[s].version] = "draft"
  BY UndisturbedParts
     DEF CommitDiscard, Parts, RequestsRefer, WritingIsCurrent, Acting
<1>2. PICK v \in Versions : v = req[s].version
  BY <1>1
<1>3. status' = [w \in Versions |-> IF w \in {v} THEN "gone" ELSE status[w]]
  BY <1>2, UndisturbedParts DEF CommitDiscard, Parts, TypeOK
<1> QED BY <1>1, <1>2, <1>3 DEF CommitDiscard, Used, Abstract!Remove

LEMMA DeleteRefines ==
    ASSUME Undisturbed, NEW s \in Sessions, CommitDelete(s)
    PROVE  \E l \in Lenders :
              Abstract!Remove({v \in Versions :
                                  owner[v] = l /\ status[v] # "gone"})
<1>1. PICK l \in Lenders : l = req[s].lender
  BY UndisturbedParts DEF CommitDelete, Parts, RequestsOwn
<1>2. {v \in Versions : owner[v] = l /\ status[v] # "gone"} = VersionsOf(l)
  <2>1. ASSUME NEW v \in Versions, owner[v] = l, status[v] # "gone"
        PROVE  status[v] \in Rows
    <3>1. status[v] # "none"
      BY <2>1, PolicyAssumption, UndisturbedParts DEF Parts, RowsOwned
    <3> QED BY <2>1, <3>1, UndisturbedParts DEF Parts, TypeOK, Status, Rows
  <2> QED BY <2>1 DEF VersionsOf, Rows
<1>3. /\ \A r \in results : r.version \notin VersionsOf(l)
      /\ status' = [v \in Versions |->
                      IF v \in VersionsOf(l) THEN "gone" ELSE status[v]]
      /\ UNCHANGED <<owner, content, results>>
  BY <1>1 DEF CommitDelete, Used
<1> QED BY <1>2, <1>3 DEF Abstract!Remove

LEMMA RecordRefines ==
    ASSUME Undisturbed, NEW e \in Evaluators, Record(e)
    PROVE  \E v \in Versions : Abstract!Record(v)
<1>1. /\ eval[e].version \in Versions
      /\ status[eval[e].version] \in {"published", "archived"}
      /\ eval[e].content = content[eval[e].version]
  BY UndisturbedParts
     DEF Record, Parts, EvaluationsRefer, EvaluationsHold, Rows
<1>2. PICK v \in Versions : v = eval[e].version
  BY <1>1
<1> QED BY <1>1, <1>2 DEF Record, Step, Abstract!Record

\* Every step is a step of the abstract lifecycle or leaves it alone.
LEMMA StepRefines ==
    ASSUME Undisturbed, [Next]_vars
    PROVE  [Abstract!Next]_(Abstract!vars)
<1>1. CASE \E l \in Lenders : CreateLender(l)
  BY <1>1, CreationRefines DEF Abstract!Next
<1>2. ASSUME NEW s \in Sessions, Write(s) PROVE Abstract!Next
  <2>1. CASE InsertDraft(s)
    BY <2>1, InsertRefines DEF Abstract!Next
  <2>2. CASE CommitPublish(s)
    BY <2>2, PublishRefines DEF Abstract!Next
  <2>3. CASE CommitEdit(s)
    BY <2>3, EditRefines DEF Abstract!Next
  <2>4. CASE CommitDiscard(s)
    BY <2>4, DiscardRefines DEF Abstract!Next
  <2>5. CASE CommitDelete(s)
    BY <2>5, DeleteRefines DEF Abstract!Next
  <2> QED BY <1>2, <2>1, <2>2, <2>3, <2>4, <2>5 DEF Write
<1>3. ASSUME NEW s \in Sessions, Read(s) \/ Rollback(s)
      PROVE  UNCHANGED Abstract!vars
  BY <1>3 DEF Read, Rollback, LoadLender, LoadVersions, LoadDraft, ReadNumber,
              ReadSiblings, Accept, Abstract!vars
<1>4. ASSUME NEW e \in Evaluators, Evaluator(e)
      PROVE  [Abstract!Next]_(Abstract!vars)
  <2>1. CASE Record(e)
    BY <2>1, RecordRefines DEF Abstract!Next
  <2>2. CASE ~Record(e)
    BY <1>4, <2>2 DEF Evaluator, Select, Evaluate, GiveUp, Step, Abstract!vars
  <2> QED BY <2>1, <2>2
<1>5. CASE UNCHANGED vars
  BY <1>5 DEF vars, Abstract!vars
<1> QED BY <1>1, <1>2, <1>3, <1>4, <1>5 DEF Next

\* While one operator works, the handlers of api/lenders.py and the three
\* transactions of an evaluation implement the atomic lifecycle: a draft starts
\* from what is published, is frozen by publishing, which archives exactly its
\* predecessor, and results say what their version says.
THEOREM PolicyRefines ==
    ASSUME OneOperator PROVE Spec => ImplementsPolicyVersions
<1>1. Init => Abstract!Init
  BY DEF Init, Abstract!Init
<1>2. Undisturbed /\ [Next]_vars => [Abstract!Next]_(Abstract!vars)
  BY StepRefines
<1>3. Spec => []Undisturbed
  BY UndisturbedHolds
<1> QED BY <1>1, <1>2, <1>3, PTL DEF Spec, ImplementsPolicyVersions,
                                    Abstract!Spec

\* While one operator works, an archived version stays archived until its
\* lender is deleted (services/policies.py: "draft -> published -> archived").
THEOREM ForwardOnlyHolds ==
    ASSUME OneOperator PROVE Spec => ForwardOnly
<1>1. ASSUME Undisturbed, [Next]_vars, NEW v \in Versions,
             status[v] = "archived"
      PROVE  status'[v] \in {"archived", "gone"}
  <2>0. TypeOK /\ OneOfEach
    BY <1>1, UndisturbedParts DEF Parts
  <2>1. CASE UNCHANGED <<lender, status, owner, number>>
    BY <1>1, <2>1
  <2>2. ASSUME NEW l, NEW u \in Versions, NEW n, NEW c,
               InsertVersion(l, u, n, c)
        PROVE  status'[v] = "archived"
    BY <1>1, <2>0, <2>2, InsertRows
  <2>3. ASSUME NEW l \in Lenders, CreateLender(l)
        PROVE  status'[v] = "archived"
    BY <2>2, <2>3 DEF CreateLender
  <2>4. ASSUME NEW s \in Sessions, InsertDraft(s)
        PROVE  status'[v] = "archived"
    BY <2>2, <2>4 DEF InsertDraft
  <2>5. ASSUME NEW s \in Sessions, CommitPublish(s)
        PROVE  status'[v] = "archived"
    <3>1. PICK u \in Versions, l \in Lenders :
             /\ status[u] = "draft"
             /\ status' = [w \in Versions |->
                             CASE w = u -> "published"
                               [] w \in With(l, "published") -> "archived"
                               [] OTHER -> status[w]]
      BY <1>1, <2>5, PublishRows
    <3>2. v # u /\ v \notin With(l, "published")
      BY <1>1, <3>1 DEF With
    <3> QED BY <1>1, <3>1, <3>2
  <2>6. ASSUME NEW s \in Sessions, CommitDiscard(s) \/ CommitDelete(s)
        PROVE  status'[v] \in {"archived", "gone"}
    BY <1>1, <2>0, <2>6 DEF CommitDiscard, CommitDelete, TypeOK
  <2> QED BY <1>1, QuietOrWrites, <2>1, <2>3, <2>4, <2>5, <2>6
<1>2. Undisturbed /\ [Next]_vars =>
        [\A v \in Versions : status[v] = "archived" =>
                                status'[v] \in {"archived", "gone"}]_vars
  BY <1>1
<1>3. Spec => []Undisturbed
  BY UndisturbedHolds
<1> QED BY <1>2, <1>3, PTL DEF Spec, ForwardOnly

\* While one operator works, a new draft has the content of what is published,
\* although create_draft copies it before it reads the highest number and
\* inserts (services/policies.py: "clones the published version").
THEOREM DraftStartsHolds ==
    ASSUME OneOperator PROVE Spec => DraftStartsFromPublished
<1>1. ASSUME Undisturbed, [Next]_vars, NEW v \in Versions,
             status[v] = "none", status'[v] = "draft",
             NEW p \in With(owner'[v], "published")
      PROVE  content'[v] = content[p]
  <2>0. TypeOK
    BY <1>1, UndisturbedParts DEF Parts
  <2>1. CASE UNCHANGED <<lender, status, owner, number>>
    BY <1>1, <2>1
  <2>2. ASSUME NEW l, NEW u \in Versions, NEW n, NEW c,
               InsertVersion(l, u, n, c), StartsWith(l, c)
        PROVE  content'[v] = content[p]
    <3>1. v = u
      BY <1>1, <2>0, <2>2, InsertRows
    <3>2. owner'[v] = l /\ content'[v] = c
      BY <2>0, <2>2, <3>1, InsertRows
    <3> QED BY <1>1, <2>2, <3>2 DEF StartsWith
  <2>3. ASSUME NEW l \in Lenders, CreateLender(l)
        PROVE  content'[v] = content[p]
    <3>1. PICK u \in Versions : InsertVersion(l, u, 1, Empty)
      BY <2>3 DEF CreateLender
    <3>2. VersionsOf(l) = {}
      BY <1>1, <2>3, UndisturbedParts, NewLenderIsEmpty
         DEF CreateLender, Parts
    <3>3. StartsWith(l, Empty)
      BY <3>2 DEF StartsWith, With
    <3> QED BY <2>2, <3>1, <3>3
  <2>4. ASSUME NEW s \in Sessions, InsertDraft(s)
        PROVE  content'[v] = content[p]
    <3>1. PICK u \in Versions :
             InsertVersion(req[s].lender, u, req[s].number, req[s].content)
      BY <2>4 DEF InsertDraft
    <3>2. StartsWith(req[s].lender, req[s].content)
      BY <1>1, <2>4, UndisturbedParts
         DEF InsertDraft, Parts, DraftingIsCurrent
    <3>3. PICK l, n, c :
             l = req[s].lender /\ n = req[s].number /\ c = req[s].content
      OBVIOUS
    <3>4. InsertVersion(l, u, n, c) /\ StartsWith(l, c)
      BY <3>1, <3>2, <3>3
    <3> QED BY <2>2, <3>4
  <2>5. ASSUME NEW s \in Sessions, CommitPublish(s) PROVE FALSE
    BY <1>1, <2>5, PublishRows
  <2>6. ASSUME NEW s \in Sessions, CommitDiscard(s) \/ CommitDelete(s)
        PROVE  FALSE
    BY <1>1, <2>0, <2>6 DEF CommitDiscard, CommitDelete, TypeOK
  <2> QED BY <1>1, QuietOrWrites, <2>1, <2>3, <2>4, <2>5, <2>6
<1>2. Undisturbed /\ [Next]_vars =>
        [\A v \in Versions :
            status[v] = "none" /\ status'[v] = "draft" =>
                \A p \in With(owner'[v], "published") :
                    content'[v] = content[p]]_vars
  BY <1>1
<1>3. Spec => []Undisturbed
  BY UndisturbedHolds
<1> QED BY <1>2, <1>3, PTL DEF Spec, DraftStartsFromPublished
=============================================================================

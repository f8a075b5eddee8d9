---------------------------- MODULE MatchingProofs ----------------------------
(* Theorems about Matching, and the lemmas they rest on. *)
EXTENDS Matching, FiniteSetTheorems, WellFoundedInduction, TLAPS

\* What the schema and the validation grant of a policy.
Stored(policy) ==
    \A p \in policy.programs :
        /\ p # None /\ IsFiniteSet(p.rules)
        /\ p.rank \in 1..MaxRank
        /\ p.decision_mode \in {"automatic", "manual_review"}
        /\ \A q \in policy.programs : p.rank = q.rank => p = q

\* A set of naturals has a least member.
LEMMA LeastExists ==
    ASSUME NEW S, S \subseteq Nat, S # {}
    PROVE  \E x \in S : \A y \in S : x <= y
<1>1. PICK x \in S : \A y \in S : ~ (<<y, x>> \in OpToRel(<, Nat))
  BY NatLessThanWellFounded, WFMin
<1>2. \A y \in S : ~ (y < x)
  BY <1>1 DEF OpToRel
<1> QED BY <1>2

-----------------------------------------------------------------------------
(* Outcomes *)

LEMMA OutcomeType ==
    ASSUME NEW rule, NEW f
    PROVE  Outcome(rule, f) \in {"passed", "failed", "missing", "skipped"}
<1>1. \A b : Passed(b) \in {"passed", "failed"}
  BY DEF Passed
<1>2. \A c, a : TestOne(c, a) \in {"passed", "failed", "missing"}
  BY <1>1 DEF TestOne
<1>3. \A c, items : TestEquipment(c, items) \in {"passed", "failed", "missing"}
  BY <1>1, <1>2 DEF TestEquipment
<1>4. \A c, d : Test(c, d, f) \in {"passed", "failed", "missing"}
  BY <1>2, <1>3 DEF Test
<1> QED BY <1>4 DEF Outcome

LEMMA WorstOutcome ==
    ASSUME NEW rules, NEW f
    PROVE  /\ "failed" \in Worst(rules, f) <=> HardFailures(rules, f) # {}
           /\ "missing" \in Worst(rules, f) <=> HardMissing(rules, f) # {}
           /\ Worst(rules, f) \subseteq {"passed", "skipped"} <=>
                 HardFailures(rules, f) = {} /\ HardMissing(rules, f) = {}
<1>1. "failed" \in Worst(rules, f) <=> HardFailures(rules, f) # {}
  BY DEF Worst, HardFailures, With
<1>2. "missing" \in Worst(rules, f) <=> HardMissing(rules, f) # {}
  BY DEF Worst, HardMissing, With
<1>3. Worst(rules, f) \subseteq {"passed", "failed", "missing", "skipped"}
  BY OutcomeType DEF Worst
<1> QED BY <1>1, <1>2, <1>3

-----------------------------------------------------------------------------
(* The program that decides *)

\* FirstOf picks the one program with the least rank.
LEMMA FirstIsBest ==
    ASSUME NEW policy, Stored(policy), NEW S, S \subseteq policy.programs
    PROVE  /\ S = {} => FirstOf(S) = None
           /\ S # {} => /\ FirstOf(S) \in S
                        /\ FirstOf(S) # None
                        /\ \A q \in S : FirstOf(S).rank <= q.rank
                        /\ {p \in S : \A q \in S : p.rank <= q.rank} = {FirstOf(S)}
                        /\ {p \in policy.programs : p.rank = FirstOf(S).rank}
                             = {FirstOf(S)}
<1>1. CASE S = {}
  BY <1>1 DEF FirstOf
<1>2. CASE S # {}
  <2> DEFINE ranks == {p.rank : p \in S}
  <2>1. \A p \in S : p.rank \in Nat
    BY DEF Stored
  <2>2. ranks \subseteq Nat /\ ranks # {}
    BY <1>2, <2>1
  <2>3. PICK n \in ranks : \A m \in ranks : n <= m
    <3> HIDE DEF ranks
    <3> QED BY <2>2, LeastExists
  <2>4. PICK p \in S : p.rank = n
    BY <2>3
  <2>5. \A q \in S : p.rank <= q.rank
    BY <2>3, <2>4
  <2>6. FirstOf(S) = CHOOSE x \in S : \A q \in S : x.rank <= q.rank
    BY <1>2 DEF FirstOf
  <2>7. FirstOf(S) \in S /\ \A q \in S : FirstOf(S).rank <= q.rank
    BY <2>4, <2>5, <2>6
  <2>8. \A x \in S : (\A q \in S : x.rank <= q.rank) => x = FirstOf(S)
    <3> SUFFICES ASSUME NEW x \in S, \A q \in S : x.rank <= q.rank
                 PROVE  x = FirstOf(S)
      OBVIOUS
    <3>1. x.rank = FirstOf(S).rank
      BY <2>1, <2>7
    <3> QED BY <3>1, <2>7 DEF Stored
  <2>9. \A x \in policy.programs : x.rank = FirstOf(S).rank => x = FirstOf(S)
    BY <2>7 DEF Stored
  <2>10. FirstOf(S) # None
    BY <2>7 DEF Stored
  <2> HIDE DEF ranks
  <2> QED BY <1>2, <2>7, <2>8, <2>9, <2>10
<1> QED BY <1>1, <1>2

LEMMA DecidedPrograms ==
    ASSUME NEW policy, NEW f, Stored(policy)
    PROVE  /\ Decided(policy, f, "eligible") = Clearing(policy, f, "automatic")
           /\ Decided(policy, f, "manual_review") = Clearing(policy, f, "manual_review")
           /\ Clearing(policy, f, "automatic") \cup Clearing(policy, f, "manual_review") = {}
                => Decided(policy, f, "needs_information") = Open(policy, f)
<1>1. ASSUME NEW p \in policy.programs
      PROVE  /\ p.decision_mode \in {"automatic", "manual_review"}
             /\ "failed" \in Worst(p.rules, f) <=> HardFailures(p.rules, f) # {}
             /\ Worst(p.rules, f) \subseteq {"passed", "skipped"} <=>
                  HardFailures(p.rules, f) = {} /\ HardMissing(p.rules, f) = {}
  BY WorstOutcome DEF Stored
<1>2. ASSUME NEW p \in policy.programs
      PROVE  /\ ProgramDecision(p, f) = "eligible" <=>
                  /\ Worst(p.rules, f) \subseteq {"passed", "skipped"}
                  /\ p.decision_mode = "automatic"
             /\ ProgramDecision(p, f) = "manual_review" <=>
                  /\ Worst(p.rules, f) \subseteq {"passed", "skipped"}
                  /\ p.decision_mode = "manual_review"
             /\ ProgramDecision(p, f) = "needs_information" <=>
                  /\ "failed" \notin Worst(p.rules, f)
                  /\ ~ Worst(p.rules, f) \subseteq {"passed", "skipped"}
  BY <1>1 DEF ProgramDecision
<1>3. \A p \in policy.programs :
         Worst(p.rules, f) \subseteq {"passed", "skipped"} => "failed" \notin Worst(p.rules, f)
  BY <1>1
<1>4. Decided(policy, f, "eligible") = Clearing(policy, f, "automatic")
  BY <1>2, <1>3 DEF Decided, Applicable, Clearing, Open
<1>5. Decided(policy, f, "manual_review") = Clearing(policy, f, "manual_review")
  BY <1>2, <1>3 DEF Decided, Applicable, Clearing, Open
<1>6. ASSUME Clearing(policy, f, "automatic") \cup Clearing(policy, f, "manual_review") = {}
      PROVE  Decided(policy, f, "needs_information") = Open(policy, f)
  <2>1. \A p \in Open(policy, f) : ~ Worst(p.rules, f) \subseteq {"passed", "skipped"}
    BY <1>1, <1>6 DEF Clearing, Open
  <2> QED BY <1>2, <2>1 DEF Decided, Applicable, Open
<1> QED BY <1>4, <1>5, <1>6

\* The rank of the program of a decision, and the programs that have it.
MatchedRank(policy, f) ==
    IF Matched(policy, f) = None THEN None ELSE Matched(policy, f).rank
MatchedBy(policy, f) == {p \in policy.programs : p.rank = MatchedRank(policy, f)}

\* The decision of evaluate_lender in terms of the programs open to the applicant.
LEMMA LenderDecides ==
    ASSUME NEW policy, NEW f, Stored(policy), None \notin Nat
    PROVE  LET automatic == Clearing(policy, f, "automatic")
               manual == Clearing(policy, f, "manual_review")
               decided(d, S) == /\ LenderDecision(policy, f) = d
                                /\ MatchedBy(policy, f) = Best(S)
           IN  /\ "failed" \in Worst(policy.rules, f) => decided("ineligible", {})
               /\ "failed" \notin Worst(policy.rules, f) =>
                    /\ automatic # {} => decided("eligible", automatic)
                    /\ automatic = {} /\ manual # {} => decided("manual_review", manual)
                    /\ automatic \cup manual = {} =>
                         decided(IF Open(policy, f) # {}
                                    \/ "missing" \in Worst(policy.rules, f)
                                 THEN "needs_information" ELSE "ineligible",
                                 Open(policy, f))
<1> DEFINE automatic == Clearing(policy, f, "automatic")
           manual == Clearing(policy, f, "manual_review")
           open == Open(policy, f)
<1>1. /\ automatic \subseteq policy.programs
      /\ manual \subseteq policy.programs
      /\ open \subseteq policy.programs
  BY DEF Clearing, Open
<1>2. /\ "failed" \in Worst(policy.rules, f) <=> HardFailures(policy.rules, f) # {}
      /\ "missing" \in Worst(policy.rules, f) <=> HardMissing(policy.rules, f) # {}
  BY WorstOutcome
<1>3. \A p \in policy.programs : p.rank # None /\ p # None
  BY DEF Stored
<1>4. Matched(policy, f) = None => MatchedBy(policy, f) = {}
  BY <1>3 DEF MatchedBy, MatchedRank
<1>5. Best({}) = {}
  BY DEF Best
<1>6. ASSUME NEW S, S \subseteq policy.programs, S # {}, Matched(policy, f) = FirstOf(S)
      PROVE  /\ MatchedBy(policy, f) = Best(S)
             /\ Matched(policy, f) \in S
             /\ Matched(policy, f) # None
  <2>1. /\ FirstOf(S) \in S
        /\ FirstOf(S) # None
        /\ {p \in S : \A q \in S : p.rank <= q.rank} = {FirstOf(S)}
        /\ {p \in policy.programs : p.rank = FirstOf(S).rank} = {FirstOf(S)}
    BY <1>6, FirstIsBest
  <2> QED BY <1>6, <2>1 DEF MatchedBy, MatchedRank, Best
<1>7. CASE "failed" \in Worst(policy.rules, f)
  <2>1. Matched(policy, f) = None /\ LenderDecision(policy, f) = "ineligible"
    BY <1>2, <1>7 DEF Matched, LenderDecision
  <2> QED BY <1>4, <1>5, <1>7, <2>1
<1>8. CASE "failed" \notin Worst(policy.rules, f)
  <2>1. HardFailures(policy.rules, f) = {}
    BY <1>2, <1>8
  <2>2. /\ Decided(policy, f, "eligible") = automatic
        /\ Decided(policy, f, "manual_review") = manual
        /\ automatic \cup manual = {} => Decided(policy, f, "needs_information") = open
    BY DecidedPrograms
  <2>3. /\ FirstOf({}) = None
        /\ automatic # {} => FirstOf(automatic) # None
        /\ manual # {} => FirstOf(manual) # None
        /\ open # {} => FirstOf(open) # None
    BY <1>1, FirstIsBest
  <2> HIDE DEF automatic, manual, open
  <2>4. ASSUME automatic # {}
        PROVE  /\ LenderDecision(policy, f) = "eligible"
               /\ MatchedBy(policy, f) = Best(automatic)
    <3>1. Matched(policy, f) = FirstOf(automatic)
      BY <2>1, <2>2, <2>3, <2>4 DEF Matched
    <3>2. Matched(policy, f) \in automatic /\ Matched(policy, f) # None
      BY <1>1, <1>6, <2>4, <3>1
    <3>3. ProgramDecision(Matched(policy, f), f) = "eligible"
      BY <2>2, <3>2 DEF Decided
    <3> QED BY <1>1, <1>6, <2>1, <2>4, <3>1, <3>2, <3>3 DEF LenderDecision
  <2>5. ASSUME automatic = {}, manual # {}
        PROVE  /\ LenderDecision(policy, f) = "manual_review"
               /\ MatchedBy(policy, f) = Best(manual)
    <3>1. Matched(policy, f) = FirstOf(manual)
      BY <2>1, <2>2, <2>3, <2>5 DEF Matched
    <3>2. Matched(policy, f) \in manual /\ Matched(policy, f) # None
      BY <1>1, <1>6, <2>5, <3>1
    <3>3. ProgramDecision(Matched(policy, f), f) = "manual_review"
      BY <2>2, <3>2 DEF Decided
    <3> QED BY <1>1, <1>6, <2>1, <2>5, <3>1, <3>2, <3>3 DEF LenderDecision
  <2>6. ASSUME automatic \cup manual = {}
        PROVE  /\ LenderDecision(policy, f) =
                     IF open # {} \/ "missing" \in Worst(policy.rules, f)
                     THEN "needs_information" ELSE "ineligible"
               /\ MatchedBy(policy, f) = Best(open)
    <3>1. Matched(policy, f) = FirstOf(open)
      <4>1. automatic = {} /\ manual = {}
        BY <2>6
      <4> QED BY <2>1, <2>2, <2>3, <2>6, <4>1 DEF Matched
    <3>2. CASE open = {}
      <4>1. Matched(policy, f) = None
        BY <2>3, <3>1, <3>2
      <4> QED BY <1>2, <1>4, <1>5, <2>1, <3>2, <4>1 DEF LenderDecision
    <3>3. CASE open # {}
      <4>1. Matched(policy, f) \in open /\ Matched(policy, f) # None
        BY <1>1, <1>6, <3>1, <3>3
      <4>2. ProgramDecision(Matched(policy, f), f) = "needs_information"
        BY <2>2, <2>6, <4>1 DEF Decided
      <4> QED BY <1>1, <1>6, <2>1, <3>1, <3>3, <4>1, <4>2 DEF LenderDecision
    <3> QED BY <3>2, <3>3
  <2> QED BY <1>8, <2>4, <2>5, <2>6 DEF automatic, manual, open
<1> QED BY <1>7, <1>8

-----------------------------------------------------------------------------
(* The program a decline is explained by *)

LEMMA MaxRankType == MaxRank \in Nat
BY SMT DEF MaxRank

LEMMA CountOfRules ==
    ASSUME NEW rules, IsFiniteSet(rules), NEW f
    PROVE  /\ Cardinality(HardFailures(rules, f)) \in Nat
           /\ Cardinality(HardMissing(rules, f)) \in Nat
<1>1. HardFailures(rules, f) \subseteq rules /\ HardMissing(rules, f) \subseteq rules
  BY DEF HardFailures, HardMissing, With, Hard
<1> QED BY <1>1, FS_Subset, FS_CardinalityType

\* The measures that Closer compares.
Failures(p, f) == Cardinality(HardFailures(p.rules, f))
Gaps(p, f) == Cardinality(HardMissing(p.rules, f))
Behind(p) == MaxRank - p.rank

\* Among programs there is one that is closer than, or as close as, all others.
LEMMA ClosestExists ==
    ASSUME NEW policy, Stored(policy), NEW f,
           NEW S, S \subseteq policy.programs, S # {}
    PROVE  \E p \in S : \A q \in S : Closer(p, q, f)
<1>1. \A x \in S : Failures(x, f) \in Nat /\ Gaps(x, f) \in Nat
  BY CountOfRules DEF Stored, Failures, Gaps
<1>2. \A x \in S : x.rank \in Nat /\ Behind(x) \in Nat
  BY MaxRankType DEF Stored, Behind
<1>3. \A p, q : Closer(p, q, f) <=>
         \/ Failures(p, f) < Failures(q, f)
         \/ Failures(p, f) = Failures(q, f) /\ Gaps(p, f) < Gaps(q, f)
         \/ Failures(p, f) = Failures(q, f) /\ Gaps(p, f) = Gaps(q, f) /\ p.rank >= q.rank
  BY DEF Closer, Failures, Gaps
<1>4. PICK h \in {Failures(x, f) : x \in S} : \A i \in {Failures(x, f) : x \in S} : h <= i
  <2>1. {Failures(x, f) : x \in S} \subseteq Nat /\ {Failures(x, f) : x \in S} # {}
    BY <1>1
  <2> QED BY <2>1, LeastExists
<1> DEFINE S1 == {x \in S : Failures(x, f) = h}
<1>5. PICK m \in {Gaps(x, f) : x \in S1} : \A i \in {Gaps(x, f) : x \in S1} : m <= i
  <2>1. {Gaps(x, f) : x \in S1} \subseteq Nat /\ {Gaps(x, f) : x \in S1} # {}
    BY <1>1, <1>4
  <2> QED BY <2>1, LeastExists
<1> DEFINE S2 == {x \in S1 : Gaps(x, f) = m}
<1>6. PICK n \in {Behind(x) : x \in S2} : \A i \in {Behind(x) : x \in S2} : n <= i
  <2>1. {Behind(x) : x \in S2} \subseteq Nat /\ {Behind(x) : x \in S2} # {}
    BY <1>2, <1>5
  <2> HIDE DEF S2
  <2> QED BY <2>1, LeastExists
<1>7. PICK p \in S2 : Behind(p) = n
  BY <1>6
<1>8. p \in S /\ Failures(p, f) = h /\ Gaps(p, f) = m
  BY <1>7
<1>9. ASSUME NEW q \in S PROVE Closer(p, q, f)
  <2>1. h <= Failures(q, f) /\ h \in Nat /\ Failures(q, f) \in Nat
    BY <1>1, <1>4
  <2>2. CASE h < Failures(q, f)
    BY <1>3, <1>8, <2>2
  <2>3. CASE h = Failures(q, f)
    <3>1. m <= Gaps(q, f) /\ m \in Nat /\ Gaps(q, f) \in Nat
      BY <1>1, <1>5, <1>8, <2>3
    <3>2. CASE m < Gaps(q, f)
      BY <1>3, <1>8, <2>3, <3>2
    <3>3. CASE m = Gaps(q, f)
      <4>1. q \in S2
        BY <2>3, <3>3
      <4>2. Behind(p) <= Behind(q)
        BY <1>6, <1>7, <4>1
      <4>3. p.rank >= q.rank
        BY <1>2, <1>8, <4>2, MaxRankType DEF Behind
      <4> QED BY <1>3, <1>8, <2>3, <3>3, <4>3
    <3> QED BY <3>1, <3>2, <3>3
  <2> QED BY <2>1, <2>2, <2>3
<1> QED BY <1>8, <1>9

\* The rules whose failure may be given as a reason.
AllRules(policy) == policy.rules \cup UNION {p.rules : p \in policy.programs}

LEMMA DeclineExplained ==
    ASSUME NEW policy, NEW f, Stored(policy), None \notin Nat
    PROVE  /\ LenderDecision(policy, f) = "ineligible" => Reasons(policy, f) # {}
           /\ \A reason \in Reasons(policy, f) \ {"No program applies"} :
                 \E r \in HardFailures(AllRules(policy), f) : r.label = reason
<1> DEFINE applicable == Applicable(policy, f)
           closest == Closest(policy, f)
           restricted == HardFailures(policy.rules, f)
           explained == IF closest = None \/ Matched(policy, f) # None THEN {}
                        ELSE HardFailures(closest.rules, f)
<1>1. Reasons(policy, f) = {r.label : r \in restricted \cup explained}
            \cup (IF applicable = {} THEN {"No program applies"} ELSE {})
  BY DEF Reasons
<1>2. applicable \subseteq policy.programs
  BY DEF Applicable
<1>3. ASSUME Matched(policy, f) = None, applicable # {}
      PROVE  closest \in applicable /\ closest # None
  <2>1. closest = CHOOSE p \in applicable : \A q \in applicable : Closer(p, q, f)
    BY <1>3 DEF Closest
  <2>2. \E p \in applicable : \A q \in applicable : Closer(p, q, f)
    BY <1>2, <1>3, ClosestExists
  <2>3. closest \in applicable
    BY <2>1, <2>2
  <2> QED BY <1>2, <2>3 DEF Stored
<1>4. explained \subseteq HardFailures(AllRules(policy), f)
  <2>1. CASE closest = None \/ Matched(policy, f) # None
    BY <2>1
  <2>2. CASE closest # None /\ Matched(policy, f) = None
    <3>1. applicable # {}
      BY <2>2 DEF Closest
    <3>2. closest \in policy.programs
      BY <1>2, <1>3, <2>2, <3>1
    <3>3. closest.rules \subseteq AllRules(policy)
      BY <3>2 DEF AllRules
    <3> QED BY <2>2, <3>3 DEF HardFailures, With, Hard
  <2> QED BY <2>1, <2>2
<1>5. restricted \subseteq HardFailures(AllRules(policy), f)
  BY DEF HardFailures, With, Hard, AllRules
<1>6. ASSUME LenderDecision(policy, f) = "ineligible", restricted = {}, applicable # {}
      PROVE  explained # {}
  <2>1. "failed" \notin Worst(policy.rules, f)
    BY <1>6, WorstOutcome
  <2>2. /\ Clearing(policy, f, "automatic") \cup Clearing(policy, f, "manual_review") = {}
        /\ Open(policy, f) = {}
        /\ MatchedBy(policy, f) = Best(Open(policy, f))
    BY <1>6, <2>1, LenderDecides
  <2>3. Matched(policy, f) = None
    <3>1. /\ Decided(policy, f, "eligible") = {}
          /\ Decided(policy, f, "manual_review") = {}
          /\ Decided(policy, f, "needs_information") = {}
      BY <2>2, DecidedPrograms
    <3> QED BY <1>6, <3>1 DEF Matched, FirstOf
  <2>4. closest \in applicable /\ closest # None
    BY <1>3, <1>6, <2>3
  <2>5. "failed" \in Worst(closest.rules, f)
    BY <2>2, <2>4 DEF Open, Applicable
  <2>6. HardFailures(closest.rules, f) # {}
    BY <2>5, WorstOutcome
  <2> QED BY <2>3, <2>4, <2>6
<1> HIDE DEF applicable, closest, restricted, explained
<1> QED BY <1>1, <1>4, <1>5, <1>6

-----------------------------------------------------------------------------
(* The rows of a run *)

\* The row of a lender is written once, from the features of the run, and these
\* are fixed before the first row is written.
RowsAreResults ==
    /\ stage = "prepare" => \A l \in Lenders : row[l] = None
    /\ DOMAIN row = Lenders
    /\ \A l \in Lenders :
          \/ row[l] = None
          \/ row[l] = ErrorRow
          \/ /\ row[l].decision = LenderDecision(Policies[l], features)
             /\ row[l].matched = MatchedRank(Policies[l], features)
             /\ row[l].fit_score = FitScore(Policies[l], features)
             /\ row[l].near_miss = NearMiss(Policies[l], features)
             /\ row[l].reasons = Reasons(Policies[l], features)

LEMMA RowsInit == Init => RowsAreResults
BY DEF Init, RowsAreResults

LEMMA RowsNext == RowsAreResults /\ [Next]_vars => RowsAreResults'
<1> SUFFICES ASSUME RowsAreResults, [Next]_vars PROVE RowsAreResults'
  OBVIOUS
<1>1. CASE Prepare
  BY <1>1 DEF RowsAreResults, Prepare
<1>2. ASSUME NEW l \in Lenders, EvaluateLender(l) PROVE RowsAreResults'
  <2>1. /\ stage = "evaluate" /\ stage' = stage /\ features' = features
        /\ row' = [row EXCEPT ![l] = ResultRow(Policies[l])]
    BY <1>2 DEF EvaluateLender
  <2>2. /\ ResultRow(Policies[l]).decision = LenderDecision(Policies[l], features)
        /\ ResultRow(Policies[l]).matched = MatchedRank(Policies[l], features)
        /\ ResultRow(Policies[l]).fit_score = FitScore(Policies[l], features)
        /\ ResultRow(Policies[l]).near_miss = NearMiss(Policies[l], features)
        /\ ResultRow(Policies[l]).reasons = Reasons(Policies[l], features)
    BY DEF ResultRow, MatchedRank
  <2> QED BY <2>1, <2>2 DEF RowsAreResults
<1>3. ASSUME NEW l \in Lenders, EvaluationFails(l) PROVE RowsAreResults'
  <2>1. /\ stage = "evaluate" /\ stage' = stage /\ features' = features
        /\ row' = [row EXCEPT ![l] = ErrorRow]
    BY <1>3 DEF EvaluationFails
  <2> QED BY <2>1 DEF RowsAreResults
<1>4. CASE Persist
  BY <1>4 DEF RowsAreResults, Persist
<1>5. CASE UNCHANGED vars
  BY <1>5 DEF RowsAreResults, vars
<1> QED BY <1>1, <1>2, <1>3, <1>4, <1>5 DEF Next

LEMMA RowOfEvaluated ==
    ASSUME RowsAreResults, NEW l \in Evaluated
    PROVE  /\ row[l].decision = LenderDecision(Policies[l], features)
           /\ row[l].matched = MatchedRank(Policies[l], features)
           /\ row[l].fit_score = FitScore(Policies[l], features)
           /\ row[l].near_miss = NearMiss(Policies[l], features)
           /\ row[l].reasons = Reasons(Policies[l], features)
<1>1. l \in Lenders /\ row[l] # None /\ row[l].decision # "error"
  BY DEF Evaluated
<1>2. ErrorRow.decision = "error"
  BY DEF ErrorRow
<1> QED BY <1>1, <1>2 DEF RowsAreResults

LEMMA RowsJustified == RowsAreResults => DecisionIsJustified
<1> SUFFICES ASSUME RowsAreResults, NEW l \in Evaluated
             PROVE  LET policy == Policies[l]
                        automatic == Clearing(policy, features, "automatic")
                        manual == Clearing(policy, features, "manual_review")
                        restrictions == Worst(policy.rules, features)
                        decided(d, S) == row[l].decision = d /\ Chosen(l) = Best(S)
                    IN  /\ "failed" \in restrictions => decided("ineligible", {})
                        /\ "failed" \notin restrictions =>
                             /\ automatic # {} => decided("eligible", automatic)
                             /\ automatic = {} /\ manual # {} =>
                                  decided("manual_review", manual)
                             /\ automatic \cup manual = {} =>
                                  decided(IF \/ Open(policy, features) # {}
                                             \/ "missing" \in restrictions
                                          THEN "needs_information" ELSE "ineligible",
                                          Open(policy, features))
  BY DEF DecisionIsJustified
<1>1. /\ row[l].decision = LenderDecision(Policies[l], features)
      /\ row[l].matched = MatchedRank(Policies[l], features)
  BY RowOfEvaluated
<1>2. Chosen(l) = MatchedBy(Policies[l], features)
  BY <1>1 DEF Chosen, MatchedBy
<1>3. Stored(Policies[l]) /\ None \notin Nat
  BY PoliciesAssumption, NoneAssumption DEF Stored, Evaluated
<1> QED BY <1>1, <1>2, <1>3, LenderDecides

LEMMA RowsExplained == RowsAreResults => DeclineIsExplained
<1> SUFFICES ASSUME RowsAreResults, NEW l \in Evaluated
             PROVE  LET rules == Policies[l].rules \cup
                                     UNION {p.rules : p \in Policies[l].programs}
                    IN  /\ row[l].decision = "ineligible" => row[l].reasons # {}
                        /\ \A reason \in row[l].reasons \ {"No program applies"} :
                              \E r \in HardFailures(rules, features) : r.label = reason
  BY DEF DeclineIsExplained
<1>1. /\ row[l].decision = LenderDecision(Policies[l], features)
      /\ row[l].reasons = Reasons(Policies[l], features)
  BY RowOfEvaluated
<1>2. Stored(Policies[l]) /\ None \notin Nat
  BY PoliciesAssumption, NoneAssumption DEF Stored, Evaluated
<1> DEFINE all == AllRules(Policies[l])
<1>3. /\ LenderDecision(Policies[l], features) = "ineligible" =>
            Reasons(Policies[l], features) # {}
      /\ \A reason \in Reasons(Policies[l], features) \ {"No program applies"} :
            \E r \in HardFailures(all, features) : r.label = reason
  BY <1>2, DeclineExplained, Zenon
<1>4. all = Policies[l].rules \cup UNION {p.rules : p \in Policies[l].programs}
  BY DEF AllRules
<1> HIDE DEF all
<1> QED BY <1>1, <1>3, <1>4

\* In every run, whatever the policies and the application: the decision and the
\* program of each lender are what the precedence of decisions says.
THEOREM DecisionIsJustifiedHolds == Spec => []DecisionIsJustified
<1>1. Spec => []RowsAreResults
  BY RowsInit, RowsNext, PTL DEF Spec
<1> QED BY <1>1, RowsJustified, PTL

\* In every run, whatever the policies and the application: a decline has a
\* reason, and every reason is a hard rule of the lender that failed.
THEOREM DeclineIsExplainedHolds == Spec => []DeclineIsExplained
<1>1. Spec => []RowsAreResults
  BY RowsInit, RowsNext, PTL DEF Spec
<1> QED BY <1>1, RowsExplained, PTL

-----------------------------------------------------------------------------
(* Finite sets of numbers *)

LEMMA Induction ==
    ASSUME NEW G, 0 \in G, \A n \in Nat : n \in G => n + 1 \in G
    PROVE  \A n \in Nat : n \in G
<1> SUFFICES ASSUME Nat \ G # {} PROVE FALSE
  OBVIOUS
<1>1. PICK n \in Nat \ G : \A m \in Nat \ G : n <= m
  BY LeastExists
<1>2. n # 0 /\ n - 1 \in Nat /\ n - 1 \in G
  BY <1>1
<1> QED BY <1>1, <1>2

\* A set of subsets of S that contains the empty one, and every one that it
\* contains without some member, contains S.
LEMMA FiniteInduction ==
    ASSUME NEW S, IsFiniteSet(S), NEW G, {} \in G,
           \A T \in SUBSET S : \A x \in T : T \ {x} \in G => T \in G
    PROVE  S \in G
<1> DEFINE P == {n \in Nat : \A T \in SUBSET S : Cardinality(T) = n => T \in G}
<1>1. \A T \in SUBSET S : IsFiniteSet(T) /\ Cardinality(T) \in Nat
  BY FS_Subset, FS_CardinalityType
<1>2. 0 \in P
  BY <1>1, FS_EmptySet
<1>3. ASSUME NEW n \in Nat, n \in P PROVE n + 1 \in P
  <2> SUFFICES ASSUME NEW T \in SUBSET S, Cardinality(T) = n + 1 PROVE T \in G
    BY DEF P
  <2>1. PICK x : x \in T
    BY <1>1, FS_EmptySet
  <2>2. Cardinality(T \ {x}) = n
    BY <1>1, <2>1, FS_RemoveElement
  <2>3. T \ {x} \in G
    BY <1>3, <2>2
  <2> QED BY <2>1, <2>3
<1>4. \A n \in Nat : n \in P
  <2> HIDE DEF P
  <2> QED BY <1>2, <1>3, Induction
<1> QED BY <1>1, <1>4

LEMMA MaxOfFinite ==
    ASSUME NEW S, IsFiniteSet(S), S \subseteq Int, S # {}
    PROVE  Max(S) \in S /\ \A y \in S : y <= Max(S)
<1> DEFINE G == {T \in SUBSET S : T # {} => \E m \in T : \A y \in T : m >= y}
<1>1. {} \in G
  OBVIOUS
<1>2. ASSUME NEW T \in SUBSET S, NEW x \in T, T \ {x} \in G PROVE T \in G
  <2>1. CASE T \ {x} = {}
    BY <2>1
  <2>2. CASE T \ {x} # {}
    <3>1. PICK m \in T \ {x} : \A y \in T \ {x} : m >= y
      BY <1>2, <2>2
    <3>2. CASE m >= x
      BY <3>1, <3>2
    <3>3. CASE ~ (m >= x)
      BY <3>1, <3>3
    <3> QED BY <3>2, <3>3
  <2> QED BY <2>1, <2>2
<1>3. S \in G
  <2> HIDE DEF G
  <2> QED BY <1>1, <1>2, FiniteInduction
<1>4. \E m \in S : \A y \in S : m >= y
  BY <1>3
<1> QED BY <1>4 DEF Max

LEMMA MinOfFinite ==
    ASSUME NEW S, IsFiniteSet(S), S \subseteq Int, S # {}
    PROVE  Min(S) \in S /\ \A y \in S : Min(S) <= y
<1> DEFINE G == {T \in SUBSET S : T # {} => \E m \in T : \A y \in T : m <= y}
<1>1. {} \in G
  OBVIOUS
<1>2. ASSUME NEW T \in SUBSET S, NEW x \in T, T \ {x} \in G PROVE T \in G
  <2>1. CASE T \ {x} = {}
    BY <2>1
  <2>2. CASE T \ {x} # {}
    <3>1. PICK m \in T \ {x} : \A y \in T \ {x} : m <= y
      BY <1>2, <2>2
    <3>2. CASE m <= x
      BY <3>1, <3>2
    <3>3. CASE ~ (m <= x)
      BY <3>1, <3>3
    <3> QED BY <3>2, <3>3
  <2> QED BY <2>1, <2>2
<1>3. S \in G
  <2> HIDE DEF G
  <2> QED BY <1>1, <1>2, FiniteInduction
<1>4. \E m \in S : \A y \in S : m <= y
  BY <1>3
<1> QED BY <1>4 DEF Min

\* Of two numbers.
LEMMA MaxMinOfTwo ==
    ASSUME NEW a \in Int, NEW b \in Int
    PROVE  /\ Max({a, b}) = IF a >= b THEN a ELSE b
           /\ Min({a, b}) = IF a <= b THEN a ELSE b
<1>1. /\ \E x \in {a, b} : \A y \in {a, b} : x >= y
      /\ \E x \in {a, b} : \A y \in {a, b} : x <= y
  OBVIOUS
<1>2. /\ Max({a, b}) \in {a, b} /\ \A y \in {a, b} : Max({a, b}) >= y
      /\ Min({a, b}) \in {a, b} /\ \A y \in {a, b} : Min({a, b}) <= y
  BY <1>1 DEF Max, Min
<1> QED BY <1>2

-----------------------------------------------------------------------------
(* Sums over finite sets *)

\* The recursion of MapThenSumSet: g gives the sum of v over each subset of S.
Pick(s) == CHOOSE x \in s : TRUE
Step(S, v, g) == [s \in SUBSET S |-> IF s = {} THEN 0 ELSE v[Pick(s)] + g[s \ {Pick(s)}]]
Sums(g, S, v) == g = Step(S, v, g)

LEMMA PickIsMember == \A s : s # {} => Pick(s) \in s
BY DEF Pick

\* What a subset is left with has one member less.
LEMMA PickedLess ==
    ASSUME NEW S, IsFiniteSet(S), NEW s \in SUBSET S, s # {}
    PROVE  /\ s \ {Pick(s)} \in SUBSET S
           /\ Cardinality(s) \in Nat \ {0}
           /\ Cardinality(s \ {Pick(s)}) = Cardinality(s) - 1
<1>1. IsFiniteSet(s) /\ Cardinality(s) \in Nat
  BY FS_Subset, FS_CardinalityType
<1>2. Cardinality(s) # 0
  BY <1>1, FS_EmptySet
<1> QED BY <1>1, <1>2, PickIsMember, FS_RemoveElement

LEMMA SumsExist ==
    ASSUME NEW S, IsFiniteSet(S), NEW v
    PROVE  \E g : Sums(g, S, v)
<1> DEFINE Small(n) == {s \in SUBSET S : Cardinality(s) <= n}
           Value(g, s) == IF s = {} THEN 0 ELSE v[Pick(s)] + g[s \ {Pick(s)}]
           G == {n \in Nat : \E g : /\ DOMAIN g = Small(n)
                                    /\ \A s \in Small(n) : g[s] = Value(g, s)}
<1>1. \A s \in SUBSET S : Cardinality(s) \in Nat /\ (Cardinality(s) = 0 <=> s = {})
  BY FS_Subset, FS_CardinalityType, FS_EmptySet
<1>2. 0 \in G
  <2>1. DOMAIN [s \in Small(0) |-> 0] = Small(0)
    OBVIOUS
  <2>2. \A s \in Small(0) : s = {}
    BY <1>1
  <2>3. \A s \in Small(0) : [t \in Small(0) |-> 0][s] = Value([t \in Small(0) |-> 0], s)
    BY <2>2
  <2> QED BY <2>1, <2>3
<1>3. ASSUME NEW n \in Nat, n \in G PROVE n + 1 \in G
  <2>1. PICK g : DOMAIN g = Small(n) /\ \A s \in Small(n) : g[s] = Value(g, s)
    BY <1>3
  <2> DEFINE h == [s \in Small(n + 1) |-> Value(g, s)]
  <2>2. \A s \in Small(n) : s \in Small(n + 1) /\ h[s] = g[s]
    BY <1>1, <2>1
  <2>3. \A s \in Small(n + 1) : s # {} => s \ {Pick(s)} \in Small(n)
    BY PickedLess
  <2>4. ASSUME NEW s \in Small(n + 1) PROVE h[s] = Value(h, s)
    <3>1. CASE s = {}
      BY <3>1
    <3>2. CASE s # {}
      <4>1. h[s \ {Pick(s)}] = g[s \ {Pick(s)}]
        BY <2>2, <2>3, <3>2
      <4>2. h[s] = v[Pick(s)] + g[s \ {Pick(s)}]
        BY <3>2
      <4> HIDE DEF h
      <4> QED BY <3>2, <4>1, <4>2
    <3> QED BY <3>1, <3>2
  <2>5. DOMAIN h = Small(n + 1)
    OBVIOUS
  <2> HIDE DEF h, Small, Value
  <2> QED BY <2>4, <2>5
<1>4. Cardinality(S) \in G
  <2>1. \A n \in Nat : n \in G
    <3> HIDE DEF G
    <3> QED BY <1>2, <1>3, Induction
  <2> QED BY <2>1, FS_CardinalityType
<1>5. Small(Cardinality(S)) = SUBSET S
  BY FS_Subset
<1>6. PICK g : /\ DOMAIN g = SUBSET S
               /\ \A s \in SUBSET S : g[s] = Value(g, s)
  BY <1>4, <1>5
<1>7. PICK g2 : g2 = [s \in SUBSET S |-> Value(g, s)]
  OBVIOUS
<1>8. \A s \in SUBSET S : g2[s] = g[s]
  BY <1>6, <1>7
<1>9. \A s \in SUBSET S : s \ {Pick(s)} \in SUBSET S
  OBVIOUS
<1>10. \A s \in SUBSET S : Value(g, s) = Value(g2, s)
  BY <1>8, <1>9
<1>11. g2 = [s \in SUBSET S |-> Value(g2, s)]
  BY <1>7, <1>10
<1> QED BY <1>11 DEF Sums, Step

\* There is one such function only.
LEMMA SumsUnique ==
    ASSUME NEW S, IsFiniteSet(S), NEW v, NEW g, NEW h, Sums(g, S, v), Sums(h, S, v)
    PROVE  g[S] = h[S]
<1> DEFINE G == {n \in Nat : \A s \in SUBSET S : Cardinality(s) = n => g[s] = h[s]}
<1>1. \A s \in SUBSET S : /\ g[s] = IF s = {} THEN 0 ELSE v[Pick(s)] + g[s \ {Pick(s)}]
                          /\ h[s] = IF s = {} THEN 0 ELSE v[Pick(s)] + h[s \ {Pick(s)}]
  BY DEF Sums, Step
<1>2. \A s \in SUBSET S : Cardinality(s) = 0 => s = {}
  BY FS_Subset, FS_EmptySet
<1>3. 0 \in G
  BY <1>1, <1>2
<1>4. ASSUME NEW n \in Nat, n \in G PROVE n + 1 \in G
  <2> SUFFICES ASSUME NEW s \in SUBSET S, Cardinality(s) = n + 1 PROVE g[s] = h[s]
    OBVIOUS
  <2>1. s # {}
    BY FS_EmptySet
  <2>2. s \ {Pick(s)} \in SUBSET S /\ Cardinality(s \ {Pick(s)}) = n
    BY <2>1, PickedLess
  <2>3. g[s \ {Pick(s)}] = h[s \ {Pick(s)}]
    BY <1>4, <2>2
  <2> QED BY <1>1, <2>1, <2>3
<1>5. \A n \in Nat : n \in G
  <2> HIDE DEF G
  <2> QED BY <1>3, <1>4, Induction
<1> QED BY <1>5, FS_CardinalityType

\* A sum of integers is one.
LEMMA SumType ==
    ASSUME NEW S, IsFiniteSet(S), NEW v, \A x \in S : v[x] \in Int, NEW g, Sums(g, S, v)
    PROVE  g[S] \in Int
<1> DEFINE G == {n \in Nat : \A s \in SUBSET S : Cardinality(s) = n => g[s] \in Int}
<1>1. \A s \in SUBSET S : g[s] = IF s = {} THEN 0 ELSE v[Pick(s)] + g[s \ {Pick(s)}]
  BY DEF Sums, Step
<1>2. \A s \in SUBSET S : Cardinality(s) = 0 => s = {}
  BY FS_Subset, FS_EmptySet
<1>3. 0 \in G
  <2>1. \A s \in SUBSET S : Cardinality(s) = 0 => g[s] = 0
    BY <1>1, <1>2
  <2> QED BY <2>1
<1>4. ASSUME NEW n \in Nat, n \in G PROVE n + 1 \in G
  <2> SUFFICES ASSUME NEW s \in SUBSET S, Cardinality(s) = n + 1 PROVE g[s] \in Int
    OBVIOUS
  <2>1. s # {}
    BY FS_EmptySet
  <2>2. s \ {Pick(s)} \in SUBSET S /\ Cardinality(s \ {Pick(s)}) = n
    BY <2>1, PickedLess
  <2>3. g[s \ {Pick(s)}] \in Int /\ v[Pick(s)] \in Int
    BY <1>4, <2>1, <2>2, PickIsMember
  <2> QED BY <1>1, <2>1, <2>3
<1>5. \A n \in Nat : n \in G
  <2> HIDE DEF G
  <2> QED BY <1>3, <1>4, Induction
<1> QED BY <1>5, FS_CardinalityType

\* A sum of naturals of at most k each.
LEMMA SumBounds ==
    ASSUME NEW S, IsFiniteSet(S), NEW k \in Nat, NEW v, \A x \in S : v[x] \in 0..k,
           NEW g, Sums(g, S, v)
    PROVE  g[S] \in 0..(k * Cardinality(S))
<1> DEFINE G == {n \in Nat : \A s \in SUBSET S : Cardinality(s) = n => g[s] \in 0..(k * n)}
<1>1. \A s \in SUBSET S : g[s] = IF s = {} THEN 0 ELSE v[Pick(s)] + g[s \ {Pick(s)}]
  BY DEF Sums, Step
<1>2. \A s \in SUBSET S : Cardinality(s) = 0 => s = {}
  BY FS_Subset, FS_EmptySet
<1>3. 0 \in G
  <2>1. \A s \in SUBSET S : Cardinality(s) = 0 => g[s] = 0
    BY <1>1, <1>2
  <2> QED BY <2>1
<1>4. ASSUME NEW n \in Nat, n \in G PROVE n + 1 \in G
  <2>1. ASSUME NEW s \in SUBSET S, Cardinality(s) = n + 1
        PROVE  g[s] \in 0..(k * (n + 1))
    <3>1. s # {}
      BY <2>1, FS_EmptySet
    <3>2. s \ {Pick(s)} \in SUBSET S /\ Cardinality(s \ {Pick(s)}) = n
      BY <2>1, <3>1, PickedLess
    <3>3. g[s \ {Pick(s)}] \in 0..(k * n) /\ v[Pick(s)] \in 0..k
      BY <1>4, <3>1, <3>2, PickIsMember
    <3>4. g[s] = v[Pick(s)] + g[s \ {Pick(s)}]
      BY <1>1, <3>1
    <3> QED BY <3>3, <3>4, SMT
  <2>2. n + 1 \in Nat
    OBVIOUS
  <2> QED BY <2>1, <2>2, Zenon
<1>5. \A n \in Nat : n \in G
  <2> HIDE DEF G
  <2> QED BY <1>3, <1>4, Induction
<1> QED BY <1>5, FS_CardinalityType

\* The sum of the margins of some rules.
HeadroomSum(S, f) == MapThenSumSet(LAMBDA r : Headroom(r, f), S)

LEMMA SumOfHeadroom ==
    ASSUME NEW S, IsFiniteSet(S), NEW f
    PROVE  \E g : /\ Sums(g, S, [r \in S |-> Headroom(r, f)])
                  /\ HeadroomSum(S, f) = g[S]
<1> DEFINE v == [r \in S |-> Headroom(r, f)]
           iter(g) == [s \in SUBSET S |->
                         IF s = {} THEN 0
                         ELSE Headroom(CHOOSE x \in s : TRUE, f)
                                + g[s \ {CHOOSE x \in s : TRUE}]]
           sums == CHOOSE g : g = iter(g)
<1>1. \A s \in SUBSET S : s # {} => v[Pick(s)] = Headroom(CHOOSE x \in s : TRUE, f)
  BY PickIsMember DEF Pick
<1>2. ASSUME NEW g PROVE iter(g) = Step(S, v, g)
  BY <1>1 DEF Step, Pick
<1>3. \E g : g = iter(g)
  <2> HIDE DEF iter, v
  <2>1. PICK g : Sums(g, S, v)
    BY SumsExist
  <2> QED BY <1>2, <2>1 DEF Sums
<1>4. sums = iter(sums)
  <2> HIDE DEF iter
  <2> QED BY <1>3
<1>5. Sums(sums, S, v)
  BY <1>2, <1>4 DEF Sums
<1>6. HeadroomSum(S, f) = sums[S]
  BY DEF HeadroomSum, MapThenSumSet, MapThenFoldSet
<1> QED BY <1>5, <1>6

\* Where a list has an answer to a question, and the answers.
Answered(list, key) == {i \in DOMAIN list : list[i][key] # None}
Answers(list, key) == [i \in Answered(list, key) |-> list[i][key]]

LEMMA SumOfAnswers ==
    ASSUME NEW list, NEW key, IsFiniteSet(DOMAIN list)
    PROVE  \E g : /\ Sums(g, Answered(list, key), Answers(list, key))
                  /\ Given(list, key) # {} => Total(list, key) = g[Answered(list, key)]
<1> DEFINE D == {i \in DOMAIN list : list[i][key] # None}
           v == [i \in D |-> list[i][key]]
           iter(g) == [s \in SUBSET D |->
                         IF s = {} THEN 0
                         ELSE list[CHOOSE x \in s : TRUE][key]
                                + g[s \ {CHOOSE x \in s : TRUE}]]
           sums == CHOOSE g : g = iter(g)
<1>1. \A s \in SUBSET D : s # {} => v[Pick(s)] = list[CHOOSE x \in s : TRUE][key]
  BY PickIsMember DEF Pick
<1>2. ASSUME NEW g PROVE iter(g) = Step(D, v, g)
  <2> HIDE DEF D
  <2> QED BY <1>1 DEF Step, Pick
<1>3. \E g : g = iter(g)
  <2>1. IsFiniteSet(D)
    BY FS_Subset
  <2> HIDE DEF iter, v, D
  <2>2. PICK g : Sums(g, D, v)
    BY <2>1, SumsExist
  <2> QED BY <1>2, <2>2 DEF Sums
<1>4. sums = iter(sums)
  <2> HIDE DEF iter
  <2> QED BY <1>3
<1>5. Sums(sums, D, v)
  BY <1>2, <1>4 DEF Sums
<1>6. Given(list, key) # {} => Total(list, key) = sums[D]
  BY DEF Total, MapThenSumSet, MapThenFoldSet
<1>7. D = Answered(list, key) /\ v = Answers(list, key)
  BY DEF Answered, Answers
<1> HIDE DEF D, v, sums
<1> QED BY <1>5, <1>6, <1>7

-----------------------------------------------------------------------------
(* What the engine is given *)

LEMMA InputEntries ==
    ASSUME NEW p \in ApplicationPayload
    PROVE  LET app == ApplicationInput(p)
           IN  /\ \A k \in DOMAIN p.business : app[k] = p.business[k]
               /\ \A k \in DOMAIN p.business_credit : app[k] = p.business_credit[k]
               /\ \A k \in DOMAIN p.loan \ {"corp_only"} : app[k] = p.loan[k]
               /\ app["business_state"] = p.business.state
               /\ app["loan_amount"] = p.loan.amount
               /\ app["corp_only"] = CorpOnly(p)
               /\ app["guarantors"] = IF CorpOnly(p) THEN <<>> ELSE p.guarantors
               /\ app["equipment"] = p.equipment
<1> DEFINE own == [business_state |-> p.business.state,
                   loan_amount |-> p.loan.amount,
                   corp_only |-> CorpOnly(p),
                   guarantors |-> IF CorpOnly(p) THEN <<>> ELSE p.guarantors,
                   equipment |-> p.equipment]
           app == ApplicationInput(p)
<1>1. /\ p.business \in BusinessPayload
      /\ p.business_credit \in BusinessCreditPayload
      /\ p.loan \in LoanPayload
  BY DEF ApplicationPayload
<1>2. /\ DOMAIN p.business =
           {"legal_name", "entity_type", "state", "industry", "years_in_business",
            "annual_revenue", "has_physical_location", "is_us_based", "trucks_operated"}
      /\ DOMAIN p.business_credit =
           {"paynet_score", "trade_lines_count", "trade_history_years",
            "largest_comparable_credit", "comparable_contracts_count",
            "clean_payment_history_months"}
      /\ DOMAIN p.loan =
           {"amount", "term_months", "transaction_type", "down_payment_pct",
            "soft_cost_pct", "corp_only"}
  BY <1>1 DEF BusinessPayload, BusinessCreditPayload, LoanPayload
<1>3. DOMAIN own = {"business_state", "loan_amount", "corp_only", "guarantors", "equipment"}
  OBVIOUS
<1> DEFINE terms == Merged(p.business_credit, p.loan)
           rest == Merged(p.business, terms)
<1>4. app = Merged(own, rest)
  BY DEF ApplicationInput
<1>5. /\ own["business_state"] = p.business.state
      /\ own["loan_amount"] = p.loan.amount
      /\ own["corp_only"] = CorpOnly(p)
      /\ own["guarantors"] = IF CorpOnly(p) THEN <<>> ELSE p.guarantors
      /\ own["equipment"] = p.equipment
  OBVIOUS
<1> HIDE DEF own, app
<1>6. \A k \in DOMAIN own : app[k] = own[k]
  BY <1>4 DEF Merged
<1>7. /\ \A k \in DOMAIN p.business_credit : terms[k] = p.business_credit[k]
      /\ \A k \in DOMAIN p.loan : k \notin DOMAIN p.business_credit => terms[k] = p.loan[k]
      /\ DOMAIN terms = DOMAIN p.business_credit \cup DOMAIN p.loan
  BY DEF Merged
<1>8. /\ \A k \in DOMAIN p.business : rest[k] = p.business[k]
      /\ \A k \in DOMAIN terms : k \notin DOMAIN p.business => rest[k] = terms[k]
      /\ DOMAIN rest = DOMAIN p.business \cup DOMAIN terms
  <2> HIDE DEF terms
  <2> QED BY DEF Merged
<1> HIDE DEF terms, rest
<1>9. \A k \in DOMAIN rest : k \notin DOMAIN own => app[k] = rest[k]
  BY <1>4 DEF Merged
<1>10. \A k \in DOMAIN p.business : app[k] = p.business[k]
  <2>1. \A k \in DOMAIN p.business : k \notin DOMAIN own
    BY <1>2, <1>3
  <2> QED BY <1>8, <1>9, <2>1
<1>11. \A k \in DOMAIN p.business_credit : app[k] = p.business_credit[k]
  <2>1. \A k \in DOMAIN p.business_credit : k \notin DOMAIN own /\ k \notin DOMAIN p.business
    BY <1>2, <1>3
  <2> QED BY <1>7, <1>8, <1>9, <2>1
<1>12. \A k \in DOMAIN p.loan \ {"corp_only"} : app[k] = p.loan[k]
  <2>1. \A k \in DOMAIN p.loan \ {"corp_only"} :
           /\ k \notin DOMAIN own /\ k \notin DOMAIN p.business
           /\ k \notin DOMAIN p.business_credit
    BY <1>2, <1>3
  <2> QED BY <1>7, <1>8, <1>9, <2>1
<1>13. /\ app["business_state"] = p.business.state
       /\ app["loan_amount"] = p.loan.amount
       /\ app["corp_only"] = CorpOnly(p)
       /\ app["guarantors"] = IF CorpOnly(p) THEN <<>> ELSE p.guarantors
       /\ app["equipment"] = p.equipment
  BY <1>3, <1>5, <1>6
<1> QED BY <1>10, <1>11, <1>12, <1>13 DEF app

\* The fields that are worked out of several entries.
ComputedFields ==
    {"is_startup", "is_trucking", "is_medical", "revolving_available_pct",
     "revolving_balance", "revolving_plus_unsecured_debt",
     "years_since_bankruptcy_discharge", "has_paynet", "comparable_credit_pct",
     "equipment_category", "equipment_age_years", "equipment_mileage",
     "equipment_condition", "equipment_is_titled", "_equipment_list"}

LEMMA ComputedEntries ==
    ASSUME NEW app
    PROVE  LET computed == Computed(app)
               gs == Guaranteeing(app.guarantors)
               items == app.equipment
           IN  /\ DOMAIN computed = ComputedFields
               /\ computed["is_startup"] = IF app.years_in_business = None THEN None
                                           ELSE app.years_in_business < 2
               /\ computed["is_trucking"] = IF app.industry = None THEN None
                                            ELSE app.industry = "trucking"
               /\ computed["is_medical"] = IF app.industry = None THEN None
                                           ELSE app.industry \in MedicalIndustries
               /\ computed["revolving_available_pct"] = RevolvingAvailable(gs)
               /\ computed["revolving_balance"] = Total(gs, "revolving_balance")
               /\ computed["revolving_plus_unsecured_debt"] = RevolvingPlusUnsecured(gs)
               /\ computed["years_since_bankruptcy_discharge"] = SinceDischarge(gs)
               /\ computed["has_paynet"] = (app.paynet_score # None)
               /\ computed["comparable_credit_pct"] = ComparablePct(app)
               /\ computed["equipment_category"] =
                     IF items = <<>> THEN None ELSE items[1]["category"]
               /\ computed["equipment_age_years"] = AgeOf(Least(Given(items, "model_year")))
               /\ computed["equipment_mileage"] = Greatest(Given(items, "mileage"))
               /\ computed["equipment_condition"] =
                     IF items = <<>> THEN None ELSE items[1]["condition"]
               /\ computed["equipment_is_titled"] = AllTrue(Given(items, "is_titled"))
               /\ computed["_equipment_list"] =
                     [i \in DOMAIN items |-> EquipmentItem(items[i])]
BY DEF Computed, ComputedFields

LEMMA FeatureEntries ==
    ASSUME NEW app
    PROVE  LET f == DeriveFeatures(app)
           IN  /\ DOMAIN f = Fields \cup {"_equipment_list"}
               /\ Copied \cup OfGuarantors \cup ComputedFields = DOMAIN f
               /\ \A k \in Copied : f[k] = app[k]
               /\ \A k \in OfGuarantors :
                     f[k] = Collapsed(Guaranteeing(app.guarantors), k)
               /\ \A k \in ComputedFields : f[k] = Computed(app)[k]
<1> DEFINE copied == [k \in Copied |-> app[k]]
           collapsed == [k \in OfGuarantors |-> Collapsed(Guaranteeing(app.guarantors), k)]
           rest == Merged(collapsed, Computed(app))
           f == DeriveFeatures(app)
<1>1. f = Merged(copied, rest)
  BY DEF DeriveFeatures
<1>2. DOMAIN Computed(app) = ComputedFields
  BY ComputedEntries, Zenon
<1>3. \A k \in OfGuarantors : k \notin Copied
  BY DEF OfGuarantors, LeastOfGuarantors, GreatestOfGuarantors, AllOfGuarantors,
         AnyOfGuarantors, AnyOfSomeGuarantors, Copied
<1>4. \A k \in ComputedFields : k \notin Copied
  BY DEF ComputedFields, Copied
<1>5. \A k \in ComputedFields : k \notin OfGuarantors
  BY DEF OfGuarantors, LeastOfGuarantors, GreatestOfGuarantors, AllOfGuarantors,
         AnyOfGuarantors, AnyOfSomeGuarantors, ComputedFields
<1>6. /\ DOMAIN copied = Copied
      /\ \A k \in Copied : copied[k] = app[k]
      /\ DOMAIN collapsed = OfGuarantors
      /\ \A k \in OfGuarantors :
            collapsed[k] = Collapsed(Guaranteeing(app.guarantors), k)
  OBVIOUS
<1> HIDE DEF copied, collapsed
<1>7. /\ DOMAIN rest = OfGuarantors \cup ComputedFields
      /\ \A k \in OfGuarantors : rest[k] = collapsed[k]
      /\ \A k \in ComputedFields : rest[k] = Computed(app)[k]
  BY <1>2, <1>5, <1>6 DEF Merged
<1> HIDE DEF rest, f
<1>8. /\ DOMAIN f = Copied \cup OfGuarantors \cup ComputedFields
      /\ \A k \in Copied : f[k] = copied[k]
      /\ \A k \in OfGuarantors \cup ComputedFields : f[k] = rest[k]
  BY <1>1, <1>3, <1>4, <1>6, <1>7 DEF Merged
<1>9. Copied \cup OfGuarantors \cup ComputedFields = Fields \cup {"_equipment_list"}
  <2>1. \A k \in Copied \cup OfGuarantors \cup ComputedFields :
           k \in Fields \cup {"_equipment_list"}
    BY DEF OfGuarantors, LeastOfGuarantors, GreatestOfGuarantors, AllOfGuarantors,
           AnyOfGuarantors, AnyOfSomeGuarantors, ComputedFields, Copied, Fields,
           NumberFields, BooleanFields, Options
  <2>2. \A k \in NumberFields : k \in Copied \cup OfGuarantors \cup ComputedFields
    BY DEF OfGuarantors, LeastOfGuarantors, GreatestOfGuarantors, AllOfGuarantors,
           AnyOfGuarantors, AnyOfSomeGuarantors, ComputedFields, Copied, NumberFields
  <2>3. \A k \in BooleanFields : k \in Copied \cup OfGuarantors \cup ComputedFields
    BY DEF OfGuarantors, LeastOfGuarantors, GreatestOfGuarantors, AllOfGuarantors,
           AnyOfGuarantors, AnyOfSomeGuarantors, ComputedFields, Copied, BooleanFields
  <2>4. \A k \in DOMAIN Options : k \in Copied \cup OfGuarantors \cup ComputedFields
    BY DEF ComputedFields, Copied, Options
  <2>5. "_equipment_list" \in ComputedFields
    BY DEF ComputedFields
  <2> QED BY <2>1, <2>2, <2>3, <2>4, <2>5 DEF Fields
<1> QED BY <1>6, <1>7, <1>8, <1>9 DEF f

-----------------------------------------------------------------------------
(* Answers *)

LEMMA GivenType ==
    ASSUME NEW list, IsFiniteSet(DOMAIN list), NEW key,
           \A i \in DOMAIN list : list[i][key] \in Int \cup {None}
    PROVE  /\ IsFiniteSet(Given(list, key))
           /\ Given(list, key) \subseteq Int
           /\ Given(list, key) = {list[i][key] : i \in {i \in DOMAIN list : list[i][key] # None}}
<1> DEFINE D == {i \in DOMAIN list : list[i][key] # None}
           a == [i \in D |-> list[i][key]]
<1>1. Given(list, key) = {list[i][key] : i \in D}
  BY DEF Given, ToSet
<1>2. a \in Surjection(D, Given(list, key))
  BY <1>1 DEF Surjection
<1>3. IsFiniteSet(D)
  BY FS_Subset
<1>4. IsFiniteSet(Given(list, key))
  <2> HIDE DEF D, a
  <2> QED BY <1>2, <1>3, FS_Surjection
<1> QED BY <1>1, <1>4

LEMMA LeastType ==
    ASSUME NEW S, IsFiniteSet(S), S \subseteq Int
    PROVE  /\ Least(S) \in Int \cup {None}
           /\ S # {} => Least(S) \in S /\ \A y \in S : Least(S) <= y
BY MinOfFinite DEF Least

LEMMA GreatestType ==
    ASSUME NEW S, IsFiniteSet(S), S \subseteq Int
    PROVE  /\ Greatest(S) \in Int \cup {None}
           /\ S # {} => Greatest(S) \in S /\ \A y \in S : y <= Greatest(S)
BY MaxOfFinite DEF Greatest

LEMMA TotalType ==
    ASSUME NEW list, IsFiniteSet(DOMAIN list), NEW key,
           \A i \in DOMAIN list : list[i][key] \in Int \cup {None}
    PROVE  /\ Total(list, key) \in Int \cup {None}
           /\ Given(list, key) # {} => Total(list, key) \in Int
<1> DEFINE D == Answered(list, key)
           v == Answers(list, key)
<1>1. IsFiniteSet(D) /\ \A i \in D : v[i] \in Int
  BY FS_Subset DEF Answered, Answers
<1>2. PICK g : Sums(g, D, v) /\ (Given(list, key) # {} => Total(list, key) = g[D])
  BY SumOfAnswers
<1>3. g[D] \in Int
  <2> HIDE DEF D, v
  <2> QED BY <1>1, <1>2, SumType
<1>4. Given(list, key) = {} => Total(list, key) = None
  BY DEF Total
<1> QED BY <1>2, <1>3, <1>4

LEMMA AgeType ==
    ASSUME NEW year \in Int \cup {None}
    PROVE  /\ AgeOf(year) \in Int \cup {None}
           /\ year # None => AgeOf(year) \in Int /\ AgeOf(year) >= ThisYear - year
           /\ year # None => AgeOf(year) # None
<1>1. CASE year = None
  BY <1>1 DEF AgeOf
<1>2. CASE year # None
  <2>1. year \in Int /\ ThisYear - year \in Int
    BY <1>2, ThisYearAssumption
  <2>2. Max({0, ThisYear - year}) = IF 0 >= ThisYear - year THEN 0 ELSE ThisYear - year
    BY <2>1, MaxMinOfTwo
  <2>3. AgeOf(year) \in Int /\ AgeOf(year) >= ThisYear - year
    BY <1>2, <2>1, <2>2 DEF AgeOf
  <2> QED BY <1>2, <2>3, NoneAssumption
<1> QED BY <1>1, <1>2

\* The guarantors that count are some of those of the application, and not none
\* unless there is none.
LEMMA GuaranteeingSome ==
    ASSUME NEW gs
    PROVE  /\ DOMAIN Guaranteeing(gs) \subseteq DOMAIN gs
           /\ \A i \in DOMAIN Guaranteeing(gs) : Guaranteeing(gs)[i] = gs[i]
           /\ DOMAIN gs # {} => DOMAIN Guaranteeing(gs) # {}
           /\ \A i \in DOMAIN gs : MustGuarantee(gs[i]) => i \in DOMAIN Guaranteeing(gs)
BY DEF Guaranteeing, Restrict

-----------------------------------------------------------------------------
(* The types of the features *)

IsTeam(gs) == IsFiniteSet(DOMAIN gs) /\ \A i \in DOMAIN gs : gs[i] \in GuarantorPayload
IsFleet(items) ==
    IsFiniteSet(DOMAIN items) /\ \A i \in DOMAIN items : items[i] \in EquipmentPayload

LEMMA PayloadLists ==
    ASSUME NEW p \in ApplicationPayload
    PROVE  /\ IsTeam(p.guarantors)
           /\ IsTeam(Guaranteeing(ApplicationInput(p)["guarantors"]))
           /\ IsFleet(p.equipment)
           /\ p.equipment # <<>> => 1 \in DOMAIN p.equipment
           /\ p.equipment = <<>> => DOMAIN p.equipment = {}
           /\ DOMAIN <<>> = {}
<1>1. /\ p.guarantors \in Seq(GuarantorPayload)
      /\ p.equipment \in Seq(EquipmentPayload)
  BY DEF ApplicationPayload
<1>2. /\ DOMAIN p.guarantors = 1..Len(p.guarantors) /\ Len(p.guarantors) \in Nat
      /\ DOMAIN p.equipment = 1..Len(p.equipment) /\ Len(p.equipment) \in Nat
  BY <1>1
<1>3. IsFiniteSet(DOMAIN p.guarantors) /\ IsFiniteSet(DOMAIN p.equipment)
  BY <1>2, FS_Interval
<1>4. /\ \A i \in DOMAIN p.guarantors : p.guarantors[i] \in GuarantorPayload
      /\ \A i \in DOMAIN p.equipment : p.equipment[i] \in EquipmentPayload
  BY <1>1, <1>2
<1>5. IsTeam(p.guarantors) /\ IsFleet(p.equipment)
  BY <1>3, <1>4 DEF IsTeam, IsFleet
<1>6. DOMAIN <<>> = {}
  OBVIOUS
<1>7. IsTeam(<<>>)
  BY <1>6, FS_EmptySet DEF IsTeam
<1>8. IsTeam(ApplicationInput(p)["guarantors"])
  <2>1. ApplicationInput(p)["guarantors"] = IF CorpOnly(p) THEN <<>> ELSE p.guarantors
    BY InputEntries, Zenon
  <2> QED BY <1>5, <1>7, <2>1
<1>9. ASSUME NEW gs, IsTeam(gs) PROVE IsTeam(Guaranteeing(gs))
  BY <1>9, GuaranteeingSome, FS_Subset DEF IsTeam
<1>10. /\ p.equipment # <<>> => 1 \in DOMAIN p.equipment
       /\ p.equipment = <<>> => DOMAIN p.equipment = {}
  BY <1>1, <1>2
<1> QED BY <1>5, <1>6, <1>8, <1>9, <1>10

\* The questions that are answered with a number.
GuarantorNumbers ==
    {"ownership_pct", "fico_score", "years_at_residence", "industry_experience_years",
     "cdl_years", "years_licensed", "revolving_credit_limit", "revolving_balance",
     "unsecured_debt", "bankruptcy_discharge_date"}

LEMMA GuarantorAnswers ==
    ASSUME NEW gs, IsTeam(gs), NEW k \in GuarantorNumbers
    PROVE  /\ \A i \in DOMAIN gs : gs[i][k] \in Int \cup {None}
           /\ IsFiniteSet(Given(gs, k)) /\ Given(gs, k) \subseteq Int
           /\ Total(gs, k) \in Int \cup {None}
           /\ Given(gs, k) # {} => Total(gs, k) \in Int
<1>1. ASSUME NEW g \in GuarantorPayload PROVE g[k] \in Int \cup {None}
  BY DEF GuarantorPayload, GuarantorNumbers, Optional, Percent, Years, Money
<1>2. \A i \in DOMAIN gs : gs[i][k] \in Int \cup {None}
  BY <1>1 DEF IsTeam
<1>3. IsFiniteSet(DOMAIN gs)
  BY DEF IsTeam
<1> QED BY <1>2, <1>3, GivenType, TotalType

LEMMA EquipmentAnswers ==
    ASSUME NEW items, IsFleet(items), NEW k \in {"model_year", "mileage"}
    PROVE  /\ \A i \in DOMAIN items : items[i][k] \in Int \cup {None}
           /\ IsFiniteSet(Given(items, k)) /\ Given(items, k) \subseteq Int
<1>1. ASSUME NEW e \in EquipmentPayload PROVE e[k] \in Int \cup {None}
  BY DEF EquipmentPayload, Optional
<1>2. \A i \in DOMAIN items : items[i][k] \in Int \cup {None}
  BY <1>1 DEF IsFleet
<1>3. IsFiniteSet(DOMAIN items)
  BY DEF IsFleet
<1> QED BY <1>2, <1>3, GivenType

LEMMA RevolvingTypes ==
    ASSUME NEW gs, IsTeam(gs)
    PROVE  /\ RevolvingAvailable(gs) \in Int \cup {None}
           /\ RevolvingPlusUnsecured(gs) \in Int \cup {None}
<1>1. /\ OrZero(Total(gs, "revolving_credit_limit")) \in Int
      /\ OrZero(Total(gs, "revolving_balance")) \in Int
      /\ OrZero(Total(gs, "unsecured_debt")) \in Int
  BY GuarantorAnswers DEF OrZero, GuarantorNumbers
<1> DEFINE limit == OrZero(Total(gs, "revolving_credit_limit"))
           balance == OrZero(Total(gs, "revolving_balance"))
<1>2. ~(limit <= 0) => ((limit - balance) * 100) \div limit \in Int
  <2>1. limit \in Int /\ balance \in Int
    BY <1>1
  <2> HIDE DEF limit, balance
  <2> QED BY <2>1
<1>3. RevolvingAvailable(gs) = IF limit <= 0 THEN None
                               ELSE ((limit - balance) * 100) \div limit
  BY DEF RevolvingAvailable
<1>4. RevolvingAvailable(gs) \in Int \cup {None}
  <2> HIDE DEF limit, balance
  <2> QED BY <1>2, <1>3
<1>5. RevolvingPlusUnsecured(gs) \in Int \cup {None}
  BY <1>1 DEF RevolvingPlusUnsecured
<1> QED BY <1>4, <1>5

LEMMA DischargeType ==
    ASSUME NEW gs, IsTeam(gs)
    PROVE  SinceDischarge(gs) \in Int \cup {None}
<1> DEFINE D == {i \in DOMAIN gs : gs[i].has_bankruptcy}
           a == [i \in D |-> gs[i].bankruptcy_discharge_date]
           dates == {g.bankruptcy_discharge_date : g \in {g \in ToSet(gs) : g.has_bankruptcy}}
<1>1. dates = {gs[i].bankruptcy_discharge_date : i \in D}
  BY DEF ToSet
<1>2. a \in Surjection(D, dates)
  BY <1>1 DEF Surjection
<1>3. IsFiniteSet(D)
  BY FS_Subset DEF IsTeam
<1>4. IsFiniteSet(dates)
  <2> HIDE DEF D, a, dates
  <2> QED BY <1>2, <1>3, FS_Surjection
<1>5. dates \subseteq Int \cup {None}
  <2>1. "bankruptcy_discharge_date" \in GuarantorNumbers
    BY DEF GuarantorNumbers
  <2>2. \A i \in DOMAIN gs : gs[i]["bankruptcy_discharge_date"] \in Int \cup {None}
    BY <2>1, GuarantorAnswers
  <2> QED BY <1>1, <2>2
<1>6. SinceDischarge(gs) = IF dates = {} THEN None
                           ELSE IF None \in dates THEN 0 ELSE ThisYear - Max(dates)
  BY DEF SinceDischarge
<1> HIDE DEF dates
<1>7. dates # {} /\ None \notin dates => Max(dates) \in Int
  <2> SUFFICES ASSUME dates # {}, None \notin dates PROVE Max(dates) \in Int
    OBVIOUS
  <2>1. dates \subseteq Int
    BY <1>5
  <2>2. Max(dates) \in dates
    BY <1>4, <2>1, MaxOfFinite
  <2> QED BY <2>1, <2>2
<1> QED BY <1>6, <1>7, ThisYearAssumption

LEMMA ComparableType ==
    ASSUME NEW p \in ApplicationPayload
    PROVE  LET pct == ComparablePct(ApplicationInput(p))
           IN  /\ pct \in Int \cup {None}
               /\ p.business_credit.largest_comparable_credit # None /\ p.loan.amount # None
                     => pct \in Int
<1> DEFINE lcc == p.business_credit.largest_comparable_credit
           amount == p.loan.amount
           app == ApplicationInput(p)
<1>1. /\ p.business_credit \in BusinessCreditPayload
      /\ p.loan \in LoanPayload
  BY DEF ApplicationPayload
<1>2. lcc \in Nat \cup {None} /\ amount \in (Nat \ {0}) \cup {None}
  BY <1>1 DEF BusinessCreditPayload, LoanPayload, Optional, Money
<1>3. "largest_comparable_credit" \in DOMAIN p.business_credit
  BY <1>1 DEF BusinessCreditPayload
<1>4. app.largest_comparable_credit = lcc /\ app.loan_amount = amount
  BY <1>3, InputEntries
<1> HIDE DEF lcc, amount, app
<1>5. OrZero(amount) = 0 <=> amount = None
  BY <1>2, NoneAssumption DEF OrZero
<1>6. ComparablePct(app) = IF lcc = None \/ amount = None THEN None
                           ELSE (lcc * 100) \div amount
  BY <1>4, <1>5 DEF ComparablePct
<1>7. lcc # None /\ amount # None => (lcc * 100) \div amount \in Int
  BY <1>2
<1> QED BY <1>6, <1>7 DEF lcc, amount, app

\* The features of a payload.
FeaturesOf(p) == DeriveFeatures(ApplicationInput(p))

\* The fields that are copied, by the part of the payload they come from.
LEMMA CopiedFeatures ==
    ASSUME NEW p \in ApplicationPayload
    PROVE  LET f == FeaturesOf(p)
           IN  /\ f["business_state"] = p.business.state
               /\ f["loan_amount"] = p.loan.amount
               /\ f["corp_only"] = CorpOnly(p)
               /\ \A k \in {"industry", "entity_type", "years_in_business", "annual_revenue",
                            "has_physical_location", "is_us_based", "trucks_operated"} :
                     f[k] = p.business[k]
               /\ \A k \in {"paynet_score", "trade_lines_count", "trade_history_years",
                            "largest_comparable_credit", "comparable_contracts_count",
                            "clean_payment_history_months"} :
                     f[k] = p.business_credit[k]
               /\ \A k \in {"term_months", "transaction_type", "down_payment_pct",
                            "soft_cost_pct"} :
                     f[k] = p.loan[k]
<1> DEFINE app == ApplicationInput(p)
           f == FeaturesOf(p)
<1>1. \A k \in Copied : f[k] = app[k]
  BY FeatureEntries, Zenon DEF FeaturesOf
<1>2. /\ \A k \in DOMAIN p.business : app[k] = p.business[k]
      /\ \A k \in DOMAIN p.business_credit : app[k] = p.business_credit[k]
      /\ \A k \in DOMAIN p.loan \ {"corp_only"} : app[k] = p.loan[k]
      /\ app["business_state"] = p.business.state
      /\ app["loan_amount"] = p.loan.amount
      /\ app["corp_only"] = CorpOnly(p)
  BY InputEntries, Zenon
<1>3. /\ p.business \in BusinessPayload
      /\ p.business_credit \in BusinessCreditPayload
      /\ p.loan \in LoanPayload
  BY DEF ApplicationPayload
<1> HIDE DEF app, f
<1>4. /\ f["business_state"] = p.business.state
      /\ f["loan_amount"] = p.loan.amount
      /\ f["corp_only"] = CorpOnly(p)
  BY <1>1, <1>2 DEF Copied
<1>5. \A k \in {"industry", "entity_type", "years_in_business", "annual_revenue",
                "has_physical_location", "is_us_based", "trucks_operated"} :
         k \in Copied /\ k \in DOMAIN p.business
  BY <1>3 DEF Copied, BusinessPayload
<1>6. \A k \in {"paynet_score", "trade_lines_count", "trade_history_years",
                "largest_comparable_credit", "comparable_contracts_count",
                "clean_payment_history_months"} :
         k \in Copied /\ k \in DOMAIN p.business_credit
  BY <1>3 DEF Copied, BusinessCreditPayload
<1>7. \A k \in {"term_months", "transaction_type", "down_payment_pct", "soft_cost_pct"} :
         k \in Copied /\ k \in DOMAIN p.loan \ {"corp_only"}
  BY <1>3 DEF Copied, LoanPayload
<1> QED BY <1>1, <1>2, <1>4, <1>5, <1>6, <1>7 DEF f

\* The fields that the guarantors answer.
LEMMA GuarantorFeatures ==
    ASSUME NEW p \in ApplicationPayload
    PROVE  LET f == FeaturesOf(p)
               gs == Guaranteeing(ApplicationInput(p).guarantors)
           IN  /\ \A k \in LeastOfGuarantors : f[k] = Least(Given(gs, k))
               /\ \A k \in GreatestOfGuarantors : f[k] = Greatest(Given(gs, k))
               /\ \A k \in AllOfGuarantors : f[k] = AllTrue(Given(gs, k))
               /\ \A k \in AnyOfSomeGuarantors :
                     f[k] = IF DOMAIN gs = {} THEN None ELSE TRUE \in Given(gs, k)
<1> DEFINE f == FeaturesOf(p)
           gs == Guaranteeing(ApplicationInput(p).guarantors)
<1>1. \A k \in OfGuarantors : f[k] = Collapsed(gs, k)
  BY FeatureEntries, Zenon DEF FeaturesOf
<1>2. /\ \A k \in LeastOfGuarantors : k \in OfGuarantors
      /\ \A k \in GreatestOfGuarantors : k \in OfGuarantors /\ k \notin LeastOfGuarantors
      /\ \A k \in AllOfGuarantors : /\ k \in OfGuarantors /\ k \notin LeastOfGuarantors
                                    /\ k \notin GreatestOfGuarantors
      /\ \A k \in AnyOfSomeGuarantors :
            /\ k \in OfGuarantors /\ k \notin LeastOfGuarantors
            /\ k \notin GreatestOfGuarantors /\ k \notin AllOfGuarantors
            /\ k \notin AnyOfGuarantors
  BY DEF OfGuarantors, LeastOfGuarantors, GreatestOfGuarantors, AllOfGuarantors,
         AnyOfGuarantors, AnyOfSomeGuarantors
<1> HIDE DEF f, gs
<1>3. \A k \in LeastOfGuarantors : Collapsed(gs, k) = Least(Given(gs, k))
  BY <1>2 DEF Collapsed, LeastOfGuarantors, GreatestOfGuarantors, AllOfGuarantors,
              AnyOfGuarantors, AnyOfSomeGuarantors
<1>4. \A k \in GreatestOfGuarantors : Collapsed(gs, k) = Greatest(Given(gs, k))
  BY <1>2 DEF Collapsed, LeastOfGuarantors, GreatestOfGuarantors, AllOfGuarantors,
              AnyOfGuarantors, AnyOfSomeGuarantors
<1>5. \A k \in AllOfGuarantors : Collapsed(gs, k) = AllTrue(Given(gs, k))
  BY <1>2 DEF Collapsed, LeastOfGuarantors, GreatestOfGuarantors, AllOfGuarantors,
              AnyOfGuarantors, AnyOfSomeGuarantors
<1>6. \A k \in AnyOfSomeGuarantors :
         Collapsed(gs, k) = IF DOMAIN gs = {} THEN None ELSE TRUE \in Given(gs, k)
  BY <1>2 DEF Collapsed, LeastOfGuarantors, GreatestOfGuarantors, AllOfGuarantors,
              AnyOfGuarantors, AnyOfSomeGuarantors
<1> QED BY <1>1, <1>2, <1>3, <1>4, <1>5, <1>6 DEF f, gs

\* The fields that are worked out.
LEMMA ComputedFeatures ==
    ASSUME NEW p \in ApplicationPayload
    PROVE  LET f == FeaturesOf(p)
               gs == Guaranteeing(ApplicationInput(p).guarantors)
           IN  /\ f["is_startup"] = IF p.business.years_in_business = None THEN None
                                    ELSE p.business.years_in_business < 2
               /\ f["is_trucking"] = IF p.business.industry = None THEN None
                                     ELSE p.business.industry = "trucking"
               /\ f["is_medical"] = IF p.business.industry = None THEN None
                                    ELSE p.business.industry \in MedicalIndustries
               /\ f["revolving_available_pct"] = RevolvingAvailable(gs)
               /\ f["revolving_balance"] = Total(gs, "revolving_balance")
               /\ f["revolving_plus_unsecured_debt"] = RevolvingPlusUnsecured(gs)
               /\ f["years_since_bankruptcy_discharge"] = SinceDischarge(gs)
               /\ f["comparable_credit_pct"] = ComparablePct(ApplicationInput(p))
               /\ f["equipment_category"] =
                     IF p.equipment = <<>> THEN None ELSE p.equipment[1]["category"]
               /\ f["equipment_age_years"] = AgeOf(Least(Given(p.equipment, "model_year")))
               /\ f["equipment_mileage"] = Greatest(Given(p.equipment, "mileage"))
               /\ f["equipment_condition"] =
                     IF p.equipment = <<>> THEN None ELSE p.equipment[1]["condition"]
               /\ f["_equipment_list"] =
                     [i \in DOMAIN p.equipment |-> EquipmentItem(p.equipment[i])]
<1> DEFINE f == FeaturesOf(p)
           app == ApplicationInput(p)
           gs == Guaranteeing(app.guarantors)
           computed == Computed(app)
<1>1. \A k \in ComputedFields : f[k] = computed[k]
  BY FeatureEntries, Zenon DEF FeaturesOf
<1>2. app.equipment = p.equipment
  BY InputEntries, Zenon
<1>3. app.years_in_business = p.business.years_in_business /\ app.industry = p.business.industry
  <2>1. \A k \in DOMAIN p.business : app[k] = p.business[k]
    BY InputEntries, Zenon
  <2>2. "years_in_business" \in DOMAIN p.business /\ "industry" \in DOMAIN p.business
    BY DEF ApplicationPayload, BusinessPayload
  <2> QED BY <2>1, <2>2
<1>4. /\ computed["is_startup"] = IF app.years_in_business = None THEN None
                                  ELSE app.years_in_business < 2
      /\ computed["is_trucking"] = IF app.industry = None THEN None
                                   ELSE app.industry = "trucking"
      /\ computed["is_medical"] = IF app.industry = None THEN None
                                  ELSE app.industry \in MedicalIndustries
      /\ computed["revolving_available_pct"] = RevolvingAvailable(gs)
      /\ computed["revolving_balance"] = Total(gs, "revolving_balance")
      /\ computed["revolving_plus_unsecured_debt"] = RevolvingPlusUnsecured(gs)
      /\ computed["years_since_bankruptcy_discharge"] = SinceDischarge(gs)
      /\ computed["comparable_credit_pct"] = ComparablePct(app)
      /\ computed["equipment_category"] =
            IF app.equipment = <<>> THEN None ELSE app.equipment[1]["category"]
      /\ computed["equipment_age_years"] = AgeOf(Least(Given(app.equipment, "model_year")))
      /\ computed["equipment_mileage"] = Greatest(Given(app.equipment, "mileage"))
      /\ computed["equipment_condition"] =
            IF app.equipment = <<>> THEN None ELSE app.equipment[1]["condition"]
      /\ computed["_equipment_list"] =
            [i \in DOMAIN app.equipment |-> EquipmentItem(app.equipment[i])]
  BY ComputedEntries, Zenon
<1> HIDE DEF f, computed
<1> QED BY <1>1, <1>2, <1>3, <1>4 DEF f, ComputedFields

LEMMA NumberFeatures ==
    ASSUME NEW p \in ApplicationPayload, NEW k \in NumberFields
    PROVE  FeaturesOf(p)[k] \in Int \cup {None}
<1> DEFINE f == FeaturesOf(p)
           gs == Guaranteeing(ApplicationInput(p).guarantors)
<1>1. /\ p.business \in BusinessPayload
      /\ p.business_credit \in BusinessCreditPayload
      /\ p.loan \in LoanPayload
  BY DEF ApplicationPayload
<1>2. IsTeam(gs) /\ IsFleet(p.equipment)
  BY PayloadLists
<1>3. CASE k \in {"years_in_business", "annual_revenue", "trucks_operated"}
  <2>1. f[k] = p.business[k]
    BY <1>3, CopiedFeatures
  <2>2. p.business[k] \in Int \cup {None}
    BY <1>1, <1>3 DEF BusinessPayload, Optional, Years, Money, Count
  <2> QED BY <2>1, <2>2
<1>4. CASE k \in {"paynet_score", "trade_lines_count", "trade_history_years",
                  "largest_comparable_credit", "comparable_contracts_count",
                  "clean_payment_history_months"}
  <2>1. f[k] = p.business_credit[k]
    BY <1>4, CopiedFeatures
  <2>2. \A c \in BusinessCreditPayload :
           /\ c.paynet_score \in Int \cup {None}
           /\ c.trade_lines_count \in Int \cup {None}
           /\ c.trade_history_years \in Int \cup {None}
           /\ c.largest_comparable_credit \in Int \cup {None}
           /\ c.comparable_contracts_count \in Int \cup {None}
           /\ c.clean_payment_history_months \in Int \cup {None}
    BY DEF BusinessCreditPayload, Optional, Years, Money, Count
  <2>3. p.business_credit[k] \in Int \cup {None}
    BY <1>1, <1>4, <2>2
  <2> QED BY <2>1, <2>3
<1>5. CASE k \in {"term_months", "down_payment_pct", "soft_cost_pct"}
  <2>1. f[k] = p.loan[k]
    BY <1>5, CopiedFeatures
  <2>2. p.loan[k] \in Int \cup {None}
    BY <1>1, <1>5 DEF LoanPayload, Optional, Percent
  <2> QED BY <2>1, <2>2
<1>6. CASE k = "loan_amount"
  <2>1. f[k] = p.loan.amount
    BY <1>6, CopiedFeatures
  <2>2. p.loan.amount \in Int \cup {None}
    BY <1>1 DEF LoanPayload, Optional
  <2> QED BY <2>1, <2>2
<1>7. CASE k \in LeastOfGuarantors
  <2>1. f[k] = Least(Given(gs, k))
    BY <1>7, GuarantorFeatures
  <2>2. IsFiniteSet(Given(gs, k)) /\ Given(gs, k) \subseteq Int
    BY <1>2, <1>7, GuarantorAnswers DEF LeastOfGuarantors, GuarantorNumbers
  <2> QED BY <2>1, <2>2, LeastType
<1>8. CASE k \in GreatestOfGuarantors
  <2>1. f[k] = Greatest(Given(gs, k))
    BY <1>8, GuarantorFeatures
  <2>2. IsFiniteSet(Given(gs, k)) /\ Given(gs, k) \subseteq Int
    BY <1>2, <1>8, GuarantorAnswers DEF GreatestOfGuarantors, GuarantorNumbers
  <2> QED BY <2>1, <2>2, GreatestType
<1>9. CASE k \in {"revolving_available_pct", "revolving_plus_unsecured_debt"}
  <2>1. /\ f["revolving_available_pct"] = RevolvingAvailable(gs)
        /\ f["revolving_plus_unsecured_debt"] = RevolvingPlusUnsecured(gs)
    BY ComputedFeatures, Zenon
  <2> QED BY <1>2, <1>9, <2>1, RevolvingTypes
<1>10. CASE k = "revolving_balance"
  <2>1. f["revolving_balance"] = Total(gs, "revolving_balance")
    BY ComputedFeatures, Zenon
  <2>2. "revolving_balance" \in GuarantorNumbers
    BY DEF GuarantorNumbers
  <2> QED BY <1>2, <1>10, <2>1, <2>2, GuarantorAnswers
<1>11. CASE k = "years_since_bankruptcy_discharge"
  <2>1. f["years_since_bankruptcy_discharge"] = SinceDischarge(gs)
    BY ComputedFeatures, Zenon
  <2> QED BY <1>2, <1>11, <2>1, DischargeType
<1>12. CASE k = "comparable_credit_pct"
  <2>1. f["comparable_credit_pct"] = ComparablePct(ApplicationInput(p))
    BY ComputedFeatures, Zenon
  <2> QED BY <1>12, <2>1, ComparableType
<1>13. CASE k \in {"equipment_age_years", "equipment_mileage"}
  <2>1. /\ f["equipment_age_years"] = AgeOf(Least(Given(p.equipment, "model_year")))
        /\ f["equipment_mileage"] = Greatest(Given(p.equipment, "mileage"))
    BY ComputedFeatures, Zenon
  <2>2. /\ Least(Given(p.equipment, "model_year")) \in Int \cup {None}
        /\ Greatest(Given(p.equipment, "mileage")) \in Int \cup {None}
    BY <1>2, EquipmentAnswers, LeastType, GreatestType
  <2> QED BY <1>13, <2>1, <2>2, AgeType
<1> HIDE DEF f
<1>14. \/ k \in {"years_in_business", "annual_revenue", "trucks_operated"}
       \/ k \in {"paynet_score", "trade_lines_count", "trade_history_years",
                 "largest_comparable_credit", "comparable_contracts_count",
                 "clean_payment_history_months"}
       \/ k \in {"term_months", "down_payment_pct", "soft_cost_pct"}
       \/ k = "loan_amount"
       \/ k \in LeastOfGuarantors
       \/ k \in GreatestOfGuarantors
       \/ k \in {"revolving_available_pct", "revolving_plus_unsecured_debt"}
       \/ k = "revolving_balance"
       \/ k = "years_since_bankruptcy_discharge"
       \/ k = "comparable_credit_pct"
       \/ k \in {"equipment_age_years", "equipment_mileage"}
  BY DEF NumberFields, LeastOfGuarantors, GreatestOfGuarantors
<1> QED BY <1>3, <1>4, <1>5, <1>6, <1>7, <1>8, <1>9, <1>10, <1>11, <1>12, <1>13, <1>14, Zenon
        DEF f

-----------------------------------------------------------------------------
(* What a complete application says *)

LEMMA NothingMissing ==
    ASSUME NEW p \in ApplicationPayload, MissingFields(p) = {}
    PROVE  /\ \A k \in RequiredBusiness(p) : p.business[k] # None
           /\ \A k \in RequiredLoan : p.loan[k] # None
           /\ \A k \in RequiredCredit : p.business_credit[k] # None
           /\ ~CorpOnly(p) =>
                 /\ p.guarantors # <<>>
                 /\ \A i \in DOMAIN p.guarantors : \A k \in RequiredGuarantor(p) :
                       p.guarantors[i][k] # None
           /\ p.equipment # <<>>
           /\ \A i \in DOMAIN p.equipment : \A k \in RequiredEquipment :
                 p.equipment[i][k] # None
<1>1. ASSUME NEW d, NEW path, NEW R, Missing(d, path, R) = {}
      PROVE  \A k \in R : d[k] # None
  BY <1>1 DEF Missing, Unanswered
<1>2. ASSUME NEW d, NEW path, NEW R, MissingOfEach(d, path, R) = {}
      PROVE  d # <<>> /\ \A i \in DOMAIN d : \A k \in R : d[i][k] # None
  <2>1. d # <<>>
    BY <1>2 DEF MissingOfEach
  <2>2. \A i \in DOMAIN d : Missing(d[i], path, R) = {}
    BY <1>2, <2>1 DEF MissingOfEach
  <2> QED BY <1>1, <2>1, <2>2
<1>3. /\ Missing(p.business, "business", RequiredBusiness(p)) = {}
      /\ Missing(p.loan, "loan", RequiredLoan) = {}
      /\ Missing(p.business_credit, "business_credit", RequiredCredit) = {}
      /\ ~CorpOnly(p) =>
            MissingOfEach(p.guarantors, "guarantors", RequiredGuarantor(p)) = {}
      /\ MissingOfEach(p.equipment, "equipment", RequiredEquipment) = {}
  BY DEF MissingFields
<1> QED BY <1>1, <1>2, <1>3

\* What is known of every complete application, and of one with guarantors.
KnownFields ==
    {"business_state", "industry", "years_in_business", "is_startup",
     "is_trucking", "is_medical", "has_physical_location", "is_us_based",
     "loan_amount", "term_months", "transaction_type",
     "largest_comparable_credit", "comparable_credit_pct",
     "comparable_contracts_count", "equipment_category",
     "equipment_age_years", "equipment_condition"}
KnownOfGuarantors ==
    {"fico_score", "is_homeowner", "is_us_citizen", "revolving_balance", "has_cdl"}

LEMMA BooleansAreKnown == \A b \in BOOLEAN : b # None
BY NoneAssumption

LEMMA BusinessIsKnown ==
    ASSUME NEW p \in ApplicationPayload, MissingFields(p) = {},
           NEW k \in KnownFields
    PROVE  FeaturesOf(p)[k] # None
<1> DEFINE f == FeaturesOf(p)
<1>1. /\ \A j \in {"state", "industry", "years_in_business", "has_physical_location",
                   "is_us_based"} : p.business[j] # None
      /\ \A j \in {"amount", "term_months", "transaction_type"} : p.loan[j] # None
      /\ \A j \in {"largest_comparable_credit", "comparable_contracts_count"} :
            p.business_credit[j] # None
      /\ p.equipment # <<>>
      /\ \A i \in DOMAIN p.equipment :
            \A j \in {"category", "model_year", "condition"} : p.equipment[i][j] # None
  BY NothingMissing DEF RequiredBusiness, RequiredLoan, RequiredCredit, RequiredEquipment
<1>2. CASE k \in {"industry", "years_in_business", "has_physical_location", "is_us_based"}
  <2>1. f[k] = p.business[k]
    BY <1>2, CopiedFeatures
  <2> QED BY <1>1, <1>2, <2>1
<1>3. CASE k \in {"term_months", "transaction_type"}
  <2>1. f[k] = p.loan[k]
    BY <1>3, CopiedFeatures
  <2> QED BY <1>1, <1>3, <2>1
<1>4. CASE k \in {"largest_comparable_credit", "comparable_contracts_count"}
  <2>1. f[k] = p.business_credit[k]
    BY <1>4, CopiedFeatures
  <2> QED BY <1>1, <1>4, <2>1
<1>5. CASE k \in {"business_state", "loan_amount"}
  <2>1. f["business_state"] = p.business.state /\ f["loan_amount"] = p.loan.amount
    BY CopiedFeatures, Zenon
  <2> QED BY <1>1, <1>5, <2>1
<1>6. CASE k \in {"is_startup", "is_trucking", "is_medical"}
  <2>1. /\ f["is_startup"] = (p.business.years_in_business < 2)
        /\ f["is_trucking"] = (p.business.industry = "trucking")
        /\ f["is_medical"] = (p.business.industry \in MedicalIndustries)
    <3>1. p.business.years_in_business # None /\ p.business.industry # None
      BY <1>1
    <3> QED BY <3>1, ComputedFeatures, Zenon
  <2>2. /\ (p.business.years_in_business < 2) \in BOOLEAN
        /\ (p.business.industry = "trucking") \in BOOLEAN
        /\ (p.business.industry \in MedicalIndustries) \in BOOLEAN
    <3>1. p.business.years_in_business \in Int
      <4>1. p.business \in BusinessPayload
        BY DEF ApplicationPayload
      <4>2. p.business.years_in_business \in Int \cup {None}
        BY <4>1 DEF BusinessPayload, Optional, Years
      <4> QED BY <1>1, <4>2
    <3> QED BY <3>1
  <2> QED BY <1>6, <2>1, <2>2, BooleansAreKnown
<1>7. CASE k = "comparable_credit_pct"
  <2>1. f["comparable_credit_pct"] = ComparablePct(ApplicationInput(p))
    BY ComputedFeatures, Zenon
  <2>2. ComparablePct(ApplicationInput(p)) \in Int
    BY <1>1, ComparableType
  <2> QED BY <1>7, <2>1, <2>2, NoneAssumption
<1>8. CASE k \in {"equipment_category", "equipment_condition"}
  <2>1. /\ f["equipment_category"] = p.equipment[1]["category"]
        /\ f["equipment_condition"] = p.equipment[1]["condition"]
    BY <1>1, ComputedFeatures, Zenon
  <2>2. 1 \in DOMAIN p.equipment
    BY <1>1, PayloadLists
  <2> QED BY <1>1, <1>8, <2>1, <2>2
<1>9. CASE k = "equipment_age_years"
  <2>1. f["equipment_age_years"] = AgeOf(Least(Given(p.equipment, "model_year")))
    BY ComputedFeatures, Zenon
  <2>2. 1 \in DOMAIN p.equipment /\ IsFleet(p.equipment)
    BY <1>1, PayloadLists
  <2>3. /\ IsFiniteSet(Given(p.equipment, "model_year"))
        /\ Given(p.equipment, "model_year") \subseteq Int
    BY <2>2, EquipmentAnswers
  <2>4. Given(p.equipment, "model_year") # {}
    <3>1. p.equipment[1]["model_year"] # None
      BY <1>1, <2>2
    <3> QED BY <2>2, <3>1 DEF Given, ToSet
  <2>5. Least(Given(p.equipment, "model_year")) \in Int
    BY <2>3, <2>4, LeastType
  <2> QED BY <1>9, <2>1, <2>5, AgeType, NoneAssumption
<1>10. \/ k \in {"industry", "years_in_business", "has_physical_location", "is_us_based"}
       \/ k \in {"term_months", "transaction_type"}
       \/ k \in {"largest_comparable_credit", "comparable_contracts_count"}
       \/ k \in {"business_state", "loan_amount"}
       \/ k \in {"is_startup", "is_trucking", "is_medical"}
       \/ k = "comparable_credit_pct"
       \/ k \in {"equipment_category", "equipment_condition"}
       \/ k = "equipment_age_years"
  BY DEF KnownFields
<1> QED BY <1>2, <1>3, <1>4, <1>5, <1>6, <1>7, <1>8, <1>9, <1>10

\* Guarantors are there, and have answered what was required of them.
LEMMA TeamAnswers ==
    ASSUME NEW p \in ApplicationPayload, MissingFields(p) = {}, ~CorpOnly(p)
    PROVE  LET gs == Guaranteeing(ApplicationInput(p).guarantors)
           IN  /\ ApplicationInput(p).guarantors = p.guarantors
               /\ DOMAIN gs # {}
               /\ \A i \in DOMAIN gs : i \in DOMAIN p.guarantors /\ gs[i] = p.guarantors[i]
               /\ \A k \in RequiredGuarantor(p) :
                     /\ \A i \in DOMAIN p.guarantors : p.guarantors[i][k] # None
                     /\ \A i \in DOMAIN gs : gs[i][k] # None
                     /\ Given(gs, k) # {}
<1> DEFINE gs == Guaranteeing(ApplicationInput(p).guarantors)
<1>1. ApplicationInput(p).guarantors = p.guarantors
  BY InputEntries
<1>2. p.guarantors # <<>> /\ \A i \in DOMAIN p.guarantors : \A k \in RequiredGuarantor(p) :
                                p.guarantors[i][k] # None
  BY NothingMissing
<1>3. DOMAIN p.guarantors # {}
  BY <1>2 DEF ApplicationPayload
<1>4. DOMAIN gs # {} /\ \A i \in DOMAIN gs : i \in DOMAIN p.guarantors /\ gs[i] = p.guarantors[i]
  BY <1>1, <1>3, GuaranteeingSome
<1> HIDE DEF gs
<1>5. \A k \in RequiredGuarantor(p) : \A i \in DOMAIN gs : gs[i][k] # None
  BY <1>2, <1>4
<1>6. \A k \in RequiredGuarantor(p) : Given(gs, k) # {}
  BY <1>4, <1>5 DEF Given, ToSet
<1> QED BY <1>1, <1>2, <1>4, <1>5, <1>6 DEF gs

LEMMA TeamIsKnown ==
    ASSUME NEW p \in ApplicationPayload, MissingFields(p) = {}, ~CorpOnly(p),
           NEW k \in KnownOfGuarantors
    PROVE  FeaturesOf(p)[k] # None
<1> DEFINE f == FeaturesOf(p)
           gs == Guaranteeing(ApplicationInput(p).guarantors)
<1>1. IsTeam(gs)
  BY PayloadLists
<1>2. DOMAIN gs # {} /\ \A j \in RequiredGuarantor(p) : Given(gs, j) # {}
  BY TeamAnswers
<1>3. CASE k = "fico_score"
  <2>1. f["fico_score"] = Least(Given(gs, "fico_score"))
    BY GuarantorFeatures DEF LeastOfGuarantors
  <2>2. /\ Given(gs, "fico_score") # {}
        /\ IsFiniteSet(Given(gs, "fico_score"))
        /\ Given(gs, "fico_score") \subseteq Int
    BY <1>1, <1>2, GuarantorAnswers DEF RequiredGuarantor, GuarantorNumbers
  <2> HIDE DEF f, gs
  <2> QED BY <1>3, <2>1, <2>2, LeastType, NoneAssumption DEF f
<1>4. CASE k \in {"is_homeowner", "is_us_citizen"}
  <2>1. f[k] = AllTrue(Given(gs, k))
    BY <1>4, GuarantorFeatures DEF AllOfGuarantors
  <2>2. Given(gs, k) # {}
    BY <1>2, <1>4 DEF RequiredGuarantor
  <2>3. AllTrue(Given(gs, k)) = (FALSE \notin Given(gs, k))
    BY <2>2, Zenon DEF AllTrue
  <2>4. (FALSE \notin Given(gs, k)) \in BOOLEAN
    OBVIOUS
  <2> HIDE DEF f, gs
  <2> QED BY <2>1, <2>3, <2>4, BooleansAreKnown DEF f
<1>5. CASE k = "revolving_balance"
  <2>1. f["revolving_balance"] = Total(gs, "revolving_balance")
    BY ComputedFeatures, Zenon
  <2>2. Given(gs, "revolving_balance") # {}
    BY <1>2 DEF RequiredGuarantor
  <2>3. Total(gs, "revolving_balance") \in Int
    BY <1>1, <2>2, GuarantorAnswers DEF GuarantorNumbers
  <2> HIDE DEF f, gs
  <2> QED BY <1>5, <2>1, <2>3, NoneAssumption DEF f
<1>6. CASE k = "has_cdl"
  <2>1. f[k] = IF DOMAIN gs = {} THEN None ELSE TRUE \in Given(gs, k)
    BY <1>6, GuarantorFeatures, Zenon DEF AnyOfSomeGuarantors
  <2>2. f[k] = (TRUE \in Given(gs, k))
    BY <1>2, <2>1, Zenon
  <2>3. (TRUE \in Given(gs, k)) \in BOOLEAN
    OBVIOUS
  <2> HIDE DEF f, gs
  <2> QED BY <2>2, <2>3, BooleansAreKnown DEF f
<1> QED BY <1>3, <1>4, <1>5, <1>6 DEF KnownOfGuarantors

\* A fact that submission insists on is known.
LEMMA CompleteKnown ==
    ASSUME NEW p \in ApplicationPayload, MissingFields(p) = {}
    PROVE  /\ \A k \in KnownFields : FeaturesOf(p)[k] # None
           /\ FeaturesOf(p)["corp_only"] = CorpOnly(p)
           /\ CorpOnly(p) => FeaturesOf(p)["annual_revenue"] # None
           /\ ~CorpOnly(p) => \A k \in KnownOfGuarantors : FeaturesOf(p)[k] # None
           /\ FeaturesOf(p)["is_trucking"] = TRUE => FeaturesOf(p)["trucks_operated"] # None
<1>1. FeaturesOf(p)["corp_only"] = CorpOnly(p)
  BY CopiedFeatures, Zenon
<1>2. /\ FeaturesOf(p)["annual_revenue"] = p.business["annual_revenue"]
      /\ FeaturesOf(p)["trucks_operated"] = p.business["trucks_operated"]
  BY CopiedFeatures
<1>3. CorpOnly(p) => p.business["annual_revenue"] # None
  BY NothingMissing DEF RequiredBusiness
<1>4. FeaturesOf(p)["is_trucking"] = TRUE => p.business["trucks_operated"] # None
  <2>1. p.business.industry = "trucking" => p.business["trucks_operated"] # None
    BY NothingMissing DEF RequiredBusiness
  <2>2. FeaturesOf(p)["is_trucking"] = IF p.business.industry = None THEN None
                                       ELSE p.business.industry = "trucking"
    BY ComputedFeatures, Zenon
  <2>3. p.business.industry # None
    BY NothingMissing DEF RequiredBusiness
  <2>4. FeaturesOf(p)["is_trucking"] = (p.business.industry = "trucking")
    BY <2>2, <2>3, Zenon
  <2> QED BY <2>1, <2>4, Zenon
<1> QED BY <1>1, <1>2, <1>3, <1>4, BusinessIsKnown, TeamIsKnown

-----------------------------------------------------------------------------
(* The items a rule is about *)

LEMMA WithoutConditions == ASSUME NEW items PROVE RelevantItems({}, items) = items
BY DEF RelevantItems

\* What it takes to pass a test of the equipment, other than of its condition and
\* its titles.
LEMMA EquipmentPasses ==
    ASSUME NEW c, c.field \in DOMAIN ItemKey,
           c.field \notin {"equipment_condition", "equipment_is_titled"},
           NEW items, DOMAIN items # {}, TestEquipment(c, items) = "passed"
    PROVE  \A i \in DOMAIN items : /\ items[i][ItemKey[c.field]] # None
                                   /\ Holds(c.operator, items[i][ItemKey[c.field]], c.value.is)
<1> DEFINE seen == {item[ItemKey[c.field]] : item \in ToSet(items)}
<1>1. \A i \in DOMAIN items : items[i][ItemKey[c.field]] \in seen
  BY DEF ToSet
<1>2. TestEquipment(c, items) = IF None \in seen THEN "missing"
                                ELSE Passed(\A v \in seen : Holds(c.operator, v, c.value.is))
  BY DEF TestEquipment
<1> HIDE DEF seen
<1>3. None \notin seen
  BY <1>2
<1>4. \A v \in seen : Holds(c.operator, v, c.value.is)
  BY <1>2, <1>3 DEF Passed
<1> QED BY <1>1, <1>3, <1>4

\* A test of the equipment that finds something missing found it at an item.
LEMMA EquipmentMisses ==
    ASSUME NEW c, c.field \in DOMAIN ItemKey,
           c.field \notin {"equipment_condition", "equipment_is_titled"},
           NEW items, DOMAIN items # {}, TestEquipment(c, items) = "missing"
    PROVE  \E i \in DOMAIN items : items[i][ItemKey[c.field]] = None
<1> DEFINE seen == {item[ItemKey[c.field]] : item \in ToSet(items)}
<1>1. None \in seen
  BY DEF TestEquipment, Passed
<1> QED BY <1>1 DEF ToSet

\* A rule that applies is about every item: a condition on the category of the
\* equipment holds only when all items are of that category.
LEMMA AppliesToAll ==
    ASSUME NEW rule, NEW f, Applies(rule, f), DOMAIN f["_equipment_list"] # {},
           f["_equipment_list"] = [i \in DOMAIN f["_equipment_list"] |-> f["_equipment_list"][i]]
    PROVE  RelevantItems(rule.applies_when, f["_equipment_list"]) = f["_equipment_list"]
<1> DEFINE items == f["_equipment_list"]
           categories == {c.value.is : c \in {c \in rule.applies_when :
                             c.field = "equipment_category" /\ c.operator = "eq"}}
<1>1. CASE categories = {}
  BY <1>1 DEF RelevantItems
<1>2. CASE categories # {}
  <2>1. PICK c \in rule.applies_when : c.field = "equipment_category" /\ c.operator = "eq"
    BY <1>2
  <2>2. Test(c, {}, f) = "passed"
    BY DEF Applies, ConditionHolds
  <2>3. c.field \in DOMAIN ItemKey /\ ItemKey[c.field] = "category"
    BY <2>1 DEF ItemKey
  <2>4. TestEquipment(c, items) = "passed"
    BY <2>2, <2>3, WithoutConditions DEF Test
  <2>5. \A i \in DOMAIN items : Holds("eq", items[i]["category"], c.value.is)
    <3> HIDE DEF items
    <3> QED BY <2>1, <2>3, <2>4, EquipmentPasses DEF items
  <2>6. \A i \in DOMAIN items : items[i].category = c.value.is
    BY <2>5 DEF Holds
  <2>7. c.value.is \in categories
    BY <2>1
  <2> HIDE DEF categories
  <2>8. {i \in DOMAIN items : items[i].category \in categories} = DOMAIN items
    BY <2>6, <2>7
  <2>9. RelevantItems(rule.applies_when, items)
           = Restrict(items, {i \in DOMAIN items : items[i].category \in categories})
    BY <1>2 DEF RelevantItems, categories
  <2>10. Restrict(items, DOMAIN items) = items
    BY DEF Restrict
  <2> QED BY <2>8, <2>9, <2>10
<1> QED BY <1>1, <1>2

LEMMA ItemEntries ==
    ASSUME NEW p \in ApplicationPayload
    PROVE  LET items == FeaturesOf(p)["_equipment_list"]
           IN  /\ items = [i \in DOMAIN items |-> items[i]]
               /\ DOMAIN items = DOMAIN p.equipment
               /\ IsFiniteSet(DOMAIN items)
               /\ \A i \in DOMAIN items :
                     /\ items[i]["category"] = p.equipment[i].category
                     /\ items[i]["age_years"] = AgeOf(p.equipment[i].model_year)
                     /\ items[i]["mileage"] = p.equipment[i].mileage
                     /\ items[i]["age_years"] \in Int \cup {None}
                     /\ items[i]["mileage"] \in Int \cup {None}
<1> DEFINE items == FeaturesOf(p)["_equipment_list"]
<1>1. items = [i \in DOMAIN p.equipment |-> EquipmentItem(p.equipment[i])]
  BY ComputedFeatures, Zenon
<1>2. IsFleet(p.equipment)
  BY PayloadLists
<1>3. \A e : /\ EquipmentItem(e)["category"] = e.category
             /\ EquipmentItem(e)["age_years"] = AgeOf(e.model_year)
             /\ EquipmentItem(e)["mileage"] = e.mileage
  BY DEF EquipmentItem
<1>4. \A i \in DOMAIN p.equipment : /\ p.equipment[i].model_year \in Int \cup {None}
                                    /\ p.equipment[i].mileage \in Int \cup {None}
  BY <1>2, EquipmentAnswers
<1>5. \A i \in DOMAIN p.equipment : AgeOf(p.equipment[i].model_year) \in Int \cup {None}
  BY <1>4, AgeType
<1> HIDE DEF items
<1> QED BY <1>1, <1>2, <1>3, <1>4, <1>5 DEF items, IsFleet

-----------------------------------------------------------------------------
(* The steps of a run *)

\* What a run knows at each step.  The features are those of a complete payload;
\* the rows are ranked once all of them are there and can be sorted.
RunIsOrderly ==
    /\ stage \in {"prepare", "evaluate", "completed", "failed"}
    /\ payload \in Payloads
    /\ \/ /\ features = None
          /\ stage \in {"prepare", "failed"}
          /\ \A l \in Lenders : row[l] = None
       \/ /\ stage # "prepare"
          /\ MissingFields(payload) = {}
          /\ features = FeaturesOf(payload)
    /\ stage # "completed" => \A l \in Lenders : rank[l] = None
    /\ stage = "completed" =>
          \A l \in Lenders :
             /\ row[l] # None /\ Sortable(l)
             /\ rank[l] = Cardinality({m \in Lenders : Before(Key(m), Key(l))}) + 1

LEMMA OrderlyInit == Init => RunIsOrderly
BY DEF Init, RunIsOrderly

LEMMA OrderlyNext == RunIsOrderly /\ [Next]_vars => RunIsOrderly'
<1> SUFFICES ASSUME RunIsOrderly, [Next]_vars PROVE RunIsOrderly'
  OBVIOUS
<1>1. CASE Prepare
  <2>1. /\ stage = "prepare" /\ stage' \in {"evaluate", "failed"}
        /\ payload' = payload /\ row' = row /\ rank' = rank
        /\ features = None /\ \A l \in Lenders : row[l] = None
    BY <1>1 DEF Prepare, RunIsOrderly
  <2>2. CASE MissingFields(payload) # {}
    <3>1. stage' = "failed" /\ features' = features
      BY <1>1, <2>2 DEF Prepare
    <3> QED BY <2>1, <3>1 DEF RunIsOrderly
  <2>3. CASE MissingFields(payload) = {}
    <3>1. stage' = "evaluate" /\ features' = FeaturesOf(payload)
      BY <1>1, <2>3 DEF Prepare, FeaturesOf
    <3>2. FeaturesOf(payload)' = FeaturesOf(payload)
      BY <2>1 DEF FeaturesOf
    <3>3. MissingFields(payload)' = {}
      BY <2>1, <2>3
    <3> QED BY <2>1, <3>1, <3>2, <3>3 DEF RunIsOrderly
  <2> QED BY <2>2, <2>3
<1>2. ASSUME NEW l \in Lenders, EvaluateLender(l) \/ EvaluationFails(l)
      PROVE  RunIsOrderly'
  BY <1>2 DEF EvaluateLender, EvaluationFails, RunIsOrderly
<1>3. CASE Persist
  <2>1. /\ stage = "evaluate" /\ payload' = payload /\ features' = features /\ row' = row
        /\ \A l \in Lenders : row[l] # None
        /\ MissingFields(payload) = {} /\ features = FeaturesOf(payload)
    BY <1>3 DEF Persist, RunIsOrderly
  <2>2. CASE Lenders # {} /\ \A l \in Lenders : Sortable(l)
    <3>1. /\ stage' = "completed"
          /\ rank' = [l \in Lenders |->
                Cardinality({m \in Lenders : Before(Key(m), Key(l))}) + 1]
      BY <1>3, <2>2 DEF Persist
    <3>2. \A l \in Lenders : (row[l] # None /\ Sortable(l))'
      BY <2>1, <2>2 DEF Sortable
    <3>3. \A l \in Lenders : Key(l)' = Key(l)
      BY <2>1 DEF Key
    <3>4. \A l \in Lenders :
             (rank[l] = Cardinality({m \in Lenders : Before(Key(m), Key(l))}) + 1)'
      BY <3>1, <3>3
    <3> QED BY <2>1, <3>1, <3>2, <3>4 DEF RunIsOrderly
  <2>3. CASE ~(Lenders # {} /\ \A l \in Lenders : Sortable(l))
    <3>1. stage' = "failed" /\ rank' = rank
      BY <1>3, <2>3 DEF Persist
    <3> QED BY <2>1, <3>1 DEF RunIsOrderly
  <2> QED BY <2>2, <2>3
<1>4. CASE UNCHANGED vars
  BY <1>4 DEF vars, RunIsOrderly, Sortable, Key
<1> QED BY <1>1, <1>2, <1>3, <1>4 DEF Next

LEMMA DecisionType ==
    ASSUME NEW policy, NEW f
    PROVE  LenderDecision(policy, f) \in Decisions \ {"error"}
<1>1. \A p : ProgramDecision(p, f) \in Decisions \ {"error"}
  BY DEF ProgramDecision, Decisions
<1> QED BY <1>1 DEF LenderDecision, Decisions

LEMMA OrderlyTyped == RowsAreResults /\ RunIsOrderly => TypeOK
<1> SUFFICES ASSUME RowsAreResults, RunIsOrderly PROVE TypeOK
  OBVIOUS
<1>1. features # None => DOMAIN features = Fields \cup {"_equipment_list"}
  <2>1. DOMAIN FeaturesOf(payload) = Fields \cup {"_equipment_list"}
    BY FeatureEntries, Zenon DEF FeaturesOf
  <2> QED BY <2>1 DEF RunIsOrderly
<1>2. \A l \in Lenders : row[l] # None => row[l].decision \in Decisions
  <2>1. ErrorRow.decision \in Decisions
    BY DEF ErrorRow, Decisions
  <2> QED BY <2>1, DecisionType DEF RowsAreResults
<1>3. \A l \in Lenders : rank[l] # None <=> stage = "completed"
  <2>1. ASSUME NEW l \in Lenders
        PROVE  Cardinality({m \in Lenders : Before(Key(m), Key(l))}) + 1 # None
    <3>1. Cardinality({m \in Lenders : Before(Key(m), Key(l))}) \in Nat
      BY LendersAssumption, FS_Subset, FS_CardinalityType
    <3> QED BY <3>1, NoneAssumption
  <2> QED BY <2>1 DEF RunIsOrderly
<1> QED BY <1>1, <1>2, <1>3 DEF RunIsOrderly, TypeOK

LEMMA OrderlyKnown == RunIsOrderly => CompleteIsKnown
<1> SUFFICES ASSUME RunIsOrderly, features # None PROVE CompleteIsKnown
  BY DEF CompleteIsKnown
<1>1. /\ payload \in ApplicationPayload /\ MissingFields(payload) = {}
      /\ features = FeaturesOf(payload)
  BY PayloadsAssumption DEF RunIsOrderly
<1>2. /\ \A k \in KnownFields : features[k] # None
      /\ features["corp_only"] = CorpOnly(payload)
      /\ CorpOnly(payload) => features["annual_revenue"] # None
      /\ ~CorpOnly(payload) => \A k \in KnownOfGuarantors : features[k] # None
      /\ features["is_trucking"] = TRUE => features["trucks_operated"] # None
  BY <1>1, CompleteKnown, Zenon
<1>3. CorpOnly(payload) \in BOOLEAN
  BY DEF CorpOnly
<1>4. ASSUME NEW k \in (IF features["corp_only"] THEN {"annual_revenue"}
                        ELSE {"fico_score", "is_homeowner", "is_us_citizen",
                              "revolving_balance", "has_cdl"})
      PROVE  features[k] # None
  BY <1>2, <1>3, <1>4 DEF KnownOfGuarantors
<1>5. ASSUME NEW k \in (IF features["is_trucking"] = TRUE THEN {"trucks_operated"} ELSE {})
      PROVE  features[k] # None
  BY <1>2, <1>5
<1> QED BY <1>2, <1>4, <1>5 DEF CompleteIsKnown, KnownFields

\* In every run: the features that a run derives have every field of the catalog,
\* its rows are decisions, and they are ranked together.
THEOREM MatchingTypeOKHolds == Spec => []TypeOK
<1>1. Spec => []RowsAreResults
  BY RowsInit, RowsNext, PTL DEF Spec
<1>2. Spec => []RunIsOrderly
  BY OrderlyInit, OrderlyNext, PTL DEF Spec
<1> QED BY <1>1, <1>2, OrderlyTyped, PTL

\* In every run, for every application the schema admits: what submission insists
\* on is never missing from the features that the rules test.
THEOREM CompleteIsKnownHolds == Spec => []CompleteIsKnown
<1>1. Spec => []RunIsOrderly
  BY OrderlyInit, OrderlyNext, PTL DEF Spec
<1> QED BY <1>1, OrderlyKnown, PTL

-----------------------------------------------------------------------------
(* What a match rests on *)

\* An operator that has a direction compares numbers.
LEMMA DirectedRules ==
    ASSUME NEW c, CheckCondition(c), Direction(c.operator) # 0
    PROVE  c.field \in NumberFields /\ c.value.kind = "number"
<1>1. c.operator \in {"gte", "gt", "lte", "lt"}
  BY DEF Direction
<1>2. Shape(c.operator) = "scalar" /\ FieldTypes(c.operator) = {"number"}
  BY <1>1 DEF Shape, FieldTypes
<1>3. Type(c.field) = "number"
  BY <1>2 DEF CheckCondition
<1>4. c.value.kind = "number"
  BY <1>2, <1>3 DEF CheckCondition
<1> QED BY <1>3, <1>4 DEF Type

\* The rules of the policies are valid, and their numbers are integers.
LEMMA StoredRules ==
    ASSUME NEW l \in Lenders, NEW r \in AllRules(Policies[l]), r.kind = "simple"
    PROVE  /\ CheckCondition(r)
           /\ Direction(r.operator) # 0 => r.field \in NumberFields /\ r.value.is \in Int
<1>1. ValidRule(r)
  BY PoliciesAssumption DEF AllRules, ValidPolicy, ValidProgram
<1>2. CheckCondition(r)
  BY <1>1 DEF ValidRule
<1>3. r.value.kind = "number" => r.value.is \in Int
  BY PoliciesAssumption DEF AllRules
<1> QED BY <1>2, <1>3, DirectedRules

LEMMA TestType ==
    ASSUME NEW c, NEW conditions, NEW f
    PROVE  Test(c, conditions, f) \in {"passed", "failed", "missing"}
<1>1. \A b : Passed(b) \in {"passed", "failed"}
  BY DEF Passed
<1>2. \A a : TestOne(c, a) \in {"passed", "failed", "missing"}
  BY <1>1 DEF TestOne
<1>3. \A items : TestEquipment(c, items) \in {"passed", "failed", "missing"}
  BY <1>1, <1>2 DEF TestEquipment
<1> QED BY <1>2, <1>3 DEF Test

\* What a match rests on applied and did not fail; of the program's rules, all
\* passed.
LEMMA RestingRules ==
    ASSUME RowsAreResults, NEW l \in MatchedLenders, NEW r \in RestsOn(l)
    PROVE  /\ l \in Lenders
           /\ r \in AllRules(Policies[l])
           /\ r.kind = "simple"
           /\ Applies(r, features)
           /\ \/ Test(r, r.applies_when, features) = "passed"
              \/ /\ Test(r, r.applies_when, features) = "missing"
                 /\ r \notin OfProgram(l)
<1> DEFINE policy == Policies[l]
           automatic == Clearing(policy, features, "automatic")
           manual == Clearing(policy, features, "manual_review")
           restrictions == Worst(policy.rules, features)
           decided(d, S) == row[l].decision = d /\ Chosen(l) = Best(S)
<1>1. l \in Evaluated /\ l \in Lenders
  BY DEF MatchedLenders, Evaluated
<1>2. row[l].decision \in {"eligible", "manual_review"}
  BY DEF MatchedLenders
<1>3. /\ "failed" \in restrictions => decided("ineligible", {})
      /\ "failed" \notin restrictions =>
           /\ automatic # {} => decided("eligible", automatic)
           /\ automatic = {} /\ manual # {} => decided("manual_review", manual)
           /\ automatic \cup manual = {} =>
                decided(IF Open(policy, features) # {} \/ "missing" \in restrictions
                        THEN "needs_information" ELSE "ineligible",
                        Open(policy, features))
  BY <1>1, RowsJustified DEF DecisionIsJustified
<1>4. /\ Chosen(l) = Best(automatic) \/ Chosen(l) = Best(manual)
      /\ "failed" \notin restrictions
  <2> HIDE DEF policy, automatic, manual, restrictions
  <2> QED BY <1>2, <1>3
<1>5. \A p \in Chosen(l) : /\ p \in policy.programs
                           /\ Worst(p.rules, features) \subseteq {"passed", "skipped"}
  BY <1>4 DEF Best, Clearing, Open
<1>6. /\ r \in policy.rules \cup OfProgram(l)
      /\ r.severity = "hard" /\ r.kind = "simple" /\ Applies(r, features)
  BY DEF RestsOn, Hard
<1>7. r \in AllRules(policy)
  BY <1>5, <1>6 DEF AllRules, OfProgram
<1>8. Outcome(r, features) = Test(r, r.applies_when, features)
  BY <1>6 DEF Outcome
<1>9. r \in OfProgram(l) => Outcome(r, features) \in {"passed", "skipped"}
  BY <1>5, <1>6 DEF OfProgram, Worst, Hard
<1>10. r \in policy.rules => Outcome(r, features) # "failed"
  BY <1>4, <1>6 DEF Worst, Hard
<1> QED BY <1>1, <1>6, <1>7, <1>8, <1>9, <1>10, TestType

LEMMA EveryItemTested == RowsAreResults /\ RunIsOrderly => EveryItemIsTested
<1> SUFFICES ASSUME RowsAreResults, RunIsOrderly,
                    NEW l \in MatchedLenders, NEW r \in RestsOn(l),
                    NEW e \in ToSet(payload.equipment)
             PROVE  /\ (r.field = "equipment_age_years" /\ r.operator = "lte") =>
                          ThisYear - e.model_year <= r.value.is
                    /\ (r.field = "equipment_mileage" /\ r.operator = "lte") =>
                          \/ e.mileage # None /\ e.mileage <= r.value.is
                          \/ /\ r \notin OfProgram(l)
                             /\ \E other \in ToSet(payload.equipment) :
                                    other.mileage = None
                    /\ (r.field = "equipment_category" /\ r.operator = "not_in") =>
                          e.category \notin r.value.is
  BY DEF EveryItemIsTested
<1> DEFINE items == FeaturesOf(payload)["_equipment_list"]
<1>1. /\ l \in Lenders /\ r \in AllRules(Policies[l]) /\ r.kind = "simple"
      /\ Applies(r, features)
      /\ \/ Test(r, r.applies_when, features) = "passed"
         \/ /\ Test(r, r.applies_when, features) = "missing"
            /\ r \notin OfProgram(l)
  BY RestingRules
<1>2. /\ payload \in ApplicationPayload /\ features = FeaturesOf(payload)
      /\ MissingFields(payload) = {}
  <2>1. row[l] # None /\ l \in Lenders
    BY DEF MatchedLenders, Evaluated
  <2> QED BY <2>1, PayloadsAssumption DEF RunIsOrderly
<1>3. PICK i \in DOMAIN payload.equipment : e = payload.equipment[i]
  BY DEF ToSet
<1>4. /\ items = [j \in DOMAIN items |-> items[j]]
      /\ DOMAIN items = DOMAIN payload.equipment
      /\ \A j \in DOMAIN items :
            /\ items[j]["category"] = payload.equipment[j].category
            /\ items[j]["age_years"] = AgeOf(payload.equipment[j].model_year)
            /\ items[j]["mileage"] = payload.equipment[j].mileage
  BY <1>2, ItemEntries, Zenon
<1>5. \A j \in DOMAIN payload.equipment :
         /\ payload.equipment[j].model_year # None
         /\ payload.equipment[j].model_year \in Int \cup {None}
         /\ payload.equipment[j].category # None
  <2>1. \A j \in DOMAIN payload.equipment : \A k \in RequiredEquipment :
           payload.equipment[j][k] # None
    BY <1>2, NothingMissing
  <2>2. \A j \in DOMAIN payload.equipment :
           payload.equipment[j].model_year \in Int \cup {None}
    BY <1>2, PayloadLists, EquipmentAnswers
  <2> QED BY <2>1, <2>2 DEF RequiredEquipment
<1>6. \A j \in DOMAIN payload.equipment :
         LET year == payload.equipment[j].model_year
         IN  AgeOf(year) \in Int /\ AgeOf(year) >= ThisYear - year /\ AgeOf(year) # None
  BY <1>5, AgeType, NoneAssumption
<1>7. ASSUME r.field \in {"equipment_age_years", "equipment_mileage", "equipment_category"}
      PROVE  \/ /\ items[i][ItemKey[r.field]] # None
                /\ Holds(r.operator, items[i][ItemKey[r.field]], r.value.is)
             \/ /\ r \notin OfProgram(l)
                /\ \E j \in DOMAIN items : items[j][ItemKey[r.field]] = None
  <2>1. r.field \in DOMAIN ItemKey
    BY <1>7 DEF ItemKey
  <2>2. DOMAIN items # {} /\ i \in DOMAIN items
    <3> HIDE DEF items
    <3> QED BY <1>3, <1>4
  <2>3. RelevantItems(r.applies_when, items) = items
    BY <1>1, <1>2, <1>4, <2>2, AppliesToAll
  <2>4. Test(r, r.applies_when, features) = TestEquipment(r, items)
    BY <1>2, <2>1, <2>2, <2>3 DEF Test
  <2> HIDE DEF items
  <2> QED BY <1>1, <1>7, <2>1, <2>2, <2>4, EquipmentPasses, EquipmentMisses
<1>8. /\ ItemKey["equipment_age_years"] = "age_years"
      /\ ItemKey["equipment_mileage"] = "mileage"
      /\ ItemKey["equipment_category"] = "category"
  BY DEF ItemKey
<1> HIDE DEF items
<1>9. CASE r.field = "equipment_age_years" /\ r.operator = "lte"
  <2>1. AgeOf(e.model_year) <= r.value.is
    BY <1>3, <1>4, <1>6, <1>7, <1>8, <1>9 DEF Holds
  <2>2. AgeOf(e.model_year) \in Int /\ AgeOf(e.model_year) >= ThisYear - e.model_year
    BY <1>3, <1>6
  <2>3. r.value.is \in Int
    BY <1>1, <1>9, StoredRules DEF Direction
  <2>4. ThisYear - e.model_year \in Int
    BY <1>3, <1>5, ThisYearAssumption
  <2> QED BY <1>9, <2>1, <2>2, <2>3, <2>4
<1>10. CASE r.field = "equipment_mileage" /\ r.operator = "lte"
  <2>1. \/ e.mileage # None /\ e.mileage <= r.value.is
        \/ /\ r \notin OfProgram(l)
           /\ \E j \in DOMAIN payload.equipment : payload.equipment[j].mileage = None
    BY <1>3, <1>4, <1>7, <1>8, <1>10 DEF Holds
  <2> QED BY <1>10, <2>1 DEF ToSet
<1>11. CASE r.field = "equipment_category" /\ r.operator = "not_in"
  BY <1>3, <1>4, <1>5, <1>7, <1>8, <1>11 DEF Holds
<1> QED BY <1>9, <1>10, <1>11

LEMMA WeakestDecides == RowsAreResults /\ RunIsOrderly => WeakestGuarantorDecides
<1> SUFFICES ASSUME RowsAreResults, RunIsOrderly,
                    NEW l \in MatchedLenders, NEW r \in RestsOn(l),
                    r.field = "fico_score", r.operator = "gte", ~CorpOnly(payload)
             PROVE  /\ \A g \in ToSet(payload.guarantors) :
                          g.ownership_pct >= 10 => g.fico_score >= r.value.is
                    /\ \E g \in ToSet(payload.guarantors) : g.fico_score >= r.value.is
  BY DEF WeakestGuarantorDecides
<1> DEFINE gs == Guaranteeing(ApplicationInput(payload).guarantors)
           least == Least(Given(gs, "fico_score"))
<1>1. /\ l \in Lenders /\ r \in AllRules(Policies[l]) /\ r.kind = "simple"
      /\ Test(r, r.applies_when, features) \in {"passed", "missing"}
  BY RestingRules
<1>2. /\ payload \in ApplicationPayload /\ MissingFields(payload) = {}
      /\ features = FeaturesOf(payload)
  <2>1. row[l] # None /\ l \in Lenders
    BY DEF MatchedLenders, Evaluated
  <2> QED BY <2>1, PayloadsAssumption DEF RunIsOrderly
<1>3. features["fico_score"] = least
  BY <1>2, GuarantorFeatures DEF LeastOfGuarantors
<1>4. r.value.is \in Int
  BY <1>1, StoredRules DEF Direction
<1>5. /\ "fico_score" \in RequiredGuarantor(payload)
      /\ "ownership_pct" \in RequiredGuarantor(payload)
      /\ "fico_score" \in GuarantorNumbers /\ "ownership_pct" \in GuarantorNumbers
  BY DEF RequiredGuarantor, GuarantorNumbers
<1>6. /\ ApplicationInput(payload).guarantors = payload.guarantors
      /\ \A i \in DOMAIN gs : i \in DOMAIN payload.guarantors /\ gs[i] = payload.guarantors[i]
      /\ \A i \in DOMAIN payload.guarantors : /\ payload.guarantors[i]["fico_score"] # None
                                              /\ payload.guarantors[i]["ownership_pct"] # None
      /\ Given(gs, "fico_score") # {}
  BY <1>2, <1>5, TeamAnswers, Zenon
<1>7. IsTeam(gs) /\ IsTeam(payload.guarantors)
  BY <1>2, PayloadLists
<1>8. /\ IsFiniteSet(Given(gs, "fico_score")) /\ Given(gs, "fico_score") \subseteq Int
      /\ \A i \in DOMAIN payload.guarantors :
            /\ payload.guarantors[i]["fico_score"] \in Int \cup {None}
            /\ payload.guarantors[i]["ownership_pct"] \in Int \cup {None}
  BY <1>5, <1>7, GuarantorAnswers
<1>9. least \in Given(gs, "fico_score") /\ \A y \in Given(gs, "fico_score") : least <= y
  BY <1>6, <1>8, LeastType
<1>10. features["fico_score"] >= r.value.is
  <2>1. r.field \notin DOMAIN ItemKey
    BY DEF ItemKey
  <2>2. TestOne(r, features["fico_score"]) \in {"passed", "missing"}
    BY <1>1, <2>1 DEF Test
  <2>3. features["fico_score"] # None
    <3> HIDE DEF gs, least
    <3> QED BY <1>3, <1>8, <1>9, NoneAssumption
  <2>4. Holds(r.operator, features["fico_score"], r.value.is)
    BY <2>2, <2>3 DEF TestOne, Passed
  <2> QED BY <2>4 DEF Holds
<1>11. \A i \in DOMAIN payload.guarantors :
          MustGuarantee(payload.guarantors[i]) => i \in DOMAIN gs
  BY <1>6, GuaranteeingSome
<1> HIDE DEF gs, least
<1>12. ASSUME NEW g \in ToSet(payload.guarantors), g.ownership_pct >= 10
       PROVE  g.fico_score >= r.value.is
  <2>1. PICK i \in DOMAIN payload.guarantors : g = payload.guarantors[i]
    BY DEF ToSet
  <2>2. MustGuarantee(g)
    BY <1>12 DEF MustGuarantee, GuarantorThreshold
  <2>3. i \in DOMAIN gs /\ gs[i] = g
    BY <1>6, <1>11, <2>1, <2>2
  <2>4. g.fico_score # None /\ g.fico_score \in Int
    BY <1>6, <1>8, <2>1
  <2>5. g.fico_score \in Given(gs, "fico_score")
    BY <2>3, <2>4 DEF Given, ToSet
  <2>6. least <= g.fico_score /\ least \in Int
    BY <1>8, <1>9, <2>5
  <2> QED BY <1>3, <1>10, <1>4, <2>4, <2>6
<1>13. \E g \in ToSet(payload.guarantors) : g.fico_score >= r.value.is
  <2>1. PICK i \in DOMAIN gs : gs[i].fico_score = least
    BY <1>9 DEF Given, ToSet
  <2>2. gs[i] \in ToSet(payload.guarantors)
    BY <1>6 DEF ToSet
  <2> QED BY <1>3, <1>10, <2>1, <2>2
<1> QED BY <1>12, <1>13

\* In every run, whatever the policies and the application: a match with a minimum
\* score is a match of the weakest of those who have to guarantee.
THEOREM WeakestGuarantorDecidesHolds == Spec => []WeakestGuarantorDecides
<1>1. Spec => []RowsAreResults
  BY RowsInit, RowsNext, PTL DEF Spec
<1>2. Spec => []RunIsOrderly
  BY OrderlyInit, OrderlyNext, PTL DEF Spec
<1> QED BY <1>1, <1>2, WeakestDecides, PTL

\* In every run, whatever the policies and the application: a match means that
\* every item is within the limits of the lender and of the program, those aside
\* that a lender set on a mileage that is not known of some item.
THEOREM EveryItemIsTestedHolds == Spec => []EveryItemIsTested
<1>1. Spec => []RowsAreResults
  BY RowsInit, RowsNext, PTL DEF Spec
<1>2. Spec => []RunIsOrderly
  BY OrderlyInit, OrderlyNext, PTL DEF Spec
<1> QED BY <1>1, <1>2, EveryItemTested, PTL

-----------------------------------------------------------------------------
(* The score *)

LEMMA ClampType ==
    ASSUME NEW n \in Int, NEW high \in Nat
    PROVE  /\ Clamp(0, n, high) \in 0..high
           /\ n \in 0..high => Clamp(0, n, high) = n
<1>1. Min({n, high}) = IF n <= high THEN n ELSE high
  BY MaxMinOfTwo
<1>2. Max({0, Min({n, high})}) = IF 0 >= Min({n, high}) THEN 0 ELSE Min({n, high})
  BY <1>1, MaxMinOfTwo
<1> QED BY <1>1, <1>2 DEF Clamp

LEMMA PerMilleClamp ==
    ASSUME NEW n \in Int
    PROVE  Clamp(0, n, 1000) \in 0..1000
<1>1. 1000 \in Nat
  OBVIOUS
<1>2. PICK high \in Nat : high = 1000
  BY <1>1
<1>3. Clamp(0, n, high) \in 0..high
  BY ClampType
<1>4. Clamp(0, n, 1000) \in 0..1000
  BY <1>2, <1>3
<1> QED BY <1>4

\* A criterion that passed is measured by a number.
LEMMA ActualType ==
    ASSUME NEW l \in Lenders, NEW r \in AllRules(Policies[l]), r.kind = "simple",
           Direction(r.operator) # 0, NEW p \in ApplicationPayload,
           Outcome(r, FeaturesOf(p)) = "passed"
    PROVE  Actual(r, r.applies_when, FeaturesOf(p)) \in Int
<1> DEFINE f == FeaturesOf(p)
           items == f["_equipment_list"]
           relevant == RelevantItems(r.applies_when, items)
<1>1. Applies(r, f) /\ Test(r, r.applies_when, f) = "passed"
  BY DEF Outcome
<1>2. r.field \in NumberFields
  BY StoredRules
<1>3. f[r.field] \in Int \cup {None}
  BY <1>2, NumberFeatures
<1>4. /\ items = [i \in DOMAIN items |-> items[i]]
      /\ IsFiniteSet(DOMAIN items)
      /\ \A i \in DOMAIN items : /\ items[i]["age_years"] \in Int \cup {None}
                                 /\ items[i]["mileage"] \in Int \cup {None}
  BY ItemEntries, Zenon
<1>5. Actual(r, r.applies_when, f) =
         IF r.field \in DOMAIN ItemKey /\ DOMAIN relevant # {}
         THEN Greatest(Given(relevant, ItemKey[r.field])) ELSE f[r.field]
  BY DEF Actual
<1>6. Test(r, r.applies_when, f) =
         IF r.field \in DOMAIN ItemKey /\ DOMAIN items # {}
         THEN TestEquipment(r, relevant) ELSE TestOne(r, f[r.field])
  BY DEF Test
<1>7. DOMAIN items = {} => DOMAIN relevant = {}
  BY DEF RelevantItems, Restrict
<1>8. DOMAIN items # {} => relevant = items
  BY <1>1, <1>4, AppliesToAll
<1> HIDE DEF items, relevant, f
<1>9. CASE r.field \in DOMAIN ItemKey /\ DOMAIN items # {}
  <2> DEFINE key == ItemKey[r.field]
  <2>1. r.field \in {"equipment_age_years", "equipment_mileage"}
    BY <1>2, <1>9 DEF ItemKey, NumberFields
  <2>2. key \in {"age_years", "mileage"}
    BY <2>1 DEF ItemKey
  <2>3. TestEquipment(r, items) = "passed"
    BY <1>1, <1>6, <1>8, <1>9
  <2>4. \A i \in DOMAIN items : items[i][key] # None
    BY <1>9, <2>1, <2>3, EquipmentPasses
  <2>5. \A i \in DOMAIN items : items[i][key] \in Int \cup {None}
    BY <1>4, <2>2
  <2> HIDE DEF key
  <2>6. IsFiniteSet(Given(items, key)) /\ Given(items, key) \subseteq Int
    BY <1>4, <2>5, GivenType
  <2>7. Given(items, key) # {}
    BY <1>9, <2>4 DEF Given, ToSet
  <2>8. Greatest(Given(items, key)) \in Int
    BY <2>6, <2>7, GreatestType
  <2> QED BY <1>5, <1>8, <1>9, <2>8 DEF f, key
<1>10. CASE ~(r.field \in DOMAIN ItemKey /\ DOMAIN items # {})
  <2>1. TestOne(r, f[r.field]) = "passed"
    BY <1>1, <1>6, <1>10
  <2>2. f[r.field] # None
    BY <2>1 DEF TestOne
  <2>3. Actual(r, r.applies_when, f) = f[r.field]
    BY <1>5, <1>7, <1>10
  <2> QED BY <1>3, <2>2, <2>3 DEF f
<1> QED BY <1>9, <1>10

LEMMA HeadroomType ==
    ASSUME NEW l \in Lenders, NEW r \in AllRules(Policies[l]),
           NEW p \in ApplicationPayload, Outcome(r, FeaturesOf(p)) = "passed",
           Headroom(r, FeaturesOf(p)) # None
    PROVE  Headroom(r, FeaturesOf(p)) \in 0..1000
<1> DEFINE f == FeaturesOf(p)
           actual == Actual(r, r.applies_when, f)
           expected == r.value.is
           direction == Direction(r.operator)
           span == IF HeadroomSpan(r.field) # None THEN 4 * HeadroomSpan(r.field)
                   ELSE Max({expected, -expected})
           measure == (4000 * (actual - expected) * direction) \div span
<1>1. Headroom(r, f) = IF r.kind # "simple" \/ direction = 0 \/ span <= 0 THEN None
                       ELSE Clamp(0, measure, 1000)
  BY DEF Headroom
<1>2. r.kind = "simple" /\ direction # 0 /\ ~(span <= 0)
  <2> HIDE DEF f, direction, span, measure
  <2> QED BY <1>1 DEF f
<1>3. Headroom(r, f) = Clamp(0, measure, 1000)
  <2> HIDE DEF f, direction, span, measure
  <2> QED BY <1>1, <1>2
<1>4. actual \in Int
  BY <1>2, ActualType
<1>5. expected \in Int
  BY <1>2, StoredRules
<1>6. direction \in Int
  BY DEF Direction
<1>7. span \in Int
  <2>1. HeadroomSpan(r.field) \in {60, 5, 40, 50, None}
    BY DEF HeadroomSpan
  <2>2. -expected \in Int
    BY <1>5
  <2>3. Max({expected, -expected}) \in Int
    BY <1>5, <2>2, MaxMinOfTwo
  <2> HIDE DEF expected
  <2> QED BY <2>1, <2>3
<1>8. measure \in Int
  <2> HIDE DEF actual, expected, direction, span
  <2>1. span \in Nat \ {0}
    BY <1>2, <1>7
  <2>2. 4000 * (actual - expected) * direction \in Int
    BY <1>4, <1>5, <1>6
  <2> QED BY <2>1, <2>2
<1>9. Clamp(0, measure, 1000) \in 0..1000
  <2> HIDE DEF measure
  <2> QED BY <1>8, PerMilleClamp
<1> HIDE DEF measure, actual, expected, direction, span
<1> QED BY <1>3, <1>9

\* The share of a part, in the units of the whole.
LEMMA ShareBounds ==
    ASSUME NEW whole \in Nat \ {0}, NEW part \in 0..whole, NEW k \in Nat
    PROVE  (k * part) \div whole \in 0..k
<1>1. k * part \in 0..(k * whole)
  BY SMT
<1>2. /\ (k * part) \div whole \in Int
      /\ k * part = (whole * ((k * part) \div whole)) + ((k * part) % whole)
      /\ (k * part) % whole \in 0..(whole - 1)
  BY <1>1, SMT
<1>3. (k * part) \div whole >= 0
  BY <1>1, <1>2, SMT
<1>4. (k * part) \div whole <= k
  <2> DEFINE q == (k * part) \div whole
  <2>1. q \in Int /\ whole * q <= k * whole
    BY <1>1, <1>2, SMT
  <2> HIDE DEF q
  <2>2. ASSUME q >= k + 1 PROVE FALSE
    <3>1. whole * q >= whole * (k + 1)
      BY <2>1, <2>2, SMT
    <3>2. whole * (k + 1) = k * whole + whole
      BY SMT
    <3>3. whole * q \in Int /\ k * whole \in Int
      BY <2>1, SMT
    <3> QED BY <2>1, <3>1, <3>2, <3>3, SMT
  <2> QED BY <2>1, <2>2 DEF q
<1> QED BY <1>2, <1>3, <1>4

\* The points of a tier, in tenths.
TierPoints(position) == (400 * Max({200, 1000 - 250 * position})) \div 1000
TierOf(position) == Max({8, 40 - 10 * position})

LEMMA TierBounds ==
    ASSUME NEW position \in Nat
    PROVE  /\ TierOf(position) \in 8..40
           /\ TierPoints(position) = 10 * TierOf(position)
<1>1. 1000 - 250 * position \in Int /\ 40 - 10 * position \in Int
  OBVIOUS
<1>2. /\ Max({200, 1000 - 250 * position}) =
            IF 200 >= 1000 - 250 * position THEN 200 ELSE 1000 - 250 * position
      /\ Max({8, 40 - 10 * position}) =
            IF 8 >= 40 - 10 * position THEN 8 ELSE 40 - 10 * position
  BY <1>1, MaxMinOfTwo
<1>3. CASE position >= 4
  <2>1. 200 >= 1000 - 250 * position /\ 8 >= 40 - 10 * position
    BY <1>3
  <2>2. Max({200, 1000 - 250 * position}) = 200 /\ Max({8, 40 - 10 * position}) = 8
    BY <1>2, <2>1
  <2>3. TierOf(position) = 8 /\ TierPoints(position) = (400 * 200) \div 1000
    BY <2>2 DEF TierOf, TierPoints
  <2>4. (400 * 200) \div 1000 = 80
    BY SMT
  <2> QED BY <2>3, <2>4
<1>4. CASE position \in 0..3
  <2>1. ~(200 >= 1000 - 250 * position) /\ ~(8 >= 40 - 10 * position)
    BY <1>4
  <2>2. /\ Max({200, 1000 - 250 * position}) = 1000 - 250 * position
        /\ Max({8, 40 - 10 * position}) = 40 - 10 * position
    BY <1>2, <2>1
  <2>3. /\ TierOf(position) = 40 - 10 * position
        /\ TierPoints(position) = (400 * (1000 - 250 * position)) \div 1000
    BY <2>2 DEF TierOf, TierPoints
  <2>4. (400 * (1000 - 250 * position)) \div 1000 = 400 - 100 * position
    BY <1>4, SMT
  <2> QED BY <1>4, <2>3, <2>4
<1> QED BY <1>3, <1>4

\* What a match scores for its headroom and for the preferences it meets.
Cleared(rules, f) == {r \in With(Hard(rules), "passed", f) : Headroom(r, f) # None}
Soft(rules, f) == {r \in rules : r.severity = "soft"} \ With(rules, "skipped", f)
Margins(rules, f) == HeadroomSum(Cleared(rules, f), f)
HeadroomPoints(rules, f) ==
    IF Cleared(rules, f) = {} THEN 200
    ELSE (400 * Margins(rules, f)) \div (1000 * Cardinality(Cleared(rules, f)))
PreferencePoints(rules, f) ==
    IF Soft(rules, f) = {} THEN 100
    ELSE (200 * Cardinality(With(Soft(rules, f), "passed", f)))
            \div Cardinality(Soft(rules, f))

LEMMA ScoreParts ==
    ASSUME NEW position, NEW rules, NEW f
    PROVE  ScoreMatch(position, rules, f) =
              Clamp(0, (TierPoints(position) + HeadroomPoints(rules, f)
                           + PreferencePoints(rules, f) + 5) \div 10, 100)
BY DEF ScoreMatch, TierPoints, HeadroomPoints, PreferencePoints, Cleared, Soft, Margins,
       HeadroomSum

LEMMA PreferenceBounds ==
    ASSUME NEW rules, IsFiniteSet(rules), NEW f
    PROVE  PreferencePoints(rules, f) \in 0..200
<1>1. Soft(rules, f) \subseteq rules
  BY DEF Soft
<1>2. With(Soft(rules, f), "passed", f) \subseteq Soft(rules, f)
  BY DEF With
<1>3. IsFiniteSet(Soft(rules, f))
  BY <1>1, FS_Subset
<1>4. /\ Cardinality(Soft(rules, f)) \in Nat
      /\ Cardinality(With(Soft(rules, f), "passed", f)) \in
            0..Cardinality(Soft(rules, f))
  BY <1>2, <1>3, FS_Subset, FS_CardinalityType
<1>5. Soft(rules, f) # {} => Cardinality(Soft(rules, f)) # 0
  BY <1>3, FS_EmptySet
<1>6. CASE Soft(rules, f) = {}
  BY <1>6 DEF PreferencePoints
<1>7. CASE Soft(rules, f) # {}
  <2>1. /\ Cardinality(Soft(rules, f)) \in Nat \ {0} /\ 200 \in Nat
    BY <1>4, <1>5, <1>7
  <2>2. (200 * Cardinality(With(Soft(rules, f), "passed", f)))
            \div Cardinality(Soft(rules, f)) \in 0..200
    BY <1>4, <2>1, ShareBounds
  <2> QED BY <1>7, <2>2 DEF PreferencePoints
<1> QED BY <1>6, <1>7

LEMMA HeadroomBounds ==
    ASSUME NEW l \in Lenders, NEW rules \in SUBSET AllRules(Policies[l]), IsFiniteSet(rules),
           NEW p \in ApplicationPayload
    PROVE  HeadroomPoints(rules, FeaturesOf(p)) \in 0..400
<1> DEFINE f == FeaturesOf(p)
           cleared == Cleared(rules, f)
           n == Cardinality(cleared)
           v == [r \in cleared |-> Headroom(r, f)]
<1>1. \A r \in cleared : /\ r \in AllRules(Policies[l])
                         /\ Outcome(r, f) = "passed"
                         /\ Headroom(r, f) # None
  BY DEF Cleared, With, Hard
<1>2. \A r \in cleared : Headroom(r, f) \in 0..1000
  <2> HIDE DEF cleared
  <2> QED BY <1>1, HeadroomType
<1>3. cleared \subseteq rules
  BY DEF Cleared, With, Hard
<1>4. IsFiniteSet(cleared) /\ n \in Nat /\ (cleared # {} => n # 0)
  <2> HIDE DEF cleared
  <2> QED BY <1>3, FS_Subset, FS_CardinalityType, FS_EmptySet
<1>5. PICK g : Sums(g, cleared, v) /\ Margins(rules, f) = g[cleared]
  BY <1>4, SumOfHeadroom DEF Margins
<1>6. Margins(rules, f) \in 0..(1000 * n)
  <2>1. \A r \in cleared : v[r] \in 0..1000
    BY <1>2
  <2>2. 1000 \in Nat
    OBVIOUS
  <2>3. PICK k \in Nat : k = 1000
    BY <2>2
  <2>4. \A r \in cleared : v[r] \in 0..k
    BY <2>1, <2>3
  <2>5. g[cleared] \in 0..(k * n)
    <3> HIDE DEF cleared, v
    <3> QED BY <1>4, <1>5, <2>4, SumBounds
  <2> QED BY <1>5, <2>3, <2>5
<1>7. HeadroomPoints(rules, f) = IF cleared = {} THEN 200
                                 ELSE (400 * Margins(rules, f)) \div (1000 * n)
  BY DEF HeadroomPoints
<1> HIDE DEF cleared, n
<1>8. cleared # {} => (400 * Margins(rules, f)) \div (1000 * n) \in 0..400
  <2> SUFFICES ASSUME cleared # {}
               PROVE  (400 * Margins(rules, f)) \div (1000 * n) \in 0..400
    OBVIOUS
  <2>1. 1000 * n \in Nat \ {0} /\ 400 \in Nat
    BY <1>4
  <2>2. PICK whole \in Nat \ {0} : whole = 1000 * n
    BY <2>1
  <2>3. PICK k \in Nat : k = 400
    BY <2>1
  <2>4. Margins(rules, f) \in 0..whole
    BY <1>6, <2>2
  <2>5. (k * Margins(rules, f)) \div whole \in 0..k
    BY <2>4, ShareBounds
  <2> QED BY <2>2, <2>3, <2>5
<1> QED BY <1>7, <1>8

LEMMA PoliciesAreStored ==
    ASSUME NEW l \in Lenders
    PROVE  Stored(Policies[l]) /\ None \notin Nat
<1>1. Stored(Policies[l])
  BY PoliciesAssumption DEF Stored
<1>2. None \notin Nat
  BY NoneAssumption
<1> QED BY <1>1, <1>2

\* The program of a match is one of the policy's.
LEMMA MatchedIsStored ==
    ASSUME NEW l \in Lenders, NEW f,
           LenderDecision(Policies[l], f) \in {"eligible", "manual_review"}
    PROVE  Matched(Policies[l], f) # None /\ Matched(Policies[l], f) \in Policies[l].programs
<1> DEFINE policy == Policies[l]
           first(decision) == FirstOf(Decided(policy, f, decision))
<1>1. Stored(policy)
  BY PoliciesAreStored
<1>2. Matched(policy, f) # None
  BY DEF LenderDecision
<1>3. ASSUME NEW d, first(d) # None PROVE first(d) \in policy.programs
  <2>1. Decided(policy, f, d) \subseteq policy.programs
    BY DEF Decided, Applicable
  <2> HIDE DEF policy
  <2> QED BY <1>1, <1>3, <2>1, FirstIsBest
<1>4. \/ Matched(policy, f) = first("eligible")
      \/ Matched(policy, f) = first("manual_review")
      \/ Matched(policy, f) = first("needs_information")
  BY <1>2 DEF Matched
<1> HIDE DEF policy, first
<1> QED BY <1>2, <1>3, <1>4 DEF policy

LEMMA ScoreOfMatch ==
    ASSUME NEW position \in Nat, NEW rules, NEW f,
           HeadroomPoints(rules, f) \in 0..400, PreferencePoints(rules, f) \in 0..200
    PROVE  ScoreMatch(position, rules, f) \in TierOf(position)..(TierOf(position) + 60)
<1> DEFINE t == TierOf(position)
           h == HeadroomPoints(rules, f)
           q == PreferencePoints(rules, f)
           points == (10 * t + h + q + 5) \div 10
<1>1. t \in 8..40 /\ TierPoints(position) = 10 * t
  BY TierBounds
<1>2. ScoreMatch(position, rules, f) = Clamp(0, points, 100)
  BY <1>1, ScoreParts
<1>3. points \in t..(t + 60)
  <2> HIDE DEF t, h, q
  <2>1. h \in 0..400 /\ q \in 0..200
    BY DEF h, q
  <2> QED BY <1>1, <2>1, SMT
<1>4. points \in Int /\ points \in 0..100
  <2> HIDE DEF points, t
  <2> QED BY <1>1, <1>3
<1>5. Clamp(0, points, 100) = points
  <2> HIDE DEF points
  <2>1. 100 \in Nat
    OBVIOUS
  <2>2. PICK high \in Nat : high = 100
    BY <2>1
  <2>3. points \in 0..high
    BY <1>4, <2>2
  <2>4. Clamp(0, points, high) = points
    BY <1>4, <2>3, ClampType
  <2> QED BY <2>2, <2>4
<1> HIDE DEF points, t
<1> QED BY <1>2, <1>3, <1>5 DEF t

LEMMA ScoreType ==
    ASSUME NEW l \in Lenders, NEW p \in ApplicationPayload
    PROVE  LET policy == Policies[l]
               f == FeaturesOf(p)
           IN  /\ Position(policy, f) \in Nat
               /\ IF LenderDecision(policy, f) \notin {"eligible", "manual_review"}
                  THEN FitScore(policy, f) = 0
                  ELSE FitScore(policy, f) \in
                          TierOf(Position(policy, f))..(TierOf(Position(policy, f)) + 60)
               /\ FitScore(policy, f) \in Int
<1> DEFINE policy == Policies[l]
           f == FeaturesOf(p)
           matched == Matched(policy, f)
           rules == policy.rules \cup matched.rules
<1>1. Position(policy, f) \in Nat
  <2>1. {x \in Applicable(policy, f) : x.rank < matched.rank} \subseteq policy.programs
    BY DEF Applicable
  <2>2. IsFiniteSet(policy.programs)
    BY PoliciesAssumption
  <2> QED BY <2>1, <2>2, FS_Subset, FS_CardinalityType DEF Position
<1>2. CASE LenderDecision(policy, f) \notin {"eligible", "manual_review"}
  <2>1. FitScore(policy, f) = 0
    BY <1>2 DEF FitScore
  <2> QED BY <1>1, <1>2, <2>1
<1>3. CASE LenderDecision(policy, f) \in {"eligible", "manual_review"}
  <2>1. matched \in policy.programs
    BY <1>3, MatchedIsStored
  <2>2. rules \in SUBSET AllRules(policy)
    BY <2>1 DEF AllRules
  <2>3. IsFiniteSet(rules)
    BY <2>1, PoliciesAssumption, FS_Union
  <2>4. FitScore(policy, f) = ScoreMatch(Position(policy, f), rules, f)
    BY <1>3 DEF FitScore
  <2> HIDE DEF rules
  <2>5. HeadroomPoints(rules, f) \in 0..400 /\ PreferencePoints(rules, f) \in 0..200
    BY <2>2, <2>3, HeadroomBounds, PreferenceBounds
  <2> HIDE DEF policy, f
  <2>6. FitScore(policy, f) \in TierOf(Position(policy, f))..(TierOf(Position(policy, f)) + 60)
    BY <1>1, <2>4, <2>5, ScoreOfMatch
  <2> QED BY <1>1, <1>3, <2>6 DEF policy, f
<1> QED BY <1>2, <1>3

LEMMA ScoresBounded == RowsAreResults /\ RunIsOrderly => ScoreIsBounded
<1> SUFFICES ASSUME RowsAreResults, RunIsOrderly, NEW l \in Evaluated
             PROVE  IF row[l].decision \notin {"eligible", "manual_review"}
                    THEN row[l].fit_score = 0
                    ELSE LET better == {p \in Applicable(Policies[l], features) :
                                           p.rank < row[l].matched}
                             tier == Max({8, 40 - 10 * Cardinality(better)})
                         IN  row[l].fit_score \in tier..(tier + 60)
  BY DEF ScoreIsBounded
<1> DEFINE policy == Policies[l]
<1>1. /\ row[l].decision = LenderDecision(policy, features)
      /\ row[l].matched = MatchedRank(policy, features)
      /\ row[l].fit_score = FitScore(policy, features)
  BY RowOfEvaluated
<1>2. l \in Lenders /\ payload \in ApplicationPayload /\ features = FeaturesOf(payload)
  <2>1. row[l] # None /\ l \in Lenders
    BY DEF Evaluated
  <2> QED BY <2>1, PayloadsAssumption DEF RunIsOrderly
<1>3. IF LenderDecision(policy, features) \notin {"eligible", "manual_review"}
      THEN FitScore(policy, features) = 0
      ELSE FitScore(policy, features) \in
              TierOf(Position(policy, features))..(TierOf(Position(policy, features)) + 60)
  BY <1>2, ScoreType, Zenon
<1>4. CASE row[l].decision \notin {"eligible", "manual_review"}
  BY <1>1, <1>3, <1>4
<1>5. CASE row[l].decision \in {"eligible", "manual_review"}
  <2> DEFINE better == {p \in Applicable(policy, features) : p.rank < row[l].matched}
  <2>1. row[l].matched = Matched(policy, features).rank
    BY <1>1, <1>2, <1>5, MatchedIsStored DEF MatchedRank
  <2>2. Position(policy, features) = Cardinality(better)
    BY <2>1 DEF Position
  <2>3. TierOf(Position(policy, features)) = Max({8, 40 - 10 * Cardinality(better)})
    BY <2>2 DEF TierOf
  <2>4. row[l].fit_score \in TierOf(Position(policy, features))
                              ..(TierOf(Position(policy, features)) + 60)
    BY <1>1, <1>3, <1>5
  <2> HIDE DEF better
  <2> QED BY <1>5, <2>3, <2>4 DEF better
<1> QED BY <1>4, <1>5

\* In every run, whatever the policies and the application: a match scores its
\* tier and at most sixty points more, and only a match scores.
THEOREM ScoreIsBoundedHolds == Spec => []ScoreIsBounded
<1>1. Spec => []RowsAreResults
  BY RowsInit, RowsNext, PTL DEF Spec
<1>2. Spec => []RunIsOrderly
  BY OrderlyInit, OrderlyNext, PTL DEF Spec
<1> QED BY <1>1, <1>2, ScoresBounded, PTL

-----------------------------------------------------------------------------
(* The ranks *)

\* A numbering of a finite set that follows a total order uses every number.
LEMMA OrderedNumbers ==
    ASSUME NEW S, IsFiniteSet(S), NEW R,
           \A x, y \in S : x # y => <<x, y>> \in R \/ <<y, x>> \in R,
           NEW place \in [S -> 1..Cardinality(S)],
           \A x, y \in S : <<x, y>> \in R => place[x] < place[y]
    PROVE  /\ {place[x] : x \in S} = 1..Cardinality(S)
           /\ \A x, y \in S : place[x] < place[y] => <<x, y>> \in R
<1> DEFINE n == Cardinality(S)
<1>1. n \in Nat
  BY FS_CardinalityType
<1>2. \A x \in S : place[x] \in Int
  BY <1>1
<1>3. \A x, y \in S : place[x] < place[y] => ~(place[y] < place[x]) /\ x # y
  BY <1>2
<1>4. \A x, y \in S : place[x] = place[y] => x = y
  <2>1. \A x, y \in S : x # y => place[x] < place[y] \/ place[y] < place[x]
    BY Zenon
  <2> QED BY <1>2, <2>1
<1>5. place \in Injection(S, 1..n)
  BY <1>4 DEF Injection, IsInjective
<1>6. IsFiniteSet(1..n) /\ Cardinality(1..n) = n
  <2> HIDE DEF n
  <2> QED BY <1>1, FS_Interval
<1>7. place \in Surjection(S, 1..n)
  <2>1. Cardinality(S) = Cardinality(1..n)
    BY <1>6
  <2> HIDE DEF n
  <2> QED BY <1>5, <1>6, <2>1, FS_Injection
<1>8. {place[x] : x \in S} = 1..n
  <2> HIDE DEF n
  <2>1. \A k \in 1..n : \E x \in S : place[x] = k
    BY <1>7 DEF Surjection
  <2>2. \A x \in S : place[x] \in 1..n
    BY DEF n
  <2> QED BY <2>1, <2>2
<1> QED BY <1>3, <1>8

\* Counting those before each member numbers the members of a finite set in a
\* strict total order.
Below(S, R, x) == {y \in S : <<y, x>> \in R}

LEMMA CountingNumbers ==
    ASSUME NEW S, IsFiniteSet(S), NEW R,
           \A x \in S : <<x, x>> \notin R,
           \A x, y \in S : x # y => <<x, y>> \in R \/ <<y, x>> \in R,
           \A x, y, z \in S : <<x, y>> \in R /\ <<y, z>> \in R => <<x, z>> \in R
    PROVE  LET place == [x \in S |-> Cardinality(Below(S, R, x)) + 1]
           IN  /\ {place[x] : x \in S} = 1..Cardinality(S)
               /\ \A x, y \in S : place[x] < place[y] => <<x, y>> \in R
<1> DEFINE n == Cardinality(S)
           place == [x \in S |-> Cardinality(Below(S, R, x)) + 1]
<1>1. n \in Nat
  BY FS_CardinalityType
<1>2. ASSUME NEW x \in S
      PROVE  /\ IsFiniteSet(Below(S, R, x))
             /\ Cardinality(Below(S, R, x)) \in Nat
             /\ Cardinality(Below(S, R, x)) <= n - 1
  <2>1. Below(S, R, x) \in SUBSET (S \ {x})
    BY DEF Below
  <2>2. IsFiniteSet(S \ {x}) /\ Cardinality(S \ {x}) = n - 1
    BY FS_RemoveElement
  <2> QED BY <2>1, <2>2, FS_Subset, FS_CardinalityType
<1>3. ASSUME NEW x \in S, NEW y \in S, <<x, y>> \in R
      PROVE  Cardinality(Below(S, R, x)) < Cardinality(Below(S, R, y))
  <2>1. /\ Below(S, R, x) \in SUBSET Below(S, R, y)
        /\ Below(S, R, x) # Below(S, R, y)
    BY <1>3 DEF Below
  <2>2. /\ Cardinality(Below(S, R, x)) <= Cardinality(Below(S, R, y))
        /\ Cardinality(Below(S, R, x)) # Cardinality(Below(S, R, y))
    BY <1>2, <2>1, FS_Subset
  <2> QED BY <1>2, <2>2
<1>4. place \in [S -> 1..n]
  <2> HIDE DEF n
  <2>1. \A x \in S : Cardinality(Below(S, R, x)) + 1 \in 1..n
    BY <1>1, <1>2
  <2> QED BY <2>1
<1>5. \A x, y \in S : <<x, y>> \in R => place[x] < place[y]
  BY <1>2, <1>3
<1> HIDE DEF place
<1>6. /\ {place[x] : x \in S} = 1..Cardinality(S)
      /\ \A x, y \in S : place[x] < place[y] => <<x, y>> \in R
  BY <1>4, <1>5, OrderedNumbers
<1> QED BY <1>6, Zenon DEF place

LEMMA BeforeCases ==
    ASSUME NEW a1 \in Int, NEW a2 \in Int, NEW a3 \in Int, NEW a4 \in Int,
           NEW b1 \in Int, NEW b2 \in Int, NEW b3 \in Int, NEW b4 \in Int
    PROVE  Before(<<a1, a2, a3, a4>>, <<b1, b2, b3, b4>>) <=>
              \/ a1 < b1
              \/ a1 = b1 /\ a2 < b2
              \/ a1 = b1 /\ a2 = b2 /\ a3 < b3
              \/ a1 = b1 /\ a2 = b2 /\ a3 = b3 /\ a4 < b4
<1> DEFINE k1 == <<a1, a2, a3, a4>>
           k2 == <<b1, b2, b3, b4>>
           at(i) == k1[i] < k2[i] /\ \A j \in 1..(i - 1) : k1[j] = k2[j]
<1>1. /\ DOMAIN k1 = 1..4
      /\ k1[1] = a1 /\ k1[2] = a2 /\ k1[3] = a3 /\ k1[4] = a4
      /\ k2[1] = b1 /\ k2[2] = b2 /\ k2[3] = b3 /\ k2[4] = b4
  OBVIOUS
<1>2. Before(k1, k2) <=> \E i \in DOMAIN k1 : at(i)
  BY DEF Before
<1> HIDE DEF k1, k2
<1>3. Before(k1, k2) <=> at(1) \/ at(2) \/ at(3) \/ at(4)
  <2>1. DOMAIN k1 = {1, 2, 3, 4}
    BY <1>1
  <2> HIDE DEF at
  <2> QED BY <1>2, <2>1
<1>4. /\ 1..(1 - 1) = {}
      /\ 1..(2 - 1) = {1}
      /\ 1..(3 - 1) = {1, 2}
      /\ 1..(4 - 1) = {1, 2, 3}
  OBVIOUS
<1>5. /\ at(1) <=> a1 < b1
      /\ at(2) <=> a2 < b2 /\ a1 = b1
      /\ at(3) <=> a3 < b3 /\ a1 = b1 /\ a2 = b2
      /\ at(4) <=> a4 < b4 /\ a1 = b1 /\ a2 = b2 /\ a3 = b3
  BY <1>1, <1>4
<1> HIDE DEF at
<1> QED BY <1>3, <1>5 DEF k1, k2

LEMMA ClosestIsStored ==
    ASSUME NEW l \in Lenders, NEW f
    PROVE  \/ Closest(Policies[l], f) = None
           \/ Closest(Policies[l], f) \in Policies[l].programs
<1> DEFINE policy == Policies[l]
           first(decision) == FirstOf(Decided(policy, f, decision))
<1>1. Stored(policy)
  BY PoliciesAreStored
<1>2. CASE Matched(policy, f) # None
  <2>1. ASSUME NEW d, first(d) # None PROVE first(d) \in policy.programs
    <3>1. Decided(policy, f, d) \subseteq policy.programs
      BY DEF Decided, Applicable
    <3> HIDE DEF policy
    <3> QED BY <1>1, <2>1, <3>1, FirstIsBest
  <2>2. \/ Matched(policy, f) = first("eligible")
        \/ Matched(policy, f) = first("manual_review")
        \/ Matched(policy, f) = first("needs_information")
    BY <1>2 DEF Matched
  <2>3. Closest(policy, f) = Matched(policy, f)
    BY <1>2 DEF Closest
  <2> HIDE DEF policy, first
  <2> QED BY <1>2, <2>1, <2>2, <2>3 DEF policy
<1>3. CASE Matched(policy, f) = None /\ Applicable(policy, f) # {}
  <2>1. Closest(policy, f) =
           CHOOSE p \in Applicable(policy, f) :
               \A q \in Applicable(policy, f) : Closer(p, q, f)
    BY <1>3 DEF Closest
  <2>2. Applicable(policy, f) \subseteq policy.programs
    BY DEF Applicable
  <2>3. \E p \in Applicable(policy, f) : \A q \in Applicable(policy, f) : Closer(p, q, f)
    BY <1>1, <1>3, <2>2, ClosestExists
  <2> QED BY <2>1, <2>2, <2>3
<1>4. CASE Matched(policy, f) = None /\ Applicable(policy, f) = {}
  BY <1>4 DEF Closest
<1> QED BY <1>2, <1>3, <1>4

LEMMA NearMissType ==
    ASSUME NEW l \in Lenders, NEW f
    PROVE  NearMiss(Policies[l], f) \in 0..1000
<1> DEFINE policy == Policies[l]
           closest == Closest(policy, f)
           rules == policy.rules \cup IF closest = None THEN {} ELSE closest.rules
           hard == Hard(rules)
           tested == hard \ With(hard, "skipped", f)
           passed == With(tested, "passed", f)
<1>1. IsFiniteSet(rules)
  <2>1. IsFiniteSet(policy.rules)
    BY PoliciesAssumption
  <2>2. IsFiniteSet(IF closest = None THEN {} ELSE closest.rules)
    BY ClosestIsStored, PoliciesAssumption, FS_EmptySet
  <2> QED BY <2>1, <2>2, FS_Union
<1>2. tested \subseteq rules /\ passed \subseteq tested
  BY DEF Hard, With
<1>3. NearMiss(policy, f) = IF tested = {} THEN 0
                            ELSE (1000 * Cardinality(passed)) \div Cardinality(tested)
  BY DEF NearMiss
<1> HIDE DEF rules, tested, passed
<1>4. /\ Cardinality(tested) \in Nat
      /\ Cardinality(passed) \in 0..Cardinality(tested)
      /\ tested # {} => Cardinality(tested) # 0
  <2>1. IsFiniteSet(tested)
    BY <1>1, <1>2, FS_Subset
  <2> QED BY <1>2, <2>1, FS_Subset, FS_CardinalityType, FS_EmptySet
<1>5. tested # {} => (1000 * Cardinality(passed)) \div Cardinality(tested) \in 0..1000
  <2>1. 1000 \in Nat
    OBVIOUS
  <2>2. PICK k \in Nat : k = 1000
    BY <2>1
  <2>3. tested # {} => (k * Cardinality(passed)) \div Cardinality(tested) \in 0..k
    BY <1>4, ShareBounds
  <2> QED BY <2>2, <2>3
<1> QED BY <1>3, <1>5

LEMMA DecisionRankType == \A d : DecisionRank(d) \in 1..5
BY DEF DecisionRank

\* When the rows are ranked, they are compared by numbers.
LEMMA RankedRows ==
    ASSUME RowsAreResults, RunIsOrderly, stage = "completed", NEW l \in Lenders
    PROVE  row[l].fit_score \in Int /\ row[l].near_miss \in Int
<1>1. row[l] # None /\ row[l] # ErrorRow
  <2>1. ErrorRow.fit_score = None
    BY DEF ErrorRow
  <2> QED BY <2>1 DEF RunIsOrderly, Sortable
<1>2. /\ row[l].fit_score = FitScore(Policies[l], features)
      /\ row[l].near_miss = NearMiss(Policies[l], features)
  BY <1>1 DEF RowsAreResults
<1>3. payload \in ApplicationPayload /\ features = FeaturesOf(payload)
  BY PayloadsAssumption DEF RunIsOrderly
<1>4. FitScore(Policies[l], FeaturesOf(payload)) \in Int
  BY <1>3, ScoreType, Zenon
<1>5. NearMiss(Policies[l], features) \in Int
  <2>1. \A g : NearMiss(Policies[l], g) \in 0..1000
    BY NearMissType
  <2> QED BY <2>1
<1> QED BY <1>2, <1>3, <1>4, <1>5

\* The pairs of lenders in the order of their keys.
InOrder == {pair \in Lenders \X Lenders : Before(Key(pair[1]), Key(pair[2]))}

LEMMA KeyOrder ==
    ASSUME RowsAreResults, RunIsOrderly, stage = "completed"
    PROVE  LET d(l) == DecisionRank(row[l].decision)
           IN  \A l, m \in Lenders :
                  <<l, m>> \in InOrder <=>
                     \/ d(l) < d(m)
                     \/ d(l) = d(m) /\ row[l].fit_score > row[m].fit_score
                     \/ d(l) = d(m) /\ row[l].fit_score = row[m].fit_score
                           /\ row[l].near_miss > row[m].near_miss
                     \/ d(l) = d(m) /\ row[l].fit_score = row[m].fit_score
                           /\ row[l].near_miss = row[m].near_miss /\ l < m
<1> DEFINE d(l) == DecisionRank(row[l].decision)
<1> SUFFICES ASSUME NEW l \in Lenders, NEW m \in Lenders
             PROVE  <<l, m>> \in InOrder <=>
                       \/ d(l) < d(m)
                       \/ d(l) = d(m) /\ row[l].fit_score > row[m].fit_score
                       \/ d(l) = d(m) /\ row[l].fit_score = row[m].fit_score
                             /\ row[l].near_miss > row[m].near_miss
                       \/ d(l) = d(m) /\ row[l].fit_score = row[m].fit_score
                             /\ row[l].near_miss = row[m].near_miss /\ l < m
  OBVIOUS
<1> DEFINE f(x) == row[x].fit_score
           n(x) == row[x].near_miss
<1>1. /\ f(l) \in Int /\ f(m) \in Int /\ n(l) \in Int /\ n(m) \in Int
      /\ l \in Int /\ m \in Int
  BY RankedRows, LendersAssumption
<1>2. d(l) \in Int /\ d(m) \in Int
  <2>1. d(l) \in 1..5 /\ d(m) \in 1..5
    BY DecisionRankType
  <2> HIDE DEF d
  <2> QED BY <2>1
<1>3. Key(l) = <<d(l), -f(l), -n(l), l>> /\ Key(m) = <<d(m), -f(m), -n(m), m>>
  BY DEF Key
<1>4. <<l, m>> \in InOrder <=> Before(Key(l), Key(m))
  BY DEF InOrder
<1> HIDE DEF d, f, n
<1>5. /\ -f(l) \in Int /\ -f(m) \in Int /\ -n(l) \in Int /\ -n(m) \in Int
      /\ -f(l) < -f(m) <=> f(l) > f(m)
      /\ -f(l) = -f(m) <=> f(l) = f(m)
      /\ -n(l) < -n(m) <=> n(l) > n(m)
      /\ -n(l) = -n(m) <=> n(l) = n(m)
  BY <1>1
<1>6. Before(Key(l), Key(m)) <=>
         \/ d(l) < d(m)
         \/ d(l) = d(m) /\ -f(l) < -f(m)
         \/ d(l) = d(m) /\ -f(l) = -f(m) /\ -n(l) < -n(m)
         \/ d(l) = d(m) /\ -f(l) = -f(m) /\ -n(l) = -n(m) /\ l < m
  <2>1. PICK f1 \in Int : f1 = -f(l)
    BY <1>5
  <2>2. PICK f2 \in Int : f2 = -f(m)
    BY <1>5
  <2>3. PICK n1 \in Int : n1 = -n(l)
    BY <1>5
  <2>4. PICK n2 \in Int : n2 = -n(m)
    BY <1>5
  <2>5. PICK d1 \in Int : d1 = d(l)
    BY <1>2
  <2>6. PICK d2 \in Int : d2 = d(m)
    BY <1>2
  <2>7. Before(<<d1, f1, n1, l>>, <<d2, f2, n2, m>>) <=>
           \/ d1 < d2
           \/ d1 = d2 /\ f1 < f2
           \/ d1 = d2 /\ f1 = f2 /\ n1 < n2
           \/ d1 = d2 /\ f1 = f2 /\ n1 = n2 /\ l < m
    BY <1>1, BeforeCases, SMTT(30)
  <2> QED BY <1>3, <2>1, <2>2, <2>3, <2>4, <2>5, <2>6, <2>7, Zenon
<1>7. <<l, m>> \in InOrder <=>
         \/ d(l) < d(m)
         \/ d(l) = d(m) /\ f(l) > f(m)
         \/ d(l) = d(m) /\ f(l) = f(m) /\ n(l) > n(m)
         \/ d(l) = d(m) /\ f(l) = f(m) /\ n(l) = n(m) /\ l < m
  BY <1>4, <1>5, <1>6
<1> QED BY <1>7 DEF f, n

LEMMA RanksFollow == RowsAreResults /\ RunIsOrderly => RanksFollowPrecedence
<1> SUFFICES ASSUME RowsAreResults, RunIsOrderly, stage = "completed"
             PROVE  /\ {rank[l] : l \in Lenders} = 1..Cardinality(Lenders)
                    /\ \A l, m \in Lenders :
                          LET better(d, e) == DecisionRank(d) < DecisionRank(e)
                          IN  rank[l] < rank[m] =>
                                /\ ~better(row[m].decision, row[l].decision)
                                /\ row[l].decision = row[m].decision =>
                                      row[l].fit_score >= row[m].fit_score
  BY DEF RanksFollowPrecedence
<1> DEFINE d(l) == DecisionRank(row[l].decision)
           f(l) == row[l].fit_score
           n(l) == row[l].near_miss
           place == [l \in Lenders |-> Cardinality(Below(Lenders, InOrder, l)) + 1]
<1>1. \A l, m \in Lenders :
         <<l, m>> \in InOrder <=>
            \/ d(l) < d(m)
            \/ d(l) = d(m) /\ f(l) > f(m)
            \/ d(l) = d(m) /\ f(l) = f(m) /\ n(l) > n(m)
            \/ d(l) = d(m) /\ f(l) = f(m) /\ n(l) = n(m) /\ l < m
  BY KeyOrder
<1>2. \A l \in Lenders : d(l) \in Int /\ f(l) \in Int /\ n(l) \in Int /\ l \in Int
  <2>1. \A l \in Lenders : d(l) \in 1..5
    BY DecisionRankType
  <2>2. \A l \in Lenders : f(l) \in Int /\ n(l) \in Int /\ l \in Int
    BY RankedRows, LendersAssumption
  <2> HIDE DEF d, f, n
  <2> QED BY <2>1, <2>2
<1>3. \A l \in Lenders : rank[l] = place[l]
  <2>1. \A l \in Lenders :
           Below(Lenders, InOrder, l) = {m \in Lenders : Before(Key(m), Key(l))}
    BY DEF Below, InOrder
  <2>2. \A l \in Lenders :
           rank[l] = Cardinality({m \in Lenders : Before(Key(m), Key(l))}) + 1
    BY DEF RunIsOrderly
  <2> QED BY <2>1, <2>2
<1> HIDE DEF d, f, n
<1>4. \A l \in Lenders : <<l, l>> \notin InOrder
  BY <1>1, <1>2
<1>5. \A l, m \in Lenders : l # m => <<l, m>> \in InOrder \/ <<m, l>> \in InOrder
  <2> SUFFICES ASSUME NEW l \in Lenders, NEW m \in Lenders, l # m
               PROVE  <<l, m>> \in InOrder \/ <<m, l>> \in InOrder
    OBVIOUS
  <2>1. /\ d(l) < d(m) \/ d(l) = d(m) \/ d(m) < d(l)
        /\ f(l) > f(m) \/ f(l) = f(m) \/ f(m) > f(l)
        /\ n(l) > n(m) \/ n(l) = n(m) \/ n(m) > n(l)
        /\ l < m \/ m < l
    BY <1>2
  <2> QED BY <1>1, <2>1
<1>6. \A l, m, k \in Lenders :
         <<l, m>> \in InOrder /\ <<m, k>> \in InOrder => <<l, k>> \in InOrder
  <2> SUFFICES ASSUME NEW l \in Lenders, NEW m \in Lenders, NEW k \in Lenders,
                      <<l, m>> \in InOrder, <<m, k>> \in InOrder
               PROVE  <<l, k>> \in InOrder
    OBVIOUS
  <2>1. /\ d(l) \in Int /\ d(m) \in Int /\ d(k) \in Int
        /\ f(l) \in Int /\ f(m) \in Int /\ f(k) \in Int
        /\ n(l) \in Int /\ n(m) \in Int /\ n(k) \in Int
        /\ l \in Int /\ m \in Int /\ k \in Int
    BY <1>2
  <2>2. \/ d(l) < d(m)
        \/ d(l) = d(m) /\ f(l) > f(m)
        \/ d(l) = d(m) /\ f(l) = f(m) /\ n(l) > n(m)
        \/ d(l) = d(m) /\ f(l) = f(m) /\ n(l) = n(m) /\ l < m
    BY <1>1
  <2>3. \/ d(m) < d(k)
        \/ d(m) = d(k) /\ f(m) > f(k)
        \/ d(m) = d(k) /\ f(m) = f(k) /\ n(m) > n(k)
        \/ d(m) = d(k) /\ f(m) = f(k) /\ n(m) = n(k) /\ m < k
    BY <1>1
  <2>4. \/ d(l) < d(k)
        \/ d(l) = d(k) /\ f(l) > f(k)
        \/ d(l) = d(k) /\ f(l) = f(k) /\ n(l) > n(k)
        \/ d(l) = d(k) /\ f(l) = f(k) /\ n(l) = n(k) /\ l < k
    BY <2>1, <2>2, <2>3
  <2> QED BY <1>1, <2>4
<1>7. IsFiniteSet(Lenders)
  BY LendersAssumption
<1>8. /\ {place[l] : l \in Lenders} = 1..Cardinality(Lenders)
      /\ \A l, m \in Lenders : place[l] < place[m] => <<l, m>> \in InOrder
  BY <1>4, <1>5, <1>6, <1>7, CountingNumbers, Zenon
<1> HIDE DEF place
<1>9. {rank[l] : l \in Lenders} = 1..Cardinality(Lenders)
  BY <1>3, <1>8
<1>10. ASSUME NEW l \in Lenders, NEW m \in Lenders, rank[l] < rank[m]
       PROVE  /\ ~(d(m) < d(l))
              /\ row[l].decision = row[m].decision => f(l) >= f(m)
  <2>1. <<l, m>> \in InOrder
    BY <1>3, <1>8, <1>10
  <2>2. \/ d(l) < d(m)
        \/ d(l) = d(m) /\ (f(l) > f(m) \/ f(l) = f(m))
    BY <1>1, <2>1
  <2>3. row[l].decision = row[m].decision => d(l) = d(m)
    BY DEF d
  <2>4. d(l) \in Int /\ d(m) \in Int /\ f(l) \in Int /\ f(m) \in Int
    BY <1>2
  <2> QED BY <2>2, <2>3, <2>4
<1> QED BY <1>9, <1>10 DEF d, f

\* In every run that completes, however many the lenders: the ranks number the
\* lenders without a gap or a tie, in the order of decision and score.
THEOREM RanksFollowPrecedenceHolds == Spec => []RanksFollowPrecedence
<1>1. Spec => []RowsAreResults
  BY RowsInit, RowsNext, PTL DEF Spec
<1>2. Spec => []RunIsOrderly
  BY OrderlyInit, OrderlyNext, PTL DEF Spec
<1> QED BY <1>1, <1>2, RanksFollow, PTL

-----------------------------------------------------------------------------
(* The order of the equipment *)

Reordered(p) == [p EXCEPT !.equipment = Reverse(@)]

LEMMA ReorderedPayload ==
    ASSUME NEW p \in ApplicationPayload
    PROVE  LET q == Reordered(p)
           IN  /\ q \in ApplicationPayload
               /\ q.business = p.business /\ q.loan = p.loan
               /\ q.business_credit = p.business_credit /\ q.guarantors = p.guarantors
               /\ ToSet(q.equipment) = ToSet(p.equipment)
               /\ DOMAIN q.equipment = DOMAIN p.equipment
<1> DEFINE s == p.equipment
           t == Reverse(s)
           q == Reordered(p)
<1>1. s \in Seq(EquipmentPayload) /\ Len(s) <= 20
  BY DEF ApplicationPayload
<1>2. Len(s) \in Nat /\ DOMAIN s = 1..Len(s) /\ \A i \in DOMAIN s : s[i] \in EquipmentPayload
  BY <1>1
<1>3. t = [i \in 1..Len(s) |-> s[(Len(s) - i) + 1]]
  BY DEF Reverse
<1> HIDE DEF s, t
<1>4. \A i \in 1..Len(s) : (Len(s) - i) + 1 \in 1..Len(s)
  BY <1>2
<1>5. t \in Seq(EquipmentPayload) /\ Len(t) = Len(s) /\ DOMAIN t = DOMAIN s
  BY <1>2, <1>3, <1>4
<1>6. ToSet(t) = ToSet(s)
  <2>1. \A i \in DOMAIN t : t[i] \in ToSet(s)
    BY <1>2, <1>3, <1>4 DEF ToSet
  <2>2. ASSUME NEW i \in DOMAIN s PROVE s[i] \in ToSet(t)
    <3>1. (Len(s) - i) + 1 \in DOMAIN t /\ (Len(s) - ((Len(s) - i) + 1)) + 1 = i
      BY <1>2, <1>4, <1>5
    <3>2. t[(Len(s) - i) + 1] = s[(Len(s) - ((Len(s) - i) + 1)) + 1]
      BY <1>2, <1>3, <3>1
    <3>3. t[(Len(s) - i) + 1] = s[i]
      BY <3>1, <3>2
    <3> QED BY <3>1, <3>3 DEF ToSet
  <2> QED BY <2>1, <2>2 DEF ToSet
<1>7. q = [p EXCEPT !.equipment = t]
  BY DEF Reordered, t, s
<1>8. /\ DOMAIN p = {"business", "loan", "business_credit", "guarantors", "equipment"}
      /\ p = [business |-> p.business, loan |-> p.loan,
              business_credit |-> p.business_credit, guarantors |-> p.guarantors,
              equipment |-> s]
  BY DEF ApplicationPayload, s
<1> HIDE DEF q
<1>9. q = [business |-> p.business, loan |-> p.loan,
           business_credit |-> p.business_credit, guarantors |-> p.guarantors,
           equipment |-> t]
  BY <1>7, <1>8
<1>10. /\ q.business = p.business /\ q.loan = p.loan
       /\ q.business_credit = p.business_credit /\ q.guarantors = p.guarantors
       /\ q.equipment = t
  BY <1>9
<1>11. q \in ApplicationPayload
  <2>1. /\ p.business \in BusinessPayload /\ p.loan \in LoanPayload
        /\ p.business_credit \in BusinessCreditPayload
        /\ p.guarantors \in {x \in Seq(GuarantorPayload) : Len(x) <= 10}
    BY DEF ApplicationPayload
  <2>2. t \in {x \in Seq(EquipmentPayload) : Len(x) <= 20}
    BY <1>1, <1>5
  <2> QED BY <1>9, <2>1, <2>2 DEF ApplicationPayload
<1> QED BY <1>5, <1>6, <1>10, <1>11 DEF q, s

\* The features of two payloads that differ in the order of their items.
Alike(f, g) ==
    /\ \A k \in Fields \ {"equipment_category", "equipment_condition"} : f[k] = g[k]
    /\ DOMAIN f["_equipment_list"] # {}
    /\ DOMAIN g["_equipment_list"] # {}
    /\ f["_equipment_list"] = [i \in DOMAIN f["_equipment_list"] |-> f["_equipment_list"][i]]
    /\ g["_equipment_list"] = [i \in DOMAIN g["_equipment_list"] |-> g["_equipment_list"][i]]
    /\ ToSet(f["_equipment_list"]) = ToSet(g["_equipment_list"])

LEMMA SameInput ==
    ASSUME NEW p \in ApplicationPayload, NEW q \in ApplicationPayload,
           q.business = p.business, q.loan = p.loan,
           q.business_credit = p.business_credit, q.guarantors = p.guarantors
    PROVE  LET a == ApplicationInput(p)
               b == ApplicationInput(q)
           IN  /\ b.guarantors = a.guarantors
               /\ b.paynet_score = a.paynet_score
               /\ ComparablePct(b) = ComparablePct(a)
<1> DEFINE a == ApplicationInput(p)
           b == ApplicationInput(q)
<1>1. /\ \A k \in DOMAIN p.business_credit : a[k] = p.business_credit[k]
      /\ a["loan_amount"] = p.loan.amount
      /\ a["guarantors"] = IF CorpOnly(p) THEN <<>> ELSE p.guarantors
  BY InputEntries, Zenon
<1>2. /\ \A k \in DOMAIN p.business_credit : b[k] = p.business_credit[k]
      /\ b["loan_amount"] = p.loan.amount
      /\ b["guarantors"] = IF CorpOnly(q) THEN <<>> ELSE p.guarantors
  <2>1. /\ \A k \in DOMAIN q.business_credit : b[k] = q.business_credit[k]
        /\ b["loan_amount"] = q.loan.amount
        /\ b["guarantors"] = IF CorpOnly(q) THEN <<>> ELSE q.guarantors
    BY InputEntries, Zenon
  <2> HIDE DEF b
  <2> QED BY <2>1
<1>3. CorpOnly(q) = CorpOnly(p)
  BY DEF CorpOnly
<1>4. /\ "paynet_score" \in DOMAIN p.business_credit
      /\ "largest_comparable_credit" \in DOMAIN p.business_credit
  BY DEF ApplicationPayload, BusinessCreditPayload
<1> HIDE DEF a, b
<1>5. /\ a.paynet_score = b.paynet_score
      /\ a.largest_comparable_credit = b.largest_comparable_credit
      /\ a.loan_amount = b.loan_amount
      /\ a.guarantors = b.guarantors
  BY <1>1, <1>2, <1>3, <1>4
<1>6. ComparablePct(a) = ComparablePct(b)
  BY <1>5 DEF ComparablePct
<1> QED BY <1>5, <1>6 DEF a, b

LEMMA SameFeatures ==
    ASSUME NEW p \in ApplicationPayload, p.equipment # <<>>
    PROVE  Alike(FeaturesOf(p), FeaturesOf(Reordered(p)))
<1> DEFINE q == Reordered(p)
           f == FeaturesOf(p)
           g == FeaturesOf(q)
           a == ApplicationInput(p)
           b == ApplicationInput(q)
<1>1. /\ q \in ApplicationPayload
      /\ q.business = p.business /\ q.loan = p.loan
      /\ q.business_credit = p.business_credit /\ q.guarantors = p.guarantors
      /\ ToSet(q.equipment) = ToSet(p.equipment)
      /\ DOMAIN q.equipment = DOMAIN p.equipment
  BY ReorderedPayload, Zenon
<1> HIDE DEF q
<1>2. /\ b.guarantors = a.guarantors /\ b.paynet_score = a.paynet_score
      /\ ComparablePct(b) = ComparablePct(a)
  BY <1>1, SameInput, Zenon
<1>3. CorpOnly(q) = CorpOnly(p)
  BY <1>1 DEF CorpOnly
<1>4. \A k \in OfGuarantors : f[k] = g[k]
  <2>1. \A k \in OfGuarantors : f[k] = Collapsed(Guaranteeing(a.guarantors), k)
    BY FeatureEntries, Zenon DEF FeaturesOf
  <2>2. \A k \in OfGuarantors : g[k] = Collapsed(Guaranteeing(b.guarantors), k)
    BY FeatureEntries, Zenon DEF FeaturesOf
  <2> QED BY <1>2, <2>1, <2>2, Zenon
<1>5. \A k \in Copied : f[k] = g[k]
  <2> SUFFICES ASSUME NEW k \in Copied PROVE f[k] = g[k]
    OBVIOUS
  <2>1. CASE k \in {"business_state", "loan_amount", "corp_only"}
    BY <1>1, <1>3, <2>1, CopiedFeatures
  <2>2. CASE k \in {"industry", "entity_type", "years_in_business", "annual_revenue",
                    "has_physical_location", "is_us_based", "trucks_operated"}
    <3>1. f[k] = p.business[k]
      BY <2>2, CopiedFeatures
    <3>2. g[k] = q.business[k]
      BY <1>1, <2>2, CopiedFeatures
    <3> QED BY <1>1, <3>1, <3>2
  <2>3. CASE k \in {"paynet_score", "trade_lines_count", "trade_history_years",
                    "largest_comparable_credit", "comparable_contracts_count",
                    "clean_payment_history_months"}
    <3>1. f[k] = p.business_credit[k]
      BY <2>3, CopiedFeatures
    <3>2. g[k] = q.business_credit[k]
      BY <1>1, <2>3, CopiedFeatures
    <3> QED BY <1>1, <3>1, <3>2
  <2>4. CASE k \in {"term_months", "transaction_type", "down_payment_pct", "soft_cost_pct"}
    <3>1. f[k] = p.loan[k]
      BY <2>4, CopiedFeatures
    <3>2. g[k] = q.loan[k]
      BY <1>1, <2>4, CopiedFeatures
    <3> QED BY <1>1, <3>1, <3>2
  <2>5. \/ k \in {"business_state", "loan_amount", "corp_only"}
        \/ k \in {"industry", "entity_type", "years_in_business", "annual_revenue",
                  "has_physical_location", "is_us_based", "trucks_operated"}
        \/ k \in {"paynet_score", "trade_lines_count", "trade_history_years",
                  "largest_comparable_credit", "comparable_contracts_count",
                  "clean_payment_history_months"}
        \/ k \in {"term_months", "transaction_type", "down_payment_pct", "soft_cost_pct"}
    BY DEF Copied
  <2> QED BY <2>1, <2>2, <2>3, <2>4, <2>5
<1>6. \A key : Given(q.equipment, key) = Given(p.equipment, key)
  BY <1>1 DEF Given
<1>7. /\ f["is_startup"] = IF p.business.years_in_business = None THEN None
                           ELSE p.business.years_in_business < 2
      /\ f["is_trucking"] = IF p.business.industry = None THEN None
                            ELSE p.business.industry = "trucking"
      /\ f["is_medical"] = IF p.business.industry = None THEN None
                           ELSE p.business.industry \in MedicalIndustries
      /\ f["revolving_available_pct"] = RevolvingAvailable(Guaranteeing(a.guarantors))
      /\ f["revolving_balance"] = Total(Guaranteeing(a.guarantors), "revolving_balance")
      /\ f["revolving_plus_unsecured_debt"] =
            RevolvingPlusUnsecured(Guaranteeing(a.guarantors))
      /\ f["years_since_bankruptcy_discharge"] =
            SinceDischarge(Guaranteeing(a.guarantors))
      /\ f["comparable_credit_pct"] = ComparablePct(a)
      /\ f["equipment_age_years"] = AgeOf(Least(Given(p.equipment, "model_year")))
      /\ f["equipment_mileage"] = Greatest(Given(p.equipment, "mileage"))
  BY ComputedFeatures, Zenon
<1>8. /\ g["is_startup"] = IF q.business.years_in_business = None THEN None
                           ELSE q.business.years_in_business < 2
      /\ g["is_trucking"] = IF q.business.industry = None THEN None
                            ELSE q.business.industry = "trucking"
      /\ g["is_medical"] = IF q.business.industry = None THEN None
                           ELSE q.business.industry \in MedicalIndustries
      /\ g["revolving_available_pct"] = RevolvingAvailable(Guaranteeing(b.guarantors))
      /\ g["revolving_balance"] = Total(Guaranteeing(b.guarantors), "revolving_balance")
      /\ g["revolving_plus_unsecured_debt"] =
            RevolvingPlusUnsecured(Guaranteeing(b.guarantors))
      /\ g["years_since_bankruptcy_discharge"] =
            SinceDischarge(Guaranteeing(b.guarantors))
      /\ g["comparable_credit_pct"] = ComparablePct(b)
      /\ g["equipment_age_years"] = AgeOf(Least(Given(q.equipment, "model_year")))
      /\ g["equipment_mileage"] = Greatest(Given(q.equipment, "mileage"))
  BY <1>1, ComputedFeatures, Zenon
<1>9. /\ f["is_startup"] = g["is_startup"]
      /\ f["is_trucking"] = g["is_trucking"]
      /\ f["is_medical"] = g["is_medical"]
      /\ f["revolving_available_pct"] = g["revolving_available_pct"]
      /\ f["revolving_balance"] = g["revolving_balance"]
      /\ f["revolving_plus_unsecured_debt"] = g["revolving_plus_unsecured_debt"]
      /\ f["years_since_bankruptcy_discharge"] = g["years_since_bankruptcy_discharge"]
      /\ f["comparable_credit_pct"] = g["comparable_credit_pct"]
      /\ f["equipment_age_years"] = g["equipment_age_years"]
      /\ f["equipment_mileage"] = g["equipment_mileage"]
  <2> HIDE DEF f, g, a, b
  <2>1. /\ f["is_startup"] = g["is_startup"]
        /\ f["is_trucking"] = g["is_trucking"]
        /\ f["is_medical"] = g["is_medical"]
    BY <1>1, <1>7, <1>8
  <2>2. /\ f["revolving_available_pct"] = g["revolving_available_pct"]
        /\ f["revolving_balance"] = g["revolving_balance"]
        /\ f["revolving_plus_unsecured_debt"] = g["revolving_plus_unsecured_debt"]
        /\ f["years_since_bankruptcy_discharge"] = g["years_since_bankruptcy_discharge"]
        /\ f["comparable_credit_pct"] = g["comparable_credit_pct"]
    BY <1>2, <1>7, <1>8
  <2>3. /\ f["equipment_age_years"] = g["equipment_age_years"]
        /\ f["equipment_mileage"] = g["equipment_mileage"]
    BY <1>6, <1>7, <1>8
  <2> QED BY <2>1, <2>2, <2>3
<1>10. /\ f["has_paynet"] = g["has_paynet"]
       /\ f["equipment_is_titled"] = g["equipment_is_titled"]
  <2>1. \A k \in ComputedFields : f[k] = Computed(a)[k] /\ g[k] = Computed(b)[k]
    BY FeatureEntries, Zenon DEF FeaturesOf
  <2>2. /\ Computed(a)["has_paynet"] = (a.paynet_score # None)
        /\ Computed(a)["equipment_is_titled"] = AllTrue(Given(a.equipment, "is_titled"))
        /\ Computed(b)["has_paynet"] = (b.paynet_score # None)
        /\ Computed(b)["equipment_is_titled"] = AllTrue(Given(b.equipment, "is_titled"))
    BY ComputedEntries, Zenon
  <2>3. a.equipment = p.equipment /\ b.equipment = q.equipment
    BY <1>1, InputEntries
  <2>4. "has_paynet" \in ComputedFields /\ "equipment_is_titled" \in ComputedFields
    BY DEF ComputedFields
  <2> HIDE DEF a, b, f, g
  <2> QED BY <1>2, <1>6, <2>1, <2>2, <2>3, <2>4, Zenon
<1>11. \A k \in ComputedFields \ {"equipment_category", "equipment_condition", "_equipment_list"} :
          f[k] = g[k]
  <2> HIDE DEF f, g
  <2> QED BY <1>9, <1>10 DEF ComputedFields
<1>12. \A k \in Fields \ {"equipment_category", "equipment_condition"} : f[k] = g[k]
  <2>1. /\ DOMAIN f = Fields \cup {"_equipment_list"}
        /\ Copied \cup OfGuarantors \cup ComputedFields = DOMAIN f
    BY FeatureEntries, Zenon DEF FeaturesOf
  <2>2. "_equipment_list" \notin Fields
    BY DEF Fields, NumberFields, BooleanFields, Options
  <2> HIDE DEF f, g
  <2> QED BY <1>4, <1>5, <1>11, <2>1, <2>2
<1>13. /\ f["_equipment_list"] = [i \in DOMAIN p.equipment |-> EquipmentItem(p.equipment[i])]
       /\ g["_equipment_list"] = [i \in DOMAIN q.equipment |-> EquipmentItem(q.equipment[i])]
  BY <1>1, ComputedFeatures, Zenon
<1>14. DOMAIN p.equipment # {}
  BY PayloadLists
<1> DEFINE x == f["_equipment_list"]
           y == g["_equipment_list"]
<1> HIDE DEF f, g
<1>15. ToSet(x) = ToSet(y)
  <2>1. ToSet(x) = {EquipmentItem(e) : e \in ToSet(p.equipment)}
    BY <1>13 DEF ToSet
  <2>2. ToSet(y) = {EquipmentItem(e) : e \in ToSet(q.equipment)}
    BY <1>13 DEF ToSet
  <2> QED BY <1>1, <2>1, <2>2
<1>16. /\ DOMAIN x # {} /\ DOMAIN y # {}
       /\ x = [i \in DOMAIN x |-> x[i]] /\ y = [i \in DOMAIN y |-> y[i]]
  BY <1>1, <1>13, <1>14
<1> QED BY <1>12, <1>15, <1>16 DEF Alike, f, g, q

LEMMA TitledTests ==
    ASSUME NEW c, CheckCondition(c), ~ReadsFirstItem(c), c.field = "equipment_is_titled"
    PROVE  c.operator \in {"is_true", "eq"}
<1>1. Type(c.field) = "boolean"
  BY DEF Type, NumberFields, BooleanFields
<1>2. "boolean" \in FieldTypes(c.operator) /\ c.operator \in Operators
  BY <1>1 DEF CheckCondition
<1>3. c.operator \in {"eq", "neq", "is_true", "is_false"}
  BY <1>2 DEF FieldTypes, Operators
<1> QED BY <1>3 DEF ReadsFirstItem

\* A test of all the items does not see their order.
LEMMA ItemsAlike ==
    ASSUME NEW c, CheckCondition(c), ~ReadsFirstItem(c), c.field \in DOMAIN ItemKey,
           NEW x, NEW y, DOMAIN x # {}, DOMAIN y # {}, ToSet(x) = ToSet(y)
    PROVE  TestEquipment(c, x) = TestEquipment(c, y)
<1> DEFINE seen(items) == {item[ItemKey[c.field]] : item \in ToSet(items)}
           tested(S) == IF None \in S THEN "missing"
                        ELSE IF c.field # "equipment_is_titled"
                             THEN Passed(\A v \in S : Holds(c.operator, v, c.value.is))
                             ELSE Passed(S = {TRUE})
<1>1. c.field # "equipment_condition"
  BY DEF ReadsFirstItem
<1>2. c.field = "equipment_is_titled" => c.operator \in {"is_true", "eq"}
  BY TitledTests
<1>3. TestEquipment(c, x) = tested(seen(x))
  BY <1>1, <1>2 DEF TestEquipment
<1>4. TestEquipment(c, y) = tested(seen(y))
  BY <1>1, <1>2 DEF TestEquipment
<1>5. seen(x) = seen(y)
  OBVIOUS
<1> HIDE DEF seen, tested
<1> QED BY <1>3, <1>4, <1>5

LEMMA TestAlike ==
    ASSUME NEW f, NEW g, Alike(f, g), NEW c, CheckCondition(c), ~ReadsFirstItem(c),
           NEW conditions,
           RelevantItems(conditions, f["_equipment_list"]) = f["_equipment_list"],
           RelevantItems(conditions, g["_equipment_list"]) = g["_equipment_list"]
    PROVE  Test(c, conditions, f) = Test(c, conditions, g)
<1>1. CASE c.field \in DOMAIN ItemKey
  <2>1. /\ Test(c, conditions, f) = TestEquipment(c, f["_equipment_list"])
        /\ Test(c, conditions, g) = TestEquipment(c, g["_equipment_list"])
    BY <1>1 DEF Test, Alike
  <2> QED BY <1>1, <2>1, ItemsAlike DEF Alike
<1>2. CASE c.field \notin DOMAIN ItemKey
  <2>1. /\ Test(c, conditions, f) = TestOne(c, f[c.field])
        /\ Test(c, conditions, g) = TestOne(c, g[c.field])
    BY <1>2 DEF Test
  <2>2. c.field \in Fields \ {"equipment_category", "equipment_condition"}
    BY <1>2 DEF CheckCondition, ItemKey
  <2> QED BY <2>1, <2>2 DEF Alike
<1> QED BY <1>1, <1>2

LEMMA AppliesAlike ==
    ASSUME NEW f, NEW g, Alike(f, g), NEW x,
           \A c \in x.applies_when : CheckCondition(c) /\ ~ReadsFirstItem(c)
    PROVE  Applies(x, f) <=> Applies(x, g)
<1>1. \A c \in x.applies_when : Test(c, {}, f) = Test(c, {}, g)
  BY TestAlike, WithoutConditions
<1> QED BY <1>1 DEF Applies, ConditionHolds

\* A rule that reads no field of the first item alone.
Unordered(r) ==
    /\ ValidRule(r)
    /\ \A c \in r.alternatives \cup r.applies_when : ~ReadsFirstItem(c)
    /\ r.kind = "simple" => ~ReadsFirstItem(r)

LEMMA RelevantAlike ==
    ASSUME NEW f, NEW g, Alike(f, g), NEW r, Unordered(r), Applies(r, f)
    PROVE  /\ Applies(r, g)
           /\ RelevantItems(r.applies_when, f["_equipment_list"]) = f["_equipment_list"]
           /\ RelevantItems(r.applies_when, g["_equipment_list"]) = g["_equipment_list"]
<1>1. Applies(r, g)
  BY AppliesAlike DEF Unordered, ValidRule
<1> QED BY <1>1, AppliesToAll DEF Alike

LEMMA OutcomeAlike ==
    ASSUME NEW f, NEW g, Alike(f, g), NEW r, Unordered(r)
    PROVE  Outcome(r, f) = Outcome(r, g)
<1>1. Applies(r, f) <=> Applies(r, g)
  BY AppliesAlike DEF Unordered, ValidRule
<1>2. CASE ~Applies(r, f)
  BY <1>1, <1>2 DEF Outcome
<1>3. CASE Applies(r, f) /\ r.kind = "simple"
  <2>1. /\ Outcome(r, f) = Test(r, r.applies_when, f)
        /\ Outcome(r, g) = Test(r, r.applies_when, g)
    BY <1>1, <1>3 DEF Outcome
  <2>2. Test(r, r.applies_when, f) = Test(r, r.applies_when, g)
    BY <1>3, RelevantAlike, TestAlike DEF Unordered, ValidRule
  <2> QED BY <2>1, <2>2
<1>4. CASE Applies(r, f) /\ r.kind # "simple"
  <2> DEFINE attempts(h) == {Test(c, {}, h) : c \in r.alternatives}
             best(S) == IF "passed" \in S THEN "passed"
                        ELSE IF "failed" \in S THEN "failed" ELSE "missing"
  <2>1. \A c \in r.alternatives : Test(c, {}, f) = Test(c, {}, g)
    BY TestAlike, WithoutConditions DEF Unordered, ValidRule
  <2>2. attempts(f) = attempts(g)
    BY <2>1
  <2>3. Outcome(r, f) = best(attempts(f)) /\ Outcome(r, g) = best(attempts(g))
    BY <1>1, <1>4 DEF Outcome
  <2> HIDE DEF attempts, best
  <2> QED BY <2>2, <2>3
<1> QED BY <1>2, <1>3, <1>4

LEMMA HeadroomAlike ==
    ASSUME NEW f, NEW g, Alike(f, g), NEW r, Unordered(r), Applies(r, f)
    PROVE  Headroom(r, f) = Headroom(r, g)
<1> DEFINE x == f["_equipment_list"]
           y == g["_equipment_list"]
           margin(actual) ==
              LET expected == r.value.is
                  span == IF HeadroomSpan(r.field) # None THEN 4 * HeadroomSpan(r.field)
                          ELSE Max({expected, -expected})
              IN  IF r.kind # "simple" \/ Direction(r.operator) = 0 \/ span <= 0 THEN None
                  ELSE Clamp(0, (4000 * (actual - expected) * Direction(r.operator))
                                    \div span, 1000)
<1>1. /\ Headroom(r, f) = margin(Actual(r, r.applies_when, f))
      /\ Headroom(r, g) = margin(Actual(r, r.applies_when, g))
  BY DEF Headroom
<1>2. CASE r.kind # "simple" \/ Direction(r.operator) = 0
  BY <1>2 DEF Headroom
<1>3. CASE r.kind = "simple" /\ Direction(r.operator) # 0
  <2>1. RelevantItems(r.applies_when, x) = x /\ RelevantItems(r.applies_when, y) = y
    BY RelevantAlike
  <2>2. r.field \in NumberFields
    BY <1>3, DirectedRules DEF Unordered, ValidRule
  <2>3. r.field \in Fields \ {"equipment_category", "equipment_condition"}
    BY <2>2 DEF Fields, NumberFields
  <2>4. f[r.field] = g[r.field]
    BY <2>3 DEF Alike
  <2>5. \A key : Given(x, key) = Given(y, key)
    BY DEF Given, Alike
  <2>6. DOMAIN x # {} /\ DOMAIN y # {}
    BY DEF Alike
  <2> HIDE DEF x, y
  <2>7. /\ Actual(r, r.applies_when, f) =
              IF r.field \in DOMAIN ItemKey THEN Greatest(Given(x, ItemKey[r.field]))
              ELSE f[r.field]
        /\ Actual(r, r.applies_when, g) =
              IF r.field \in DOMAIN ItemKey THEN Greatest(Given(y, ItemKey[r.field]))
              ELSE g[r.field]
    BY <2>1, <2>6 DEF Actual, x, y
  <2>8. Actual(r, r.applies_when, f) = Actual(r, r.applies_when, g)
    BY <2>4, <2>5, <2>7
  <2> HIDE DEF margin
  <2> QED BY <1>1, <2>8
<1> QED BY <1>2, <1>3

\* A policy that reads no field of the first item alone, and whose decision
\* cannot depend on the order then.
UnorderedPolicy(policy) ==
    /\ \A r \in AllRules(policy) : Unordered(r)
    /\ \A p \in policy.programs : \A c \in p.applies_when :
          CheckCondition(c) /\ ~ReadsFirstItem(c)

LEMMA ConditionsOfRule ==
    ASSUME NEW policy, NEW r \in AllRules(policy)
    PROVE  /\ r \in Conditions(policy)
           /\ r.applies_when \subseteq Conditions(policy)
           /\ r.alternatives \subseteq Conditions(policy)
<1> DEFINE conditional == {x.applies_when : x \in AllRules(policy) \cup policy.programs}
           compound == {x.alternatives : x \in AllRules(policy)}
<1>1. Conditions(policy) = AllRules(policy) \cup (UNION conditional) \cup (UNION compound)
  BY DEF Conditions, AllRules
<1>2. r.applies_when \in conditional /\ r.alternatives \in compound
  OBVIOUS
<1> HIDE DEF conditional, compound
<1> QED BY <1>1, <1>2

LEMMA ConditionsOfProgram ==
    ASSUME NEW policy, NEW p \in policy.programs
    PROVE  p.applies_when \subseteq Conditions(policy)
<1> DEFINE conditional == {x.applies_when : x \in AllRules(policy) \cup policy.programs}
           compound == {x.alternatives : x \in AllRules(policy)}
<1>1. Conditions(policy) = AllRules(policy) \cup (UNION conditional) \cup (UNION compound)
  BY DEF Conditions, AllRules
<1>2. p.applies_when \in conditional
  OBVIOUS
<1> HIDE DEF conditional, compound
<1> QED BY <1>1, <1>2

LEMMA StoredUnordered ==
    ASSUME NEW l \in Lenders, \A c \in Conditions(Policies[l]) : ~ReadsFirstItem(c)
    PROVE  UnorderedPolicy(Policies[l])
<1>1. ValidPolicy(Policies[l])
  BY PoliciesAssumption
<1>2. \A r \in AllRules(Policies[l]) : ValidRule(r)
  BY <1>1 DEF AllRules, ValidPolicy, ValidProgram
<1>3. \A p \in Policies[l].programs : \A c \in p.applies_when : CheckCondition(c)
  BY <1>1 DEF ValidPolicy, ValidProgram
<1>4. \A r \in AllRules(Policies[l]) : Unordered(r)
  BY <1>2, ConditionsOfRule DEF Unordered
<1> QED BY <1>3, <1>4, ConditionsOfProgram DEF UnorderedPolicy

LEMMA RulesAlike ==
    ASSUME NEW f, NEW g, Alike(f, g), NEW rules, \A r \in rules : Unordered(r)
    PROVE  /\ \A o : With(rules, o, f) = With(rules, o, g)
           /\ HardFailures(rules, f) = HardFailures(rules, g)
           /\ HardMissing(rules, f) = HardMissing(rules, g)
           /\ Soft(rules, f) = Soft(rules, g)
           /\ PreferencePoints(rules, f) = PreferencePoints(rules, g)
           /\ Cleared(rules, f) = Cleared(rules, g)
<1>1. \A r \in rules : Outcome(r, f) = Outcome(r, g)
  BY OutcomeAlike
<1>2. ASSUME NEW S \in SUBSET rules, NEW o PROVE With(S, o, f) = With(S, o, g)
  BY <1>1 DEF With
<1>3. Hard(rules) \in SUBSET rules
  BY DEF Hard
<1>4. /\ HardFailures(rules, f) = HardFailures(rules, g)
      /\ HardMissing(rules, f) = HardMissing(rules, g)
  BY <1>2, <1>3 DEF HardFailures, HardMissing
<1>5. Soft(rules, f) = Soft(rules, g)
  BY <1>2 DEF Soft
<1>6. Soft(rules, f) \in SUBSET rules
  BY DEF Soft
<1>7. With(Soft(rules, f), "passed", f) = With(Soft(rules, g), "passed", g)
  BY <1>2, <1>5, <1>6
<1>8. PreferencePoints(rules, f) = PreferencePoints(rules, g)
  BY <1>5, <1>7 DEF PreferencePoints
<1>9. Cleared(rules, f) = Cleared(rules, g)
  <2>1. With(Hard(rules), "passed", f) = With(Hard(rules), "passed", g)
    BY <1>2, <1>3
  <2>2. \A r \in With(Hard(rules), "passed", f) : Unordered(r) /\ Applies(r, f)
    BY <1>3 DEF With, Outcome
  <2>3. \A r \in With(Hard(rules), "passed", f) : Headroom(r, f) = Headroom(r, g)
    BY <2>2, HeadroomAlike
  <2> QED BY <2>1, <2>3 DEF Cleared
<1> QED BY <1>2, <1>4, <1>5, <1>8, <1>9

LEMMA PointsAlike ==
    ASSUME NEW f, NEW g, Alike(f, g), NEW rules, IsFiniteSet(rules),
           \A r \in rules : Unordered(r)
    PROVE  HeadroomPoints(rules, f) = HeadroomPoints(rules, g)
<1> DEFINE S == Cleared(rules, f)
           v == [r \in S |-> Headroom(r, f)]
           w == [r \in S |-> Headroom(r, g)]
<1>1. Cleared(rules, f) = Cleared(rules, g)
  BY RulesAlike
<1>2. \A r \in S : Unordered(r) /\ Applies(r, f)
  BY DEF Cleared, With, Hard, Outcome
<1>3. \A r \in S : Headroom(r, f) = Headroom(r, g)
  <2> HIDE DEF S
  <2> QED BY <1>2, HeadroomAlike
<1>4. v = w
  BY <1>3
<1>5. IsFiniteSet(S)
  <2>1. S \subseteq rules
    BY DEF Cleared, With, Hard
  <2> HIDE DEF S
  <2> QED BY <2>1, FS_Subset
<1> HIDE DEF S
<1>6. PICK h : Sums(h, S, v) /\ HeadroomSum(S, f) = h[S]
  BY <1>5, SumOfHeadroom
<1>7. PICK k : Sums(k, S, w) /\ HeadroomSum(S, g) = k[S]
  BY <1>5, SumOfHeadroom
<1>8. Sums(k, S, v)
  BY <1>4, <1>7
<1> HIDE DEF v, w
<1>9. HeadroomSum(S, f) = HeadroomSum(S, g)
  BY <1>5, <1>6, <1>7, <1>8, SumsUnique
<1>10. Margins(rules, f) = Margins(rules, g)
  BY <1>1, <1>9 DEF Margins, S
<1> QED BY <1>1, <1>10 DEF HeadroomPoints

LEMMA DecisionAlike ==
    ASSUME NEW f, NEW g, Alike(f, g), NEW policy, UnorderedPolicy(policy), Stored(policy),
           None \notin Nat
    PROVE  /\ Applicable(policy, f) = Applicable(policy, g)
           /\ Matched(policy, f) = Matched(policy, g)
           /\ LenderDecision(policy, f) = LenderDecision(policy, g)
           /\ Position(policy, f) = Position(policy, g)
<1>1. Applicable(policy, f) = Applicable(policy, g)
  <2>1. \A p \in policy.programs : Applies(p, f) <=> Applies(p, g)
    BY AppliesAlike DEF UnorderedPolicy
  <2> QED BY <2>1 DEF Applicable
<1>2. /\ \A r \in policy.rules : Unordered(r)
      /\ \A p \in policy.programs : \A r \in p.rules : Unordered(r)
  BY DEF UnorderedPolicy, AllRules
<1>3. /\ HardFailures(policy.rules, f) = HardFailures(policy.rules, g)
      /\ HardMissing(policy.rules, f) = HardMissing(policy.rules, g)
  BY <1>2, RulesAlike
<1>4. \A p \in policy.programs : ProgramDecision(p, f) = ProgramDecision(p, g)
  BY <1>2, RulesAlike DEF ProgramDecision
<1>5. \A d : Decided(policy, f, d) = Decided(policy, g, d)
  BY <1>1, <1>4 DEF Decided, Applicable
<1>6. Matched(policy, f) = Matched(policy, g)
  BY <1>3, <1>5 DEF Matched
<1>7. Matched(policy, f) # None => Matched(policy, f) \in policy.programs
  <2> DEFINE first(d) == FirstOf(Decided(policy, f, d))
  <2>1. ASSUME NEW d, first(d) # None PROVE first(d) \in policy.programs
    <3>1. Decided(policy, f, d) \subseteq policy.programs
      BY DEF Decided, Applicable
    <3> QED BY <2>1, <3>1, FirstIsBest
  <2>2. \/ Matched(policy, f) = None
        \/ Matched(policy, f) = first("eligible")
        \/ Matched(policy, f) = first("manual_review")
        \/ Matched(policy, f) = first("needs_information")
    BY DEF Matched
  <2> HIDE DEF first
  <2> QED BY <2>1, <2>2
<1>8. Position(policy, f) = Position(policy, g)
  BY <1>1, <1>6 DEF Position
<1>9. Matched(policy, f) # None =>
         ProgramDecision(Matched(policy, f), f) = ProgramDecision(Matched(policy, g), g)
  BY <1>4, <1>6, <1>7
<1>10. LenderDecision(policy, f) = LenderDecision(policy, g)
  BY <1>3, <1>6, <1>9 DEF LenderDecision
<1> QED BY <1>1, <1>6, <1>8, <1>10

\* The order of the items decides neither the decision nor the score.
LEMMA OrderIsIrrelevant == RowsAreResults /\ RunIsOrderly => EquipmentOrderIsIrrelevant
<1> SUFFICES ASSUME RowsAreResults, RunIsOrderly, NEW l \in Evaluated,
                    \A c \in Conditions(Policies[l]) : ~ReadsFirstItem(c)
             PROVE  LET reordered == DeriveFeatures(ApplicationInput(
                            [payload EXCEPT !.equipment = Reverse(@)]))
                    IN  /\ LenderDecision(Policies[l], reordered) = row[l].decision
                        /\ FitScore(Policies[l], reordered) = row[l].fit_score
  BY DEF EquipmentOrderIsIrrelevant
<1> DEFINE policy == Policies[l]
           f == FeaturesOf(payload)
           g == FeaturesOf(Reordered(payload))
<1>1. /\ l \in Lenders /\ payload \in ApplicationPayload
      /\ MissingFields(payload) = {} /\ features = f
  <2>1. row[l] # None /\ l \in Lenders
    BY DEF Evaluated
  <2> QED BY <2>1, PayloadsAssumption DEF RunIsOrderly
<1>2. payload.equipment # <<>>
  BY <1>1 DEF MissingFields, MissingOfEach
<1>3. Alike(f, g)
  BY <1>1, <1>2, SameFeatures
<1>4. /\ row[l].decision = LenderDecision(policy, f)
      /\ row[l].fit_score = FitScore(policy, f)
  BY <1>1, RowOfEvaluated
<1>5. UnorderedPolicy(policy) /\ Stored(policy) /\ None \notin Nat
  BY <1>1, StoredUnordered, PoliciesAreStored
<1>6. DeriveFeatures(ApplicationInput([payload EXCEPT !.equipment = Reverse(@)])) = g
  BY DEF FeaturesOf, Reordered
<1> HIDE DEF f, g
<1>7. /\ Matched(policy, f) = Matched(policy, g)
      /\ LenderDecision(policy, f) = LenderDecision(policy, g)
      /\ Position(policy, f) = Position(policy, g)
  BY <1>3, <1>5, DecisionAlike
<1>8. FitScore(policy, f) = FitScore(policy, g)
  <2>1. CASE LenderDecision(policy, f) \notin {"eligible", "manual_review"}
    BY <1>7, <2>1 DEF FitScore
  <2>2. CASE LenderDecision(policy, f) \in {"eligible", "manual_review"}
    <3> DEFINE rules == policy.rules \cup Matched(policy, f).rules
    <3>1. Matched(policy, f) \in policy.programs
      BY <1>1, <2>2, MatchedIsStored
    <3>2. \A r \in rules : Unordered(r)
      BY <1>5, <3>1 DEF UnorderedPolicy, AllRules
    <3>3. IsFiniteSet(rules)
      BY <1>1, <3>1, PoliciesAssumption, FS_Union
    <3>4. /\ FitScore(policy, f) = ScoreMatch(Position(policy, f), rules, f)
          /\ FitScore(policy, g) = ScoreMatch(Position(policy, f), rules, g)
      BY <1>7, <2>2 DEF FitScore
    <3> HIDE DEF rules
    <3>5. /\ HeadroomPoints(rules, f) = HeadroomPoints(rules, g)
          /\ PreferencePoints(rules, f) = PreferencePoints(rules, g)
      BY <1>3, <3>2, <3>3, PointsAlike, RulesAlike
    <3> QED BY <3>4, <3>5, ScoreParts
  <2> QED BY <2>1, <2>2
<1> HIDE DEF policy
<1> QED BY <1>4, <1>6, <1>7, <1>8 DEF policy

\* In every run, whatever the application and the policies that test no field of
\* the first item alone: the order of the items changes nothing.
THEOREM EquipmentOrderIsIrrelevantHolds == Spec => []EquipmentOrderIsIrrelevant
<1>1. Spec => []RowsAreResults
  BY RowsInit, RowsNext, PTL DEF Spec
<1>2. Spec => []RunIsOrderly
  BY OrderlyInit, OrderlyNext, PTL DEF Spec
<1> QED BY <1>1, <1>2, OrderIsIrrelevant, PTL
=============================================================================

------------------------------ MODULE Evaluator ------------------------------
(***************************************************************************)
(* The matching engine (app/engine/evaluator.py and scoring.py): features  *)
(* and a policy give an explained decision.  Rules and programs are sets,  *)
(* since their order only shows in messages; a program's rank is unique    *)
(* within its policy.  Ratios are in thousandths, points of the score in   *)
(* tenths, both rounded down where the code keeps floats.                  *)
(***************************************************************************)
EXTENDS Features

Passed(b) == IF b THEN "passed" ELSE "failed"

-----------------------------------------------------------------------------
(* One condition *)

\* The entry of an equipment item that each equipment field reads.
ItemKey == [equipment_category |-> "category", equipment_age_years |-> "age_years",
            equipment_mileage |-> "mileage", equipment_condition |-> "condition",
            equipment_is_titled |-> "is_titled"]

TestOne(c, actual) == IF actual = None THEN "missing"
                      ELSE Passed(Holds(c.operator, actual, c.value.is))

\* The first of some of the items.
Primary(items) == items[Min(DOMAIN items)]

\* Mutant: only the first item is tested.
TestFirstItem(c, items) ==
    IF DOMAIN items = {} THEN "passed" ELSE TestOne(c, Primary(items)[ItemKey[c.field]])

\* _test_equipment: every item has to pass, except where the code falls back
\* to the first one.
TestEquipment(c, items) ==
    LET seen == {item[ItemKey[c.field]] : item \in ToSet(items)}
        primary == Primary(items)[ItemKey[c.field]]
    IN  IF DOMAIN items = {} THEN "passed"
        ELSE IF c.field = "equipment_condition" THEN TestOne(c, primary)
        ELSE IF None \in seen THEN "missing"
        ELSE IF c.field # "equipment_is_titled"
             THEN Passed(\A v \in seen : Holds(c.operator, v, c.value.is))
        ELSE IF c.operator \in {"is_true", "eq"} THEN Passed(seen = {TRUE})
        ELSE TestOne(c, primary)

\* The items a rule is about: those of the category it is conditional on.  The
\* code takes the first such condition; a rule that applies names one category
\* at most, since each of its conditions holds of every item.
RelevantItems(conditions, items) ==
    LET categories == {c.value.is : c \in {c \in conditions :
                          c.field = "equipment_category" /\ c.operator = "eq"}}
    IN  IF categories = {} THEN items
        ELSE Restrict(items, {i \in DOMAIN items : items[i].category \in categories})

\* _test: passed, failed, or missing when what it tests is not known.
Test(c, conditions, features) ==
    LET items == features["_equipment_list"]
    IN  IF c.field \in DOMAIN ItemKey /\ DOMAIN items # {}
        THEN TestEquipment(c, RelevantItems(conditions, items))
        ELSE TestOne(c, features[c.field])

\* Mutant: measured by the first item.
ActualOfFirst(c, conditions, features) ==
    LET items == RelevantItems(conditions, features["_equipment_list"])
    IN  IF c.field \in DOMAIN ItemKey /\ DOMAIN items # {}
        THEN Primary(items)[ItemKey[c.field]] ELSE features[c.field]

\* What a passed numeric criterion is measured by: the worst item's value.
Actual(c, conditions, features) ==
    LET items == RelevantItems(conditions, features["_equipment_list"])
    IN  IF c.field \in DOMAIN ItemKey /\ DOMAIN items # {}
        THEN Greatest(Given(items, ItemKey[c.field])) ELSE features[c.field]

ConditionHolds(c, features) == Test(c, {}, features) = "passed"
Applies(x, features) == \A c \in x.applies_when : ConditionHolds(c, features)

-----------------------------------------------------------------------------
(* Rules and programs *)

\* evaluate_rule
Outcome(rule, features) ==
    IF ~Applies(rule, features) THEN "skipped"
    ELSE IF rule.kind = "simple" THEN Test(rule, rule.applies_when, features)
    ELSE LET attempts == {Test(c, {}, features) : c \in rule.alternatives}
         IN  IF "passed" \in attempts THEN "passed"
             ELSE IF "failed" \in attempts THEN "failed" ELSE "missing"

Hard(rules) == {r \in rules : r.severity = "hard"}
With(rules, outcome, features) == {r \in rules : Outcome(r, features) = outcome}
HardFailures(rules, features) == With(Hard(rules), "failed", features)
HardMissing(rules, features) == With(Hard(rules), "missing", features)

\* _evaluate_program, for a program that applies
ProgramDecision(p, features) ==
    IF HardFailures(p.rules, features) # {} THEN "ineligible"
    ELSE IF HardMissing(p.rules, features) # {} THEN "needs_information"
    ELSE IF p.decision_mode = "manual_review" THEN "manual_review" ELSE "eligible"

-----------------------------------------------------------------------------
(* A lender *)

Applicable(policy, features) == {p \in policy.programs : Applies(p, features)}
Decided(policy, features, decision) ==
    {p \in Applicable(policy, features) : ProgramDecision(p, features) = decision}
\* Mutant: the order of the programs is reversed.
LastOf(programs) ==
    IF programs = {} THEN None
    ELSE CHOOSE p \in programs : \A q \in programs : p.rank >= q.rank
\* The first in the order of rank, if any.
FirstOf(programs) ==
    IF programs = {} THEN None
    ELSE CHOOSE p \in programs : \A q \in programs : p.rank <= q.rank

Matched(policy, features) ==
    LET first(decision) == FirstOf(Decided(policy, features, decision))
    IN  IF HardFailures(policy.rules, features) # {} THEN None
        ELSE IF first("eligible") # None THEN first("eligible")
        ELSE IF first("manual_review") # None THEN first("manual_review")
        ELSE first("needs_information")

LenderDecision(policy, features) ==
    LET matched == Matched(policy, features)
    IN  IF HardFailures(policy.rules, features) # {} THEN "ineligible"
        ELSE IF matched # None THEN ProgramDecision(matched, features)
        ELSE IF HardMissing(policy.rules, features) # {} THEN "needs_information"
        ELSE "ineligible"

\* The program the rejection is explained by: fewest hard failures, then
\* fewest missing answers, then the last in the order of rank.
Closer(p, q, features) ==
    LET hard(x) == Cardinality(HardFailures(x.rules, features))
        missing(x) == Cardinality(HardMissing(x.rules, features))
    IN  \/ hard(p) < hard(q)
        \/ hard(p) = hard(q) /\ missing(p) < missing(q)
        \/ hard(p) = hard(q) /\ missing(p) = missing(q) /\ p.rank >= q.rank
Closest(policy, features) ==
    LET applicable == Applicable(policy, features)
    IN  IF Matched(policy, features) # None THEN Matched(policy, features)
        ELSE IF applicable = {} THEN None
        ELSE CHOOSE p \in applicable : \A q \in applicable : Closer(p, q, features)

\* Mutant: only the lender's own rules are given as reasons.
ReasonsOfLender(policy, features) ==
    {r.label : r \in HardFailures(policy.rules, features)}
        \cup (IF Applicable(policy, features) = {} THEN {"No program applies"} ELSE {})

\* What the applicant is told: the labels of the rules that turned him down.
Reasons(policy, features) ==
    LET closest == Closest(policy, features)
        failures == HardFailures(policy.rules, features)
            \cup (IF closest = None \/ Matched(policy, features) # None THEN {}
                  ELSE HardFailures(closest.rules, features))
    IN  {r.label : r \in failures}
            \cup (IF Applicable(policy, features) = {}
                  THEN {"No program applies"} ELSE {})

\* The share of the hard criteria that passed, in thousandths.
NearMiss(policy, features) ==
    LET closest == Closest(policy, features)
        hard == Hard(policy.rules \cup IF closest = None THEN {} ELSE closest.rules)
        tested == hard \ With(hard, "skipped", features)
    IN  IF tested = {} THEN 0
        ELSE (1000 * Cardinality(With(tested, "passed", features)))
                \div Cardinality(tested)

-----------------------------------------------------------------------------
(* scoring.py *)

\* Mutant: the upper bound is forgotten.
AtLeast(low, n, high) == Max({low, n})
Clamp(low, n, high) == Max({low, Min({n, high})})

\* The margin by which a criterion is cleared, None where there is none.
Headroom(rule, features) ==
    LET actual == Actual(rule, rule.applies_when, features)
        expected == rule.value.is
        span == IF HeadroomSpan(rule.field) # None THEN 4 * HeadroomSpan(rule.field)
                ELSE Max({expected, -expected})  \* quarters
    IN  IF \/ rule.kind # "simple"
           \/ Direction(rule.operator) = 0 \/ span <= 0
        THEN None
        ELSE Clamp(0, (4000 * (actual - expected) * Direction(rule.operator))
                          \div span, 1000)

ScoreMatch(position, rules, features) ==
    LET cleared == {r \in With(Hard(rules), "passed", features) :
                       Headroom(r, features) # None}
        margins == MapThenSumSet(LAMBDA r : Headroom(r, features), cleared)
        soft == {r \in rules : r.severity = "soft"} \ With(rules, "skipped", features)
        met == Cardinality(With(soft, "passed", features))
        tier == (400 * Max({200, 1000 - 250 * position})) \div 1000
        headroom == IF cleared = {} THEN 200
                    ELSE (400 * margins) \div (1000 * Cardinality(cleared))
        preferences == IF soft = {} THEN 100 ELSE (200 * met) \div Cardinality(soft)
    IN  Clamp(0, (tier + headroom + preferences + 5) \div 10, 100)

\* The position of the matched program among the applicable ones.
Position(policy, features) ==
    Cardinality({p \in Applicable(policy, features) :
                    p.rank < Matched(policy, features).rank})

FitScore(policy, features) ==
    IF LenderDecision(policy, features) \in {"eligible", "manual_review"}
    THEN ScoreMatch(Position(policy, features),
                    policy.rules \cup Matched(policy, features).rules, features)
    ELSE 0
=============================================================================

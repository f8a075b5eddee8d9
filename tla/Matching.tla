------------------------------- MODULE Matching -------------------------------
(***************************************************************************)
(* One execution of the underwriting pipeline over the data: validate and  *)
(* derive, evaluate each lender, rank, persist (app/services/underwriting  *)
(* .py, driven by execute_run or by the Hatchet tasks).  Underwriting.tla  *)
(* has the rows and the drivers; this module has what a run decides.       *)
(*                                                                         *)
(* A lender is the number of its name in the order of names.               *)
(***************************************************************************)
EXTENDS Evaluator

CONSTANTS
    Lenders,   \* the lenders with a published version
    Policies,  \* the policy of each
    Payloads   \* the applications that may be submitted

\* A rank is a positive 32-bit integer, and no two programs of a version share
\* one (uq_programs_policy_version_rank).
MaxRank == 2147483647

ASSUME LendersAssumption == IsFiniteSet(Lenders) /\ Lenders \subseteq Nat
ASSUME PoliciesAssumption ==
    \A l \in Lenders :
        /\ ValidPolicy(Policies[l])
        /\ IsFiniteSet(Policies[l].rules) /\ IsFiniteSet(Policies[l].programs)
        /\ \A r \in Policies[l].rules \cup UNION {p.rules : p \in Policies[l].programs} :
              r.value.kind = "number" => r.value.is \in Int
        /\ \A p \in Policies[l].programs :
              /\ p # None /\ IsFiniteSet(p.rules)
              /\ p.rank \in 1..MaxRank
              /\ p.decision_mode \in {"automatic", "manual_review"}
              /\ \A q \in Policies[l].programs : p.rank = q.rank => p = q
ASSUME PayloadsAssumption == Payloads \subseteq ApplicationPayload

VARIABLES
    stage,     \* the step the run is at
    payload,   \* the application
    features,  \* the feature snapshot
    row,       \* the result row of each lender, None until it is evaluated
    rank       \* the rank of each row, None until the rows are ranked

vars == <<stage, payload, features, row, rank>>

Decisions == {"eligible", "manual_review", "needs_information", "ineligible", "error"}

Init == /\ stage = "prepare"
        /\ payload \in Payloads
        /\ features = None
        /\ row = [l \in Lenders |-> None]
        /\ rank = [l \in Lenders |-> None]

\* build_features: gaps end the run, whatever the driver.
Prepare ==
    /\ stage = "prepare"
    /\ IF MissingFields(payload) # {}
       THEN stage' = "failed" /\ UNCHANGED features
       ELSE /\ stage' = "evaluate"
            /\ features' = DeriveFeatures(ApplicationInput(payload))
    /\ UNCHANGED <<payload, row, rank>>

\* result_row of an evaluation.
ResultRow(policy) ==
    [decision |-> LenderDecision(policy, features),
     matched |-> IF Matched(policy, features) = None THEN None
                 ELSE Matched(policy, features).rank,
     fit_score |-> FitScore(policy, features),
     near_miss |-> NearMiss(policy, features),
     reasons |-> Reasons(policy, features)]

\* error_row: the columns it does not name have no value until they are
\* flushed; rank_rows reads fit_score before that.
ErrorRow == [decision |-> "error", matched |-> None, fit_score |-> None,
             near_miss |-> 0, reasons |-> {"could not be evaluated"}]

EvaluateLender(l) ==
    /\ stage = "evaluate"
    /\ row[l] = None
    /\ row' = [row EXCEPT ![l] = ResultRow(Policies[l])]
    /\ UNCHANGED <<stage, payload, features, rank>>

EvaluationFails(l) ==
    /\ stage = "evaluate"
    /\ row[l] = None
    /\ row' = [row EXCEPT ![l] = ErrorRow]
    /\ UNCHANGED <<stage, payload, features, rank>>

DecisionRank(decision) == CASE decision = "eligible" -> 1
                            [] decision = "manual_review" -> 2
                            [] decision = "needs_information" -> 3
                            [] decision = "ineligible" -> 4
                            [] OTHER -> 5
\* Mutant: the score comes before the decision.
KeyByScore(l) == <<-row[l].fit_score, DecisionRank(row[l].decision), -row[l].near_miss, l>>
Key(l) == <<DecisionRank(row[l].decision), -row[l].fit_score, -row[l].near_miss, l>>
Before(k1, k2) == \E i \in DOMAIN k1 : /\ k1[i] < k2[i]
                                       /\ \A j \in 1..(i - 1) : k1[j] = k2[j]

\* The key of rank_rows negates fit_score, which an error row does not have.
Sortable(l) == row[l].fit_score # None

\* complete_run with the rows of all lenders: rank and persist, or raise.
Persist ==
    /\ stage = "evaluate"
    /\ \A l \in Lenders : row[l] # None
    /\ IF Lenders # {} /\ \A l \in Lenders : Sortable(l)
       THEN /\ stage' = "completed"
            /\ rank' = [l \in Lenders |->
                  Cardinality({m \in Lenders : Before(Key(m), Key(l))}) + 1]
       ELSE stage' = "failed" /\ UNCHANGED rank
    /\ UNCHANGED <<payload, features, row>>

Next == \/ Prepare
        \/ \E l \in Lenders : EvaluateLender(l) \/ EvaluationFails(l)
        \/ Persist

Spec == Init /\ [][Next]_vars

-----------------------------------------------------------------------------
(* Properties *)

\* What the steps hand to each other has its shape: derive_features produces
\* every field of the catalog, and the rows are ranked together at the end.
TypeOK ==
    /\ stage \in {"prepare", "evaluate", "completed", "failed"}
    /\ payload \in Payloads
    /\ features # None => DOMAIN features = Fields \cup {"_equipment_list"}
    /\ \A l \in Lenders : row[l] # None => row[l].decision \in Decisions
    /\ \A l \in Lenders : rank[l] # None <=> stage = "completed"

Evaluated == {l \in Lenders : row[l] # None /\ row[l].decision # "error"}
Chosen(l) == {p \in Policies[l].programs : p.rank = row[l].matched}

\* The outcomes of the hard rules; the programs open to the applicant, past no
\* failure; those of them that clear every rule; and the best by rank.
Worst(rules, f) == {Outcome(r, f) : r \in Hard(rules)}
Open(policy, f) ==
    {p \in policy.programs : Applies(p, f) /\ "failed" \notin Worst(p.rules, f)}
Clearing(policy, f, mode) ==
    {p \in Open(policy, f) : /\ Worst(p.rules, f) \subseteq {"passed", "skipped"}
                              /\ p.decision_mode = mode}
Best(S) == {p \in S : \A q \in S : p.rank <= q.rank}

\* The decision of evaluate_lender and the program it names are what the
\* precedence of decisions says: an automatic program that clears all its hard
\* rules, else a manual one, else one that lacks information, each the best in
\* the order of rank, and none of them past a failed restriction.
DecisionIsJustified ==
    \A l \in Evaluated :
        LET policy == Policies[l]
            automatic == Clearing(policy, features, "automatic")
            manual == Clearing(policy, features, "manual_review")
            restrictions == Worst(policy.rules, features)
            decided(d, S) == row[l].decision = d /\ Chosen(l) = Best(S)
        IN  /\ "failed" \in restrictions => decided("ineligible", {})
            /\ "failed" \notin restrictions =>
                 /\ automatic # {} => decided("eligible", automatic)
                 /\ automatic = {} /\ manual # {} => decided("manual_review", manual)
                 /\ automatic \cup manual = {} =>
                      decided(IF Open(policy, features) # {} \/ "missing" \in restrictions
                              THEN "needs_information" ELSE "ineligible",
                              Open(policy, features))

\* evaluate_lender never declines in silence, and only gives as a reason a hard
\* rule of the lender that failed.
DeclineIsExplained ==
    \A l \in Evaluated :
        LET rules == Policies[l].rules \cup
                         UNION {p.rules : p \in Policies[l].programs}
        IN  /\ row[l].decision = "ineligible" => row[l].reasons # {}
            /\ \A reason \in row[l].reasons \ {"No program applies"} :
                  \E r \in HardFailures(rules, features) : r.label = reason

\* score_match: a match scores the points of its tier, which are 40 for the best
\* program open to the applicant and 10 less for each one he is passed over for,
\* but at least 8, and at most 60 more for headroom and preferences.  A lender
\* without a match scores nothing.
ScoreIsBounded ==
    \A l \in Evaluated :
        IF row[l].decision \notin {"eligible", "manual_review"}
        THEN row[l].fit_score = 0
        ELSE LET better == {p \in Applicable(Policies[l], features) :
                               p.rank < row[l].matched}
                 tier == Max({8, 40 - 10 * Cardinality(better)})
             IN  row[l].fit_score \in tier..(tier + 60)

\* The hard rules, restrictions of the lender and rules of the program, that a
\* match of lender l had to get past: those that apply to the applicant.
MatchedLenders == {l \in Evaluated : row[l].decision \in {"eligible", "manual_review"}}
OfProgram(l) == UNION {p.rules : p \in Chosen(l)}
RestsOn(l) == {r \in Hard(Policies[l].rules \cup OfProgram(l)) :
                  r.kind = "simple" /\ Applies(r, features)}

\* derive_features: lenders underwrite to the weakest guarantor, so a match of a
\* lender or a program with a minimum score means that nobody who has to
\* guarantee is below it.
WeakestGuarantorDecides ==
    \A l \in MatchedLenders : \A r \in RestsOn(l) :
        (r.field = "fico_score" /\ r.operator = "gte" /\ ~CorpOnly(payload)) =>
            /\ \A g \in ToSet(payload.guarantors) :
                  g.ownership_pct >= 10 => g.fico_score >= r.value.is
            /\ \E g \in ToSet(payload.guarantors) : g.fico_score >= r.value.is

\* _test_equipment and evaluate_lender: a match means that every item of the
\* application is within the limits of age and mileage that apply, the lender's
\* and the program's, and of a category they finance.  The one way past a limit is
\* a mileage that was not entered: it lets an application, with all its items,
\* past a restriction of the lender, and never past a rule of the program.
EveryItemIsTested ==
    \A l \in MatchedLenders : \A r \in RestsOn(l) : \A e \in ToSet(payload.equipment) :
        /\ (r.field = "equipment_age_years" /\ r.operator = "lte") =>
              ThisYear - e.model_year <= r.value.is
        /\ (r.field = "equipment_mileage" /\ r.operator = "lte") =>
              \/ e.mileage # None /\ e.mileage <= r.value.is
              \/ /\ r \notin OfProgram(l)
                 /\ \E other \in ToSet(payload.equipment) : other.mileage = None
        /\ (r.field = "equipment_category" /\ r.operator = "not_in") =>
              e.category \notin r.value.is

\* missing_fields and derive_features agree: a fact that submission insists on
\* is never what a rule finds missing.
CompleteIsKnown ==
    features # None =>
        \A f \in {"business_state", "industry", "years_in_business", "is_startup",
                  "is_trucking", "is_medical", "has_physical_location", "is_us_based",
                  "loan_amount", "term_months", "transaction_type",
                  "largest_comparable_credit", "comparable_credit_pct",
                  "comparable_contracts_count", "equipment_category",
                  "equipment_age_years", "equipment_condition"}
                 \cup (IF features["corp_only"] THEN {"annual_revenue"}
                       ELSE {"fico_score", "is_homeowner", "is_us_citizen",
                             "revolving_balance", "has_cdl"})
                 \cup (IF features["is_trucking"] = TRUE THEN {"trucks_operated"} ELSE {}) :
            features[f] # None

\* Fields that _test_equipment reads off the first item alone.
ReadsFirstItem(c) ==
    \/ c.field = "equipment_condition"
    \/ c.field = "equipment_is_titled" /\ c.operator \in {"is_false", "neq"}
Conditions(policy) ==
    LET rules == policy.rules \cup UNION {p.rules : p \in policy.programs}
    IN  rules \cup (UNION {x.applies_when : x \in rules \cup policy.programs})
              \cup (UNION {r.alternatives : r \in rules})

\* "Equipment array ordering produces identical evaluation outcomes", for the
\* policies that test no field of the first item alone.
EquipmentOrderIsIrrelevant ==
    \A l \in Evaluated :
        (\A c \in Conditions(Policies[l]) : ~ReadsFirstItem(c)) =>
            LET reordered == DeriveFeatures(ApplicationInput(
                    [payload EXCEPT !.equipment = Reverse(@)]))
            IN  /\ LenderDecision(Policies[l], reordered) = row[l].decision
                /\ FitScore(Policies[l], reordered) = row[l].fit_score

\* rank_rows gives every lender a position of its own; a better decision comes
\* first whatever the scores, and among equal decisions a better score.
RanksFollowPrecedence ==
    stage = "completed" =>
        /\ {rank[l] : l \in Lenders} = 1..Cardinality(Lenders)
        /\ \A l, m \in Lenders :
              LET better(d, e) == DecisionRank(d) < DecisionRank(e)
              IN  rank[l] < rank[m] =>
                    /\ ~better(row[m].decision, row[l].decision)
                    /\ row[l].decision = row[m].decision =>
                          row[l].fit_score >= row[m].fit_score

\* "One lender failing to evaluate must not sink the whole run."
OneLenderDoesNotSinkTheRun ==
    stage = "failed" => MissingFields(payload) # {}
=============================================================================

------------------------------ MODULE MCMatching ------------------------------
(* Three small policies and the applications that exercise them.            *)
EXTENDS Matching

MCLenders == 1..3

Simple(label, severity, field, operator, value) ==
    [kind |-> "simple", label |-> label, severity |-> severity, field |-> field,
     operator |-> operator, value |-> value, alternatives |-> {}, applies_when |-> {}]
If(rule, conditions) == [rule EXCEPT !.applies_when = conditions]
Cond(field, operator, value) == [field |-> field, operator |-> operator, value |-> value]
AnyOf(label, conditions) ==
    [kind |-> "any_of", label |-> label, severity |-> "hard", field |-> None,
     operator |-> None, value |-> Nothing, alternatives |-> conditions,
     applies_when |-> {}]
Prog(tier, mode, conditions, rules) ==
    [rank |-> tier, decision_mode |-> mode, applies_when |-> conditions, rules |-> rules]

Fico(n) == Simple("fico", "hard", "fico_score", "gte", Number(n))
Titled == Simple("titled", "soft", "equipment_is_titled", "is_true", Nothing)
Age(n) == Simple("age", "hard", "equipment_age_years", "lte", Number(n))
Miles(n) == Simple("miles", "hard", "equipment_mileage", "lte", Number(n))
NoForklift == Simple("kind", "hard", "equipment_category", "not_in", List({"forklift"}))

\* A lender with tiers by score, an alternative table without PayNet, a limit of
\* mileage, and a seasoning rule for bankruptcies.
Tiered ==
    [rules |-> {Simple("state", "hard", "business_state", "not_in", List({"NV"})),
                Miles(400),
                If(Simple("seasoning", "hard", "years_since_bankruptcy_discharge",
                          "gte", Number(7)),
                   {Cond("has_bankruptcy", "is_true", Nothing)})},
     programs |-> {Prog(1, "automatic", {Cond("has_paynet", "is_true", Nothing)},
                        {Fico(720), Age(15), Titled,
                         Simple("paynet", "hard", "paynet_score", "gte", Number(660))}),
                   Prog(2, "automatic", {Cond("has_paynet", "is_true", Nothing)},
                        {Fico(660), Age(15)}),
                   Prog(3, "automatic", {Cond("has_paynet", "is_false", Nothing)},
                        {Fico(680),
                         AnyOf("strength", {Cond("is_homeowner", "is_true", Nothing),
                                            Cond("cdl_years", "gte", Number(5))})})}]
\* A lender with equipment limits and a manual programme.
Manual ==
    [rules |-> {If(Simple("truck age", "hard", "equipment_age_years", "lte", Number(10)),
                   {Cond("equipment_category", "eq", Text("class_8_truck"))})},
     programs |-> {Prog(1, "automatic", {},
                        {Fico(700), Titled,
                         NoForklift, Miles(400)}),
                   Prog(2, "manual_review", {},
                        {Fico(650), Simple("amount", "hard", "loan_amount", "between",
                                           Numbers(<<10, 75>>))})}]
\* A lender for businesses without a guarantor, which restricts its equipment.
Corporate ==
    [rules |-> {Simple("startup", "hard", "is_startup", "is_false", Nothing),
                Age(12), NoForklift,
                Simple("condition", "soft", "equipment_condition", "eq", Text("new"))},
     programs |-> {Prog(1, "automatic", {Cond("corp_only", "is_true", Nothing)},
                        {Simple("revenue", "hard", "annual_revenue", "gt", Number(500))}),
                   Prog(2, "manual_review", {Cond("corp_only", "eq", Flag(FALSE))},
                        {Simple("available", "hard", "revolving_available_pct", "gte",
                                Number(50))})}]
MCPolicies == <<Tiered, Manual, Corporate>>

Guarantor(own, fico, home, discharge) ==
    [full_name |-> "name", ownership_pct |-> own, fico_score |-> fico,
     is_homeowner |-> home, years_at_residence |-> 3, is_us_citizen |-> TRUE,
     industry_experience_years |-> None, has_cdl |-> home, cdl_years |-> None,
     is_licensed_medical_professional |-> TRUE, years_licensed |-> None,
     revolving_credit_limit |-> IF home THEN 100 ELSE 0, revolving_balance |-> 20,
     unsecured_debt |-> None, has_bankruptcy |-> discharge # None,
     bankruptcy_discharge_date |-> discharge, has_judgments |-> FALSE,
     has_foreclosures |-> FALSE, has_repossessions |-> FALSE,
     has_tax_liens |-> FALSE, has_recent_collections |-> FALSE]
Guarantors == <<Guarantor(60, 740, TRUE, None), Guarantor(10, 670, FALSE, 2020),
                Guarantor(9, 600, TRUE, 2015), Guarantor(50, None, TRUE, None)>>
Alone == {<<Guarantors[i]>> : i \in 1..4}
\* Their order does not matter: derive_features reads them as a whole.
Teams == {<<>>} \cup Alone \cup {<<Guarantors[p[1]], Guarantors[p[2]]>> :
                                  p \in {p \in (1..4) \X (1..4) : p[1] < p[2]}}

Item(category, year, miles, titled) ==
    [category |-> category, model_year |-> year, mileage |-> miles,
     condition |-> IF year > 2022 THEN "new" ELSE "used", is_titled |-> titled]
NewTruck == Item("class_8_truck", 2024, 100, TRUE)
OldTruck == Item("class_8_truck", 2012, 500, TRUE)
Forklift == Item("forklift", 2018, None, FALSE)
Items == {NewTruck, OldTruck, Forklift}
\* Their order may matter.
Lists == {<<>>} \cup {<<x>> : x \in Items} \cup {<<x, y>> : x, y \in Items}

Payload(state, years, trucks, paynet, amount, corp, gs, items) ==
    [business |-> [legal_name |-> "name", entity_type |-> "llc", state |-> state,
                   industry |-> IF trucks = None THEN "medical" ELSE "trucking",
                   years_in_business |-> years, annual_revenue |-> 900,
                   has_physical_location |-> TRUE, is_us_based |-> TRUE,
                   trucks_operated |-> trucks],
     loan |-> [amount |-> amount, term_months |-> 48,
               transaction_type |-> "dealer_purchase", down_payment_pct |-> None,
               soft_cost_pct |-> None, corp_only |-> corp],
     business_credit |-> [paynet_score |-> paynet, trade_lines_count |-> None,
                          trade_history_years |-> None, largest_comparable_credit |-> 0,
                          comparable_contracts_count |-> 0,
                          clean_payment_history_months |-> None],
     guarantors |-> gs, equipment |-> items]
Businesses == {<<"TX", 6, 5, 670, 50>>, <<"TX", 3, None, None, 100>>,
               <<"NV", 1, 2, 640, 50>>}
\* Every team with a few lists of items, and every list with a few teams; a team
\* is ignored where the business stands for itself.
MCPayloads ==
    {Payload(b[1], b[2], b[3], b[4], b[5], FALSE, gs, items) :
        b \in Businesses, gs \in Teams, items \in {<<NewTruck>>, <<OldTruck, Forklift>>}}
    \cup {Payload(b[1], b[2], b[3], b[4], b[5], FALSE, gs, items) :
        b \in Businesses, gs \in {<<Guarantors[1]>>, <<Guarantors[2]>>}, items \in Lists}
    \cup {Payload(b[1], b[2], b[3], b[4], b[5], TRUE, gs, items) :
        b \in Businesses, gs \in {<<>>, <<Guarantors[3]>>}, items \in Lists}
    \cup {[Payload("TX", 6, 5, 670, 50, TRUE, <<>>, <<NewTruck>>)
              EXCEPT !.business.legal_name = ""]}
=============================================================================

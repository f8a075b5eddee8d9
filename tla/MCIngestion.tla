----------------------------- MODULE MCIngestion -----------------------------
(* What a model may read in a guideline, and a lender with a published policy. *)
EXTENDS Ingestion

CONSTANTS l1, v1

Rule(label, field, operator, value, conditions) ==
    [kind |-> "simple", label |-> label, severity |-> "hard", field |-> field,
     operator |-> operator, value |-> value, alternatives |-> {},
     applies_when |-> conditions]
Cond(field, operator, value) == [field |-> field, operator |-> operator, value |-> value]
Prog(name, rank, conditions, rules) ==
    [name |-> name, rank |-> rank, applies_when |-> conditions, rules |-> rules]

Fico == Rule("fico", "fico_score", "gte", Number(680), {})
\* One option in the slot for lists, where the operator wants a scalar.
Trucks == Cond("equipment_category", "eq", List({"class_8_truck"}))

\* A guideline in order, for the first tier or for the second.
Good(tier) ==
    [lender_name |-> "acme",
     rules |-> {Rule("states", "business_state", "not_in", Text("NV"), {})},
     programs |-> {Prog("standard", tier, {}, {Fico, Rule("age", "equipment_age_years",
                        "lte", Number(15), {Trucks})})}]
\* A field nobody knows, a range the wrong way round, a number where an option
\* belongs, and a program on a condition that no policy can have.
Flawed ==
    [lender_name |-> "acme",
     rules |-> {Rule("unknown", "credit_karma", "gte", Number(1), {}),
                Rule("amount", "loan_amount", "between", Numbers(<<500, 10>>), {})},
     programs |-> {Prog("standard", 1, {}, {Fico, Rule("new", "equipment_condition",
                        "eq", Number(1), {})}),
                   Prog("broken", 2, {Cond("industry", "gt", Text("retail"))}, {Fico})}]
MCExtracted == [good |-> Good(2), flawed |-> Flawed]
FirstTier == [good |-> Good(1)]
MCExisting == (l1 :> "acme")
Published(document) ==
    v1 :> [lender |-> l1, status |-> "published", source |-> None, document |-> document]
MCPolicies == Published("flawed")
FirstTierPolicies == Published("good")
=============================================================================

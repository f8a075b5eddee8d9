------------------------------- MODULE Catalog -------------------------------
(***************************************************************************)
(* The vocabulary of a credit policy (app/engine/catalog.py, operators.py  *)
(* and policy.py): the fields a rule may test, the operators it may test   *)
(* them with, and what makes a condition, a rule, a program and a policy   *)
(* valid.  Labels, units and messages are left out.                        *)
(*                                                                         *)
(* A value is tagged with its shape, because validation tells a number     *)
(* from a text or a list: [kind |-> ..., is |-> ...].  A list of options   *)
(* is a set; a list of numbers is a sequence, since a range is ordered.    *)
(***************************************************************************)
EXTENDS Integers, Sequences, FiniteSets

CONSTANT None  \* Python's None

NumberFields ==
    {"years_in_business", "annual_revenue", "trucks_operated", "fico_score",
     "years_at_residence", "industry_experience_years", "cdl_years",
     "years_licensed", "revolving_available_pct", "revolving_balance",
     "revolving_plus_unsecured_debt", "years_since_bankruptcy_discharge",
     "paynet_score", "trade_lines_count", "trade_history_years",
     "largest_comparable_credit", "comparable_credit_pct",
     "comparable_contracts_count", "clean_payment_history_months",
     "loan_amount", "term_months", "down_payment_pct", "soft_cost_pct",
     "equipment_age_years", "equipment_mileage"}
BooleanFields ==
    {"has_physical_location", "is_us_based", "is_startup", "is_trucking",
     "is_medical", "corp_only", "is_homeowner", "is_us_citizen", "has_cdl",
     "is_licensed_medical_professional", "has_bankruptcy", "has_judgments",
     "has_foreclosures", "has_repossessions", "has_tax_liens",
     "has_recent_collections", "has_paynet", "equipment_is_titled"}

\* The enumerated fields with their options, a few of each.
Options ==
    [business_state |-> {"CA", "NV", "TX"},
     industry |-> {"trucking", "medical", "dental", "veterinary", "retail"},
     entity_type |-> {"llc", "corporation"},
     transaction_type |-> {"dealer_purchase", "private_party"},
     equipment_category |-> {"class_8_truck", "trailer", "forklift"},
     equipment_condition |-> {"new", "used"}]

Fields == NumberFields \cup BooleanFields \cup DOMAIN Options
Type(f) == IF f \in NumberFields THEN "number"
           ELSE IF f \in BooleanFields THEN "boolean" ELSE "enum"

\* How far above a minimum counts as full headroom; None: a quarter of it.
HeadroomSpan(f) ==
    CASE f \in {"fico_score", "paynet_score"} -> 60
      [] f \in {"years_in_business", "trucks_operated", "years_licensed",
                "industry_experience_years", "trade_history_years"} -> 5
      [] f = "revolving_available_pct" -> 40
      [] f = "comparable_credit_pct" -> 50
      [] OTHER -> None

-----------------------------------------------------------------------------
(* Operators *)

Operators == {"gte", "gt", "lte", "lt", "between", "eq", "neq", "in", "not_in",
              "is_true", "is_false"}
Shape(op) == CASE op \in {"is_true", "is_false"} -> "none"
               [] op = "between" -> "range"
               [] op \in {"in", "not_in"} -> "list"
               [] OTHER -> "scalar"
FieldTypes(op) == CASE op \in {"eq", "neq"} -> {"number", "enum", "boolean"}
                    [] op \in {"in", "not_in"} -> {"enum"}
                    [] op \in {"is_true", "is_false"} -> {"boolean"}
                    [] OTHER -> {"number"}
Direction(op) == CASE op \in {"gte", "gt"} -> 1
                   [] op \in {"lte", "lt"} -> -1
                   [] OTHER -> 0

\* operator.test: does the actual value a meet the expected value e?
Holds(op, a, e) == CASE op = "gte" -> a >= e
                     [] op = "gt" -> a > e
                     [] op = "lte" -> a <= e
                     [] op = "lt" -> a < e
                     [] op = "between" -> e[1] <= a /\ a <= e[2]
                     [] op = "eq" -> a = e
                     [] op = "neq" -> a # e
                     [] op = "in" -> a \in e
                     [] op = "not_in" -> a \notin e
                     [] op = "is_true" -> a = TRUE
                     [] op = "is_false" -> a = FALSE

-----------------------------------------------------------------------------
(* Validation *)

Number(n) == [kind |-> "number", is |-> n]
Text(s) == [kind |-> "text", is |-> s]
Flag(b) == [kind |-> "boolean", is |-> b]
List(S) == [kind |-> "options", is |-> S]
Numbers(s) == [kind |-> "range", is |-> s]
Nothing == [kind |-> "none", is |-> None]

\* _check_condition: the field and the operator are known and suit each other,
\* and the value has the operator's shape and the field's type.
CheckCondition(c) ==
    /\ c.field \in Fields
    /\ c.operator \in Operators
    /\ Type(c.field) \in FieldTypes(c.operator)
    /\ CASE Shape(c.operator) = "none" -> TRUE
         [] Shape(c.operator) = "scalar" ->
              CASE Type(c.field) = "number" -> c.value.kind = "number"
                [] Type(c.field) = "boolean" -> c.value.kind = "boolean"
                [] OTHER -> /\ c.value.kind = "text"
                            /\ c.value.is \in Options[c.field]
         [] Shape(c.operator) = "range" ->
              /\ c.value.kind = "range"
              /\ Len(c.value.is) = 2
              /\ c.value.is[1] <= c.value.is[2]
         [] OTHER -> /\ c.value.kind = "options"
                     /\ c.value.is # {}
                     /\ c.value.is \subseteq Options[c.field]

ValidRule(r) ==
    /\ \A c \in r.alternatives \cup r.applies_when : CheckCondition(c)
    /\ IF r.kind = "simple" THEN CheckCondition(r) ELSE r.alternatives # {}

ValidProgram(p) ==
    /\ p.rank >= 1
    /\ \A c \in p.applies_when : CheckCondition(c)
    /\ \A r \in p.rules : ValidRule(r)

\* Policy.model_validate
ValidPolicy(policy) == /\ \A r \in policy.rules : ValidRule(r)
                       /\ \A p \in policy.programs : ValidProgram(p)
=============================================================================

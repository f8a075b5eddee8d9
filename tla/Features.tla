------------------------------- MODULE Features -------------------------------
(***************************************************************************)
(* What the engine knows of an application: completeness validation        *)
(* (app/services/completeness.py) and the derivation of the flat feature   *)
(* set (app/engine/adapters.py and features.py).                           *)
(*                                                                         *)
(* A payload is a record of business, loan, business_credit, guarantors    *)
(* and equipment, each a record (or a sequence of records) that holds None *)
(* where nothing was entered.  Dates are years; percentages are whole.     *)
(***************************************************************************)
EXTENDS Catalog, SequencesExt

CONSTANT ThisYear

ASSUME ThisYearAssumption == ThisYear \in Int
ASSUME NoneAssumption == None \notin Int /\ None \notin BOOLEAN

-----------------------------------------------------------------------------
(* schemas/application.py: what the API accepts of an application, and stores.  *)
(* The highest amount, count and mileage are left out.                         *)

Optional(S) == S \cup {None}
Money == Nat
Percent == 0..100
Years == 0..150
Count == Nat

BusinessPayload ==
    [legal_name : Optional(STRING), entity_type : Optional(Options.entity_type),
     state : Optional(Options.business_state), industry : Optional(Options.industry),
     years_in_business : Optional(Years), annual_revenue : Optional(Money),
     has_physical_location : Optional(BOOLEAN), is_us_based : Optional(BOOLEAN),
     trucks_operated : Optional(Count)]
LoanPayload ==
    [amount : Optional(Nat \ {0}), term_months : Optional(1..240),
     transaction_type : Optional(Options.transaction_type),
     down_payment_pct : Optional(Percent), soft_cost_pct : Optional(Percent),
     corp_only : BOOLEAN]
BusinessCreditPayload ==
    [paynet_score : Optional(300..900), trade_lines_count : Optional(Count),
     trade_history_years : Optional(Years), largest_comparable_credit : Optional(Money),
     comparable_contracts_count : Optional(Count),
     clean_payment_history_months : Optional(0..1200)]
GuarantorPayload ==
    [full_name : Optional(STRING), ownership_pct : Optional(Percent),
     fico_score : Optional(300..850), is_homeowner : Optional(BOOLEAN),
     years_at_residence : Optional(Years), is_us_citizen : Optional(BOOLEAN),
     industry_experience_years : Optional(Years), has_cdl : Optional(BOOLEAN),
     cdl_years : Optional(Years), is_licensed_medical_professional : Optional(BOOLEAN),
     years_licensed : Optional(Years), revolving_credit_limit : Optional(Money),
     revolving_balance : Optional(Money), unsecured_debt : Optional(Money),
     has_bankruptcy : BOOLEAN, bankruptcy_discharge_date : Optional(Int),
     has_judgments : BOOLEAN, has_foreclosures : BOOLEAN, has_repossessions : BOOLEAN,
     has_tax_liens : BOOLEAN, has_recent_collections : BOOLEAN]
EquipmentPayload ==
    [category : Optional(Options.equipment_category), model_year : Optional(1950..2100),
     condition : Optional(Options.equipment_condition), mileage : Optional(Nat),
     is_titled : Optional(BOOLEAN)]
ApplicationPayload ==
    [business : BusinessPayload, loan : LoanPayload,
     business_credit : BusinessCreditPayload,
     guarantors : {s \in Seq(GuarantorPayload) : Len(s) <= 10},
     equipment : {s \in Seq(EquipmentPayload) : Len(s) <= 20}]

-----------------------------------------------------------------------------
(* completeness.missing_fields *)

MedicalIndustries == {"medical", "dental", "veterinary"}
CorpOnly(payload) == payload.loan.corp_only = TRUE

RequiredBusiness(payload) ==
    {"legal_name", "state", "industry", "years_in_business",
     "has_physical_location", "is_us_based"}
        \cup (IF payload.business.industry = "trucking"
              THEN {"trucks_operated"} ELSE {})
        \cup (IF CorpOnly(payload) THEN {"annual_revenue"} ELSE {})
RequiredLoan == {"amount", "term_months", "transaction_type"}
RequiredCredit == {"largest_comparable_credit", "comparable_contracts_count"}
\* Mutant: the score is optional.
RequiredGuarantorWithoutScore(payload) ==
    {"full_name", "ownership_pct", "is_homeowner", "is_us_citizen",
     "revolving_credit_limit", "revolving_balance"}
RequiredGuarantor(payload) ==
    {"full_name", "ownership_pct", "fico_score", "is_homeowner",
     "is_us_citizen", "revolving_credit_limit", "revolving_balance"}
        \cup (IF payload.business.industry \in MedicalIndustries
              THEN {"is_licensed_medical_professional"} ELSE {})
RequiredEquipment == {"category", "model_year", "condition"}

\* The names are free text, which may be empty; the options of a list are not.
FreeText == {"legal_name", "full_name"}
Unanswered(data, k) == data[k] = None \/ (k \in FreeText /\ data[k] = "")

\* The gaps of one part of the payload, at a path.
Missing(data, path, required) ==
    {<<path, k>> : k \in {k \in required : Unanswered(data, k)}}
MissingOfEach(items, path, required) ==
    IF items = <<>> THEN {<<path, "at least one">>}
    ELSE UNION {Missing(items[i], path, required) : i \in DOMAIN items}

MissingFields(payload) ==
    Missing(payload.business, "business", RequiredBusiness(payload))
        \cup Missing(payload.loan, "loan", RequiredLoan)
        \cup Missing(payload.business_credit, "business_credit", RequiredCredit)
        \cup (IF CorpOnly(payload) THEN {}
              ELSE MissingOfEach(payload.guarantors, "guarantors",
                                 RequiredGuarantor(payload)))
        \cup MissingOfEach(payload.equipment, "equipment", RequiredEquipment)

-----------------------------------------------------------------------------
(* adapters.application_input_from_payload and features.derive_features *)

\* {**g, **f}: the entries of g, overridden and completed by those of f.
Merged(f, g) ==
    [k \in DOMAIN f \cup DOMAIN g |-> IF k \in DOMAIN f THEN f[k] ELSE g[k]]

ApplicationInput(payload) ==
    Merged([business_state |-> payload.business.state,
            loan_amount |-> payload.loan.amount,
            corp_only |-> CorpOnly(payload),
            guarantors |-> IF CorpOnly(payload) THEN <<>> ELSE payload.guarantors,
            equipment |-> payload.equipment],
           Merged(payload.business, Merged(payload.business_credit, payload.loan)))

\* The answers given to a question by a list of guarantors or items.
Given(list, key) == {x[key] : x \in {x \in ToSet(list) : x[key] # None}}
Least(S) == IF S = {} THEN None ELSE Min(S)
Greatest(S) == IF S = {} THEN None ELSE Max(S)
AllTrue(S) == IF S = {} THEN None ELSE FALSE \notin S
Total(list, key) ==
    IF Given(list, key) = {} THEN None
    ELSE MapThenSumSet(LAMBDA i : list[i][key],
                       {i \in DOMAIN list : list[i][key] # None})
OrZero(n) == IF n = None THEN 0 ELSE n

\* Owners below the threshold do not have to guarantee, unless all are.
GuarantorThreshold == 10
\* Mutant: an owner of exactly the threshold does not have to.
MustGuaranteeAbove(g) == g.ownership_pct = None \/ g.ownership_pct > GuarantorThreshold
MustGuarantee(g) == g.ownership_pct = None \/ g.ownership_pct >= GuarantorThreshold
Guaranteeing(guarantors) ==
    LET obliged == {i \in DOMAIN guarantors : MustGuarantee(guarantors[i])}
    IN  IF obliged # {} THEN Restrict(guarantors, obliged) ELSE guarantors

AgeOf(year) == IF year = None THEN None ELSE Max({0, ThisYear - year})
RevolvingAvailable(gs) ==
    LET limit == OrZero(Total(gs, "revolving_credit_limit"))
    IN  IF limit <= 0 THEN None
        ELSE ((limit - OrZero(Total(gs, "revolving_balance"))) * 100) \div limit
RevolvingPlusUnsecured(gs) ==
    IF Given(gs, "revolving_balance") \cup Given(gs, "unsecured_debt") = {} THEN None
    ELSE OrZero(Total(gs, "revolving_balance")) + OrZero(Total(gs, "unsecured_debt"))
\* The years since the latest discharge; an undischarged bankruptcy counts as 0.
SinceDischarge(gs) ==
    LET dates == {g.bankruptcy_discharge_date :
                     g \in {g \in ToSet(gs) : g.has_bankruptcy}}
    IN  IF dates = {} THEN None
        ELSE IF None \in dates THEN 0 ELSE ThisYear - Max(dates)
ComparablePct(app) ==
    IF app.largest_comparable_credit = None \/ OrZero(app.loan_amount) = 0 THEN None
    ELSE (app.largest_comparable_credit * 100) \div app.loan_amount
EquipmentItem(e) == [category |-> e.category, age_years |-> AgeOf(e.model_year),
                     mileage |-> e.mileage, condition |-> e.condition,
                     is_titled |-> e.is_titled]

\* Mutant: a field of the catalog is forgotten.
CopiedWithoutTerm == {"business_state", "industry", "entity_type",
                      "years_in_business", "annual_revenue", "has_physical_location",
                      "is_us_based", "trucks_operated", "corp_only", "paynet_score",
                      "trade_lines_count", "trade_history_years",
                      "largest_comparable_credit", "comparable_contracts_count",
                      "clean_payment_history_months", "loan_amount",
                      "transaction_type", "down_payment_pct", "soft_cost_pct"}
\* What is copied as it is, and what the guarantors' answers collapse to.
Copied == {"business_state", "industry", "entity_type", "years_in_business",
           "annual_revenue", "has_physical_location", "is_us_based",
           "trucks_operated", "corp_only", "paynet_score", "trade_lines_count",
           "trade_history_years", "largest_comparable_credit",
           "comparable_contracts_count", "clean_payment_history_months",
           "loan_amount", "term_months", "transaction_type", "down_payment_pct",
           "soft_cost_pct"}
LeastOfGuarantors == {"fico_score", "years_at_residence"}
GreatestOfGuarantors == {"industry_experience_years", "cdl_years", "years_licensed"}
AllOfGuarantors == {"is_homeowner", "is_us_citizen"}
AnyOfGuarantors == {"has_bankruptcy", "has_judgments", "has_foreclosures",
                    "has_repossessions", "has_tax_liens", "has_recent_collections"}
AnyOfSomeGuarantors == {"has_cdl", "is_licensed_medical_professional"}
OfGuarantors == LeastOfGuarantors \cup GreatestOfGuarantors \cup AllOfGuarantors
                    \cup AnyOfGuarantors \cup AnyOfSomeGuarantors
Collapsed(gs, f) ==
    CASE f \in LeastOfGuarantors -> Least(Given(gs, f))
      [] f \in GreatestOfGuarantors -> Greatest(Given(gs, f))
      [] f \in AllOfGuarantors -> AllTrue(Given(gs, f))
      [] f \in AnyOfGuarantors -> TRUE \in Given(gs, f)
      [] f \in AnyOfSomeGuarantors ->
           IF DOMAIN gs = {} THEN None ELSE TRUE \in Given(gs, f)

\* What is worked out of several entries.
Computed(app) ==
    LET gs == Guaranteeing(app.guarantors)
        items == app.equipment
        First(key) == IF items = <<>> THEN None ELSE items[1][key]
    IN  [is_startup |-> IF app.years_in_business = None THEN None
                        ELSE app.years_in_business < 2,
         is_trucking |-> IF app.industry = None THEN None
                         ELSE app.industry = "trucking",
         is_medical |-> IF app.industry = None THEN None
                        ELSE app.industry \in MedicalIndustries,
         revolving_available_pct |-> RevolvingAvailable(gs),
         revolving_balance |-> Total(gs, "revolving_balance"),
         revolving_plus_unsecured_debt |-> RevolvingPlusUnsecured(gs),
         years_since_bankruptcy_discharge |-> SinceDischarge(gs),
         has_paynet |-> app.paynet_score # None,
         comparable_credit_pct |-> ComparablePct(app),
         equipment_category |-> First("category"),
         equipment_age_years |-> AgeOf(Least(Given(items, "model_year"))),
         equipment_mileage |-> Greatest(Given(items, "mileage")),
         equipment_condition |-> First("condition"),
         equipment_is_titled |-> AllTrue(Given(items, "is_titled")),
         _equipment_list |-> [i \in DOMAIN items |-> EquipmentItem(items[i])]]

DeriveFeatures(app) ==
    Merged([f \in Copied |-> app[f]],
           Merged([f \in OfGuarantors |-> Collapsed(Guaranteeing(app.guarantors), f)],
                  Computed(app)))
=============================================================================

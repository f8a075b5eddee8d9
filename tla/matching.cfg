SPECIFICATION Spec
CONSTANTS
    None = None
    ThisYear = 2026
    Lenders <- MCLenders
    Policies <- MCPolicies
    Payloads <- MCPayloads
INVARIANTS
    TypeOK
    DecisionIsJustified
    DeclineIsExplained
    ScoreIsBounded
    WeakestGuarantorDecides
    EveryItemIsTested
    CompleteIsKnown
    EquipmentOrderIsIrrelevant
    RanksFollowPrecedence
CHECK_DEADLOCK FALSE

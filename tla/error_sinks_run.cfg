SPECIFICATION Spec
CONSTANTS
    None = None
    ThisYear = 2026
    Lenders <- MCLenders
    Policies <- MCPolicies
    Payloads <- MCPayloads
INVARIANT OneLenderDoesNotSinkTheRun
CHECK_DEADLOCK FALSE

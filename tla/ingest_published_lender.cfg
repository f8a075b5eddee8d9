SPECIFICATION Spec
CONSTANTS
    None = None
    l1 = l1
    v1 = v1
    Jobs = {j1}
    Lenders = {l1, l2, l3}
    Versions = {v1, v2, v3, v4}
    Sessions = {s1}
    Workers = {w1}
    Documents = {"good"}
    Extracted <- FirstTier
    Names = {"acme"}
    UseHatchet = FALSE
    Attempts = 2
    Existing <- MCExisting
    Policies <- FirstTierPolicies
    Reviews = {}
    Faults = {}
    MaxFaults = 1
    MaxRetries = 0
    MaxDeleted = 2
INVARIANT AttachesRatherThanFails
CHECK_DEADLOCK FALSE

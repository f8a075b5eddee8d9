SPECIFICATION FairSpec
CONSTANTS
    None = None
    l1 = l1
    v1 = v1
    Jobs = {j1}
    Lenders = {l1, l2, l3}
    Versions = {v1, v2, v3, v4}
    Sessions = {s1, s2}
    Workers = {w1, w2}
    Documents = {"good"}
    Extracted <- FirstTier
    Names = {"bolt"}
    UseHatchet = TRUE
    Attempts = 2
    Existing <- MCExisting
    Policies <- FirstTierPolicies
    Reviews = {}
    Faults = {"prepare"}
    MaxFaults = 1
    MaxRetries = 2
    MaxDeleted = 2
PROPERTY EveryJobSettles
CHECK_DEADLOCK FALSE

SPECIFICATION FairSpec
CONSTANTS
    None = None
    l1 = l1
    v1 = v1
    Jobs = {j1}
    Lenders = {l1, l2, l3}
    Versions = {v1, v2, v3, v4}
    Sessions = {s1, s2}
    Workers = {w1, w2}
    Documents = {"good", "flawed"}
    Extracted <- MCExtracted
    Names = {"bolt"}
    UseHatchet = TRUE
    Attempts = 2
    Existing <- MCExisting
    Policies <- MCPolicies
    Reviews = {"publish", "discard", "delete"}
    Faults = {"error", "lost", "draft", "unreachable", "ambiguous"}
    MaxFaults = 1
    MaxRetries = 2
    MaxDeleted = 2
INVARIANTS
    TypeOK
    
    DraftIsPublishable
    DraftIsFound
    OneOfEach
PROPERTIES
    IngestionOnlyAddsDrafts
    EveryJobSettles
CHECK_DEADLOCK FALSE

SPECIFICATION Spec
CONSTANTS
    Lenders = {l1}
    Versions = {v1, v2, v3, v4}
    Contents = {none, c1, c2}
    Empty = none
    Sessions = {s1}
    Evaluators = {e1, e2}
    Ops = {"draft", "publish", "edit", "discard", "delete"}
    NoLender = NoLender
    NoVersion = NoVersion
SYMMETRY Symmetry
INVARIANTS
    HistoryIsKept
    PublishedIsNewest
PROPERTIES
    ImplementsPolicyVersions
CHECK_DEADLOCK FALSE

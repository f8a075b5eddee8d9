SPECIFICATION Spec
CONSTANTS
    Lenders = {l1}
    Versions = {v1, v2, v3}
    Contents = {none, c1, c2}
    Empty = none
    Sessions = {s1, s2}
    Evaluators = {e1}
    Ops = {"draft", "publish", "edit", "discard", "delete"}
    NoLender = NoLender
    NoVersion = NoVersion
SYMMETRY Symmetry
INVARIANTS
    TypeOK
    OneOfEach
    ResultsPointAtPublished
PROPERTIES
    KeepsPublished
CHECK_DEADLOCK FALSE

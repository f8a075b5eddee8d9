SPECIFICATION Spec
CONSTANTS
    Apps = {a1, a2}
    Runs = {r1, r2}
    Sessions = {s1}
    Workers = {w1, w2}
    Batches = {b1, b2, b3, b4}
    NoApp = NoApp
    NoRun = NoRun
    NoWorker = NoWorker
    UseHatchet = TRUE
    Retries = 1
    Faults = {"error", "unreachable", "unrecorded", "unanswered", "crash"}
    MaxFaults = 2
INVARIANTS
    ModeTellsDriver
PROPERTIES
    RunsFollowLifecycle
    ResultsAreFinal
CHECK_DEADLOCK FALSE

SPECIFICATION FairSpec
CONSTANTS
    Apps = {a1}
    Runs = {r1, r2}
    Sessions = {s1}
    Workers = {w1, w2}
    Batches = {b1, b2, b3, b4}
    NoApp = NoApp
    NoRun = NoRun
    NoWorker = NoWorker
    UseHatchet = TRUE
    Retries = 1
    Faults = {"error", "lost", "unreachable"}
    MaxFaults = 3
INVARIANTS
    UnderwritingIsDriven
    ResultsAreOneBatch
PROPERTIES
    EveryRunSettles
CHECK_DEADLOCK FALSE

SPECIFICATION Spec
CONSTANTS
    Apps = {a1}
    Runs = {r1}
    Sessions = {s1}
    Workers = {w1}
    Batches = {b1, b2, b3, b4}
    NoApp = NoApp
    NoRun = NoRun
    NoWorker = NoWorker
    UseHatchet = FALSE
    Retries = 1
    Faults = {"crash"}
    MaxFaults = 1
INVARIANT UnderwritingIsDriven
CHECK_DEADLOCK FALSE

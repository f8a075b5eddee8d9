SPECIFICATION Spec
CONSTANTS
    Apps = {a1}
    Runs = {r1, r2}
    Sessions = {s1, s2}
    Workers = {w1, w2}
    Batches = {b1, b2, b3, b4}
    NoApp = NoApp
    NoRun = NoRun
    NoWorker = NoWorker
    UseHatchet = TRUE
    Retries = 1
    Faults = {"error", "lost", "overrun", "unreachable", "ambiguous",
              "unrecorded", "unanswered", "crash"}
    MaxFaults = 2
SYMMETRY Symmetry
INVARIANTS
    TypeOK
    OneActiveRun
    UnderwritingHasActiveRun
    CompletedRunHasResults
    CompletedAppHasResults
    RunMeansLeftDraft
    StaleSessionIsSettled
CHECK_DEADLOCK FALSE

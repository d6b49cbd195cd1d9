\* Two hook processes at the same time, none of which fails: what "Atomically
\* save state to a file path via tmp+rename" comes to.
SPECIFICATION Spec
CONSTANTS
    Calls = {c1, c2}
    Commands = {cargo}
    RuleBlocked = {}
    Excluded = {}
    Horizon = 1
    Enabled = TRUE
    Window = 1
    Cleanup = 1
    Threshold = 2
    MaxTracked = 1
    Runners = {"legacy"}
    Overlap = TRUE
    Faults = FALSE
SYMMETRY CallSymmetry
INVARIANTS
    FileNeverTorn

\* Hook processes one at a time, dying and failing at every step.
SPECIFICATION Spec
CONSTANTS
    Calls = {c1, c2, c3}
    Commands = {cargo, git, grep}
    RuleBlocked = {grep}
    Excluded = {}
    Horizon = 2
    Enabled = TRUE
    Window = 1
    Cleanup = 1
    Threshold = 2
    MaxTracked = 3
    Runners = {"legacy", "chain"}
    Overlap = FALSE
    Faults = TRUE
SYMMETRY CallSymmetry
INVARIANTS
    FileNeverTorn
PROPERTIES
    RepeatedFailureDenied
    ImplementsMemory

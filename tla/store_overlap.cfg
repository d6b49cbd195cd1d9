\* Hook processes of parallel tool calls, dying and failing at every step.
SPECIFICATION Spec
CONSTANTS
    Calls = {c1, c2, c3}
    Commands = {cargo, git}
    RuleBlocked = {}
    Excluded = {}
    Horizon = 3
    Enabled = TRUE
    Window = 2
    Cleanup = 1
    Threshold = 2
    MaxTracked = 1
    Runners = {"legacy"}
    Overlap = TRUE
    Faults = TRUE
SYMMETRY CallSymmetry
INVARIANTS
    DenialJustified
    StoredStateBounded

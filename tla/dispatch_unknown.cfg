\* What an on-success rule makes of an exit nobody reported.
SPECIFICATION Spec
CONSTANTS
    find = find
    fd = fd
    rg = rg
    Commands <- MCCommands
    Rules <- MCRules
    MaxHooks = 1
    ChainRewrites <- MCChainRewrites
    Blockable <- MCBlockable
    None = None
    Faults = FALSE
INVARIANTS
    UnknownExitIsNoSuccess

\* One Bash call through cmd_hook and through run_hook, under every list of at
\* most three of the rules.
SPECIFICATION Spec
CONSTANTS
    find = find
    fd = fd
    rg = rg
    Commands <- MCCommands
    Rules <- MCRules
    MaxHooks = 3
    ChainRewrites <- MCChainRewrites
    Blockable <- MCBlockable
    None = None
    Faults = TRUE
INVARIANTS
    DenialStands
    PolicyJudgesWhatRuns
    RunsAsRewritten
    RedactionSurvives
    UnknownExitKeepsOutput
    MessagesArrive

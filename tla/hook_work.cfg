SPECIFICATION Spec
CONSTANTS
    Capacity = 1
    MaxText = 4
    MaxCharacters = 5
    MaxRuleText = 4
    MaxExpanded = 4
    MaxTemplate = 3
    MaxArguments = 3
    MaxLines = 4
    MaxRules = 2
    MaxCalls = 2
    MaxSessions = 2
    MaxSource = 5
    MaxFilters = 3
    MaxDays = 800
    MaxFindings = 3
    MaxLonger = 2
    MaxOdd = 2
INVARIANTS
    CommandsTakenApart
    DenialsHoldInChains
    RewritesKeepCommands
    SwapsShowOnlyWhatIsAsked
    FailuresStayVisible
    LayersHold
    TranscriptsAddUp
    PrintedReportsHold
    EntryPointsAgree
    InstalledHooksArrive
    ToolsAddOnly
    OutputReadWhole
PROPERTIES
    HookReturns

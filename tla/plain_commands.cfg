SPECIFICATION Spec
CONSTANTS
    Capacity = 1
    MaxText = 4
    MaxCharacters = 5
    MaxRuleText = 4
    MaxExpanded = 4
    MaxTemplate = 0
    MaxArguments = 3
    MaxLines = 4
    MaxRules = 2
    MaxCalls = 2
    MaxSessions = 1
    MaxSource = 1
    MaxFilters = 1
    MaxDays = 800
    MaxFindings = 0
    MaxLonger = 0
    MaxOdd = 2
INVARIANTS
    PlainCommandsPassThrough

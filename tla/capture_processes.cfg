\* Overlapping hook processes on one suggestion file, up to two of them cut off.
SPECIFICATION Spec
CONSTANTS
    grep = grep
    egrep = egrep
    cat = cat
    rg = rg
    bat = bat
    Calls = {c1, c2, c3}
    Originals = {grep, egrep}
    Suggestions = {rg}
    Advice <- MCAdvice
    Sessions = {s1, s2}
    NoSession = NoSession
    Malformed = Malformed
    Undecodable = Undecodable
    MaxFaults = 2
INVARIANTS
    OneRecordPerSuggestion
    CountsBlocks
PROPERTIES
    ImplementsDataset
    HooksEnd

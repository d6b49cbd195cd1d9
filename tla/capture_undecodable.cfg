\* A process cut off inside a character: what "Silently skips malformed lines"
\* comes to.
SPECIFICATION Spec
CONSTANTS
    grep = grep
    egrep = egrep
    cat = cat
    rg = rg
    bat = bat
    Calls = {c1, c2}
    Originals = {grep, egrep}
    Suggestions = {rg}
    Advice <- MCAdvice
    Sessions = {s1, s2}
    NoSession = NoSession
    Malformed = Malformed
    Undecodable = Undecodable
    MaxFaults = 1
INVARIANTS
    MalformedLinesSkipped

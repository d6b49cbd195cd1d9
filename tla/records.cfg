SPECIFICATION Spec
CONSTANTS
    Processes = {p1, p2, p3}
    Rules = {r1, r2}
    NoOne = NoOne
    MaxTime = 5
    Word = 16
SYMMETRY Sym
INVARIANTS
    CountsJustified
    DenialsOnRecord
    ReportsShowNewest
PROPERTIES
    EntriesStay

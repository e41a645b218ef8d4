SPECIFICATION Spec
CONSTANTS
    Workers = {w1, w2}
    Readers = {}
    Products = {p1}
    Suffixes = {summary, history}
    Nobody = Nobody
    MaxTime = 2
    MaxQuote = 1
    MaxFaults = 0
    MaxDeploys = 0
    Serial = FALSE
INVARIANTS
    PointerComplete

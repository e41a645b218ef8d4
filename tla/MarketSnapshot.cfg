SPECIFICATION Spec
CONSTANTS
    Workers = {w1, w2}
    Readers = {r1}
    Products = {p1, p2}
    Suffixes = {summary, history}
    Nobody = Nobody
    MaxTime = 2
    MaxQuote = 2
    MaxFaults = 1
    MaxDeploys = 1
    Serial = TRUE
SYMMETRY WorkerSymmetry
INVARIANTS
    TypeOK
    PointerComplete
    SignalMatchesMetric
    AnswersAreFresh
    CleanupIsThorough

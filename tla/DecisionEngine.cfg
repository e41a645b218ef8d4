SPECIFICATION Spec
CONSTANTS
    Premiums = {600, 601, 1601}
    Percentiles = {0, 10, 80, 83, 89}
    SampleSizes = {0, 1, 30}
    Spreads <- ChosenSpreads
    Momenta <- ChosenMomenta
    Others = 2
    None = None
INVARIANTS
    ScoreInBand
    LiveSignalAgrees
    VerdictFitsSignals
PROPERTIES
    WorseTermsNeverUpgrade
    WorseTermsNeverScoreMore

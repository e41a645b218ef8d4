SPECIFICATION FairSpec
CONSTANTS
    Workers = {w1, w2}
    Readers = {}
    Products = {p1, p2}
    Suffixes = {summary}
    Nobody = Nobody
    MaxTime = 2
    MaxQuote = 1
    MaxFaults = 1
    MaxDeploys = 0
    Serial = FALSE
PROPERTIES
    PublishesLatest

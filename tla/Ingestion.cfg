SPECIFICATION Spec
CONSTANTS
    Runs = {r1, r2}
    Products = {doji}
    OfficialProduct = doji
    WorldSources = {kitco, metals}
    Aggregators = {money}
    Official = official
    FxSource = exchange
    MacroSource = yahoo
    NoQuote = NoQuote
    Prices = {100, 104, 108}
    MaxAge <- Ages
    MaxJump <- Jumps
    MaxTime = 1
    MaxSkew = 1
    MaxQuotes = 2
    MaxRows = 2
    Serial = TRUE
SYMMETRY Symmetries
INVARIANTS
    TypeOK
    NoOutlier
PROPERTIES
    LatestNeverRegresses
    LatestMovesSmoothly

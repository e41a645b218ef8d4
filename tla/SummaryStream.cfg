SPECIFICATION FairSpec
CONSTANTS
    StreamReads = {s1, s2}
    RefreshReads = {r1}
    MaxVersion = 2
    MaxSent = 1
    None = None
INVARIANTS
    TypeOK
    BelievedIsShown
    OneTimer
PROPERTIES
    EndsUpCurrent
CHECK_DEADLOCK FALSE

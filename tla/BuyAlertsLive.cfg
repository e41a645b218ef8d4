SPECIFICATION FairSpec
CONSTANTS
    Subscribers = {s1, s2}
    TestRecipients = {s1}
    Slots = {r1, r2}
    NoOne = NoOne
    NoRun = NoRun
    Orphan = Orphan
    MaxTime = 0
    LastDay = 1
    DayOf <- DailyCalendar
    DayMs = 1
    MinGapMs = 1
    FreshMs = 0
    MaxPremium = 1
    SmtpConfigured = TRUE
    MaxFaults = 1
    Prompt = FALSE
PROPERTIES
    ReleaseSparesOthers
    PendingIsDelivered
    LockComesFree

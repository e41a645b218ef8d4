SPECIFICATION Spec
CONSTANTS
    Subscribers = {s1}
    TestRecipients = {s1}
    Slots = {r1, r2}
    NoOne = NoOne
    NoRun = NoRun
    Orphan = Orphan
    MaxTime = 0
    LastDay = 1
    DayOf <- DailyCalendar
    DayMs = 1
    MinGapMs = 1
    FreshMs = 0
    MaxPremium = 2
    SmtpConfigured = TRUE
    MaxFaults = 0
    Prompt = FALSE
INVARIANT
    NoDuplicateMail

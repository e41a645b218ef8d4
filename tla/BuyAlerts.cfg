SPECIFICATION Spec
CONSTANTS
    Subscribers = {s1}
    TestRecipients = {s1}
    Slots = {r1, r2}
    NoOne = NoOne
    NoRun = NoRun
    Orphan = Orphan
    MaxTime = 1
    LastDay = 2
    DayOf <- DailyCalendar
    DayMs = 1
    MinGapMs = 1
    FreshMs = 0
    MaxPremium = 2
    SmtpConfigured = TRUE
    MaxFaults = 1
    Prompt = TRUE
SYMMETRY SlotSymmetry
INVARIANTS
    TypeOK
    OneSender
    NoDuplicateMail
    RecordedWasMailed
    CountWithinMails
PROPERTY
    ImplementsOutbox

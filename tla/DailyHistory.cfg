SPECIFICATION Spec
CONSTANTS
    DayTicks = 2
    NoonTick = 0
    Window = 2
    MaxTime = 6
    None = None
    PlanWindow = 2
    QueryRows = 3
    MinDays = 2
    Year = 3
    MomentumDays = 2
    Course <- SmallCourse
    Backfilled <- SmallBackfilled
    Hypothetical <- SmallHypothetical
    MaxRows = 3
    MaxBackfills = 1
INVARIANTS
    TypeOK
    SampleNeverOverstates
    HistoriesAgree
    RanksAgree
    ChartIsDaily
    PlanIsMonotone
    PlanSeesItsWindow
PROPERTIES
    RanksTheCompletedDays
    MomentumSpansTarget
CHECK_DEADLOCK FALSE

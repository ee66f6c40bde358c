\* Two tasks, two platforms, the last hour of a day and the first of the next.
CONSTANTS
    a = a
    b = b
    All = all
    Shapes <- SmallShapes
    PageCap = 2
    TopCap = 1
    HoursPerDay = 2
    WindowDays = 2
    DaysPerYear = 365
    MaxRows = 2
    FirstTime = 5
    LastTime = 6
SPECIFICATION Spec
INVARIANTS
    OverviewMatchesContract
    PlatformSharesClose
    HoursMatchOverview
    DaysMatchWindow
    BacklogShowsOpenTasks
CHECK_DEADLOCK FALSE

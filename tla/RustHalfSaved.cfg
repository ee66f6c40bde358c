\* A push half applied before any other save of its task.
CONSTANTS
    Tasks = {t1}
    Subs = {s1, s2}
    CallbackTasks = {t1}
    FinalFailures = {}
    BatchLimit = 1
    Handlers = {h1}
    Loop = loop
    None = none
SPECIFICATION PushingSpec
PROPERTY FinishedTasksConverge
CHECK_DEADLOCK FALSE

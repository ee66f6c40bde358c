\* Two tasks, a batch of one, subtasks that may end in error.
CONSTANTS
    Tasks = {t1, t2}
    Subs = {s1}
    CallbackTasks = {}
    FinalFailures = {"error"}
    BatchLimit = 1
    Handlers = {h1}
    Loop = loop
    None = none
SPECIFICATION PollingSpec
PROPERTY FinishedTasksConverge
CHECK_DEADLOCK FALSE

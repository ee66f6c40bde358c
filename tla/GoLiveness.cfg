\* One task, two subtasks, fair loop, no callback URL: polling alone must do.
CONSTANTS
    Tasks = {t1}
    Subs = {s1, s2}
    CallbackTasks = {}
    FinalFailures = {"failed"}
    BatchLimit = 1
    Handlers = {h1}
    Loop = loop
    None = none
SPECIFICATION PollingOnlySpec
INVARIANTS
    GapRescanned
    IndInv
    SubmissionsKept
    CountersAgree
PROPERTIES
    RowsFollowService
    FinishedTasksConverge
    PartialAnswersArrive
CHECK_DEADLOCK FALSE

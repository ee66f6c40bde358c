\* One task with one subtask, two concurrent requests and the loop.
CONSTANTS
    Tasks = {t1}
    Subs = {s1}
    CallbackTasks = {t1}
    FinalFailures = {"failed"}
    BatchLimit = 1
    Handlers = {h1, h2}
    Loop = loop
    Deployments <- MCDeployments
    None = none
SYMMETRY Symmetry
SPECIFICATION Spec
INVARIANTS
    BackendInv
    SubmissionsKept
    CountersMatch
    GapRescanned
    ProcessedMeansStored
PROPERTIES
    RowsFollowService
    AnswersSurvive
    AckedPushesRecorded
CHECK_DEADLOCK FALSE

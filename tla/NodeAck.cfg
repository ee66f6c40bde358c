\* A callback whose save fails after its event row is committed.
CONSTANTS
    Tasks = {t1}
    Subs = {s1}
    CallbackTasks = {t1}
    FinalFailures = {"failed"}
    BatchLimit = 1
    Handlers = {h1}
    Loop = loop
    None = none
SPECIFICATION Spec
PROPERTY AckedAnswersStored
CHECK_DEADLOCK FALSE

\* One subtask, two concurrent requests and the loop.
CONSTANTS
    Tasks = {t1}
    Subs = {s1}
    CallbackTasks = {t1}
    FinalFailures = {}
    BatchLimit = 1
    Handlers = {h1, h2}
    Loop = loop
    None = none
SYMMETRY Symmetry
SPECIFICATION Spec
INVARIANTS
    RustInv
    SubmissionsKept
PROPERTY AckedAreRecorded
CHECK_DEADLOCK FALSE

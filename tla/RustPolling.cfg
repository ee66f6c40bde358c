\* Two subtasks, saves of three statements, polling and manual syncs.
CONSTANTS
    Tasks = {t1}
    Subs = {s1, s2}
    CallbackTasks = {}
    FinalFailures = {"failed"}
    BatchLimit = 1
    Handlers = {h1}
    Loop = loop
    None = none
SYMMETRY Symmetry
SPECIFICATION Spec
INVARIANT AcceptedGapRescanned
CHECK_DEADLOCK FALSE

\* A stopped task whose result fetch fails once.
CONSTANTS
    Tasks = {t1}
    Subs = {s1, s2}
    CallbackTasks = {}
    FinalFailures = {"failed"}
    BatchLimit = 1
    Handlers = {h1}
    Loop = loop
    None = none
SPECIFICATION FairSpec
PROPERTY StoppedAnswersArrive
CHECK_DEADLOCK FALSE

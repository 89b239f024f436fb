CONSTANTS
    c = c
    r = r
    p = p
    Client = {c, r, p}
    Restarter = c
    Recorder = r
    MaxBeat = 2
    MaxLead = 1
    Talkers = {}
    MaxEvents = 1
    Prompt = FALSE
    NoReport = NoReport
SPECIFICATION Spec
INVARIANTS
    CutsFit
CHECK_DEADLOCK FALSE

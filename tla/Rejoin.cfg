CONSTANTS
    c = c
    r = r
    p = p
    Client = {c, r, p}
    Restarter = c
    Recorder = r
    MaxBeat = 2
    MaxLead = 1
    Talkers = {p}
    MaxEvents = 2
    Prompt = TRUE
    NoReport = NoReport
SPECIFICATION Spec
INVARIANTS
    TypeOK
    RunsAgree
    BeatsTakenOnce
    CutsFit
    NobodyIsStuck
CHECK_DEADLOCK FALSE

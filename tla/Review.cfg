CONSTANTS
    Concepts = {1, 2}
    Texts = {1, 2}
    Auditors = {aud, codex}
    Codex = codex
    Curators = {cur}
    Humans = {hum}
    Runs = {r1, r2}
    NoRun = NoRun
    Epoch = 1
    Delay = 1
    DayLength = 2
    PerDay = 1
    LastTime = 2
    MaxJobs = 2
    MaxEvents = 2
ACTION_CONSTRAINT OneIsQuiet
SYMMETRY Symmetry
SPECIFICATION Spec
INVARIANTS
    TypeOK
PROPERTIES
    VerdictsStand
    ComesDue
    RevertOnlyItsOwn
CHECK_DEADLOCK FALSE

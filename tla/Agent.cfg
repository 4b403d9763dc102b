CONSTANTS
    Declared = {c1, c2}
    Closing = {log}
    Ignored = {junk}
    Lifecycle = {job1}
    Concepts = {c1, c2}
    Other = {o}
    Snapshot = snap
    Inbox = inbox
    Kinds = {"ingest", "audit"}
    MaxCrashes = 3
    MaxPushes = 3
    Items = {i1, i2}
    MaxRev = 3
    MaxCuts = 1
    MaxSent = 1
    MaxLoad = 3
    Titles = {t1, t2}
    Closes = {i3}
    Earlier = earlier
    None = none
    MaxTexts = 3
    MaxRequests = 2
    MaxMoves = 2
SPECIFICATION AllSpec
SYMMETRY Symmetry
INVARIANTS
    CurationContained
    RecoverySound
PROPERTIES
    AuditContained
    WorkspaceFaithful
    GateHolds
CHECK_DEADLOCK FALSE

CONSTANTS
    Files = {f1, f2}
    Requests = {r1, r2}
    NoSnapshot = NoSnapshot
    Nobody = Nobody
    Ticks = {2, 3}
    Racy = 1
    Second = 3
    CoarseTick = 2
    MaxClock = 4
    MaxWrites = 2
    Contents = {c1}
    NoContent = NoContent
    MaxJobs = 3
    MaxDeaths = 1
    MaxRetries = 1
    Titles = {t}
    MaxItems = 2
    Buckets = {1, 2}
    FailedWindow = 0
    Unresolved = 1
    Stuck = 0
    ReadyMax = 0
    MemberMax = 0
    CursorMax = 0
    PendingMax = 0
    TTL = 2
    MaxHour = 2
    MaxMoves = 2
    MaxFaults = 1
    Searches = {w, q1}
    Warmers = {w}
    Builders = {b1, b2}
    Content <- Pulled
    Patience = 1
    MaxIndexes = 3
    MaxStoreFaults = 1
SPECIFICATION AllSpec
SYMMETRY Symmetry
INVARIANTS
    ReadsSound
    IntakeSafe
    RecallWhole
PROPERTIES
    CardsTell
CHECK_DEADLOCK FALSE

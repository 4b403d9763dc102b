CONSTANTS
    Names = {n1, n2}
    NoItem = NoItem
    MaxChanges = 1
    MaxBytes = 2
    MaxCollections = 2
    MaxItems = 4
    MaxDepth = 1
    MaxCrashes = 1
    TopicMayStay = FALSE
    Skipped = {n1, n2}
    Runs = {"r", "s"}
    Auditors = {"s"}
    Nobody = "nobody"
    MaxClock = 2
    MaxReopens = 1
    MaxRestarts = 1
    Contents = {"A", "B"}
    Declared = {0, 2}
    DefaultDays = 1
    Cap = 1
    LastDay = 2
    MaxMoves = 2
    MaxFaults = 1
    Sessions = {n1, n2}
    Updaters = {u1}
    NoRun = NoRun
    TTL = 2
    MaxHour = 2
    MaxMain = 2
    Batch = 2
    MaxTaken = 2
    LastText = 3
    MaxWrites = 1
    Stamped = {c1}
    Texts = {"A", "B"}
    Proofs = {e1, e2}
    Curator = "curator"
    Auditor = "auditor"
    Writer = "writer"
    Person = "person"
    Skew = 1
    Delay = 2
    MaxTime = 4
    MaxPasses = 3
    MaxPushes = 1
SPECIFICATION AllSpec
SYMMETRY Symmetry
INVARIANTS
    EvidenceSound
    UpdatesSpareRuns
    VerdictsAccounted
    TrustKept
PROPERTIES
    ClaimedIsFrozen
    ReviewsSettle
    NoticesRaised
CHECK_DEADLOCK FALSE

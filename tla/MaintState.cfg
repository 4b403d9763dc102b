CONSTANTS
    Items = {i1, i2}
    Members = {i1}
    Runs = {r1, r2}
    NoRun = NoRun
    LastBuild = 1
    MaxDeploys = 1
    MaxCounted = 1
    MaxStarted = 2
    MaxReopens = 1
SPECIFICATION CalmSpec
INVARIANTS
    TypeOK
    ClaimsMatchLease
    AttemptsBounded
PROPERTIES
    NoClaimStolen
    LiveLeaseKept
    ClosedStays
    EventuallySettled

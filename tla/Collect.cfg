CONSTANTS
    Collectors = {a, b}
    MaxIssues = 3
    Known = 2
    Excluded = {2}
    PageSize = 2
    Settle = 2
    Lag = 1
    LastChange = 2
    MaxChanges = 2
    MaxFaults = 1
    own = own
    main = main
    Repos = {r1, own}
    Own = {own}
    Branches = {main, dev}
    NoBranch = NoBranch
    Pinned <- PinOwn
    MaxCommits = 2
    MaxEvents = 2
    Identities = {s}
    MaxVersions = 2
    Cap = 1
    Slips = 2
    Stops = 1
    MaxBuilds = 2
    MaxEntries = 2
    MaxPosted = 3
    MaxOdd = 2
    MaxTrouble = 2
SYMMETRY Symmetry
SPECIFICATION AllSpec

    
PROPERTIES
    CursorsComplete
CHECK_DEADLOCK FALSE

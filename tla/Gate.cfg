CONSTANTS
    Readers = {v1, v2}
    Requests = {q1, q2}
    Worker = w
    Nobody = Nobody
    NoSnapshot = NoSnapshot
    MaxJobs = 1
    MaxChanges = 1
SPECIFICATION FairSpec
INVARIANTS
    TypeOK
    NoReadDuringMutation
    ReadsCurrent
    NothingOnDeleted
PROPERTIES
    WorkGoesOn

CONSTANTS
    Items = {i1}
    Members = {}
    Runs = {r1}
    NoRun = NoRun
    LastBuild = 2
    MaxDeploys = 3
    MaxCounted = 1
    MaxStarted = 1
    MaxReopens = 0
SPECIFICATION Spec
PROPERTY OneExtraAttemptPerBuild

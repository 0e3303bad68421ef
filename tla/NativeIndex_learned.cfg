CONSTANTS
    Paths <- PathsOf
    Root = "/"
    UnderRel <- UnderOf
    Sources = {1, 2}
    Metas = {"a", "b"}
    Entries <- Two
    Removed = {"d", "y"}
    Scopes = {{}}
    Spares = {{}}
    Threads = {worker}
    Worker = worker
    Client = client
    NoThread = none
    Absent = absent
    Ops <- OpsRestart
    FaultKinds = {}
    MaxStaged = 5
    PublishMaxStaged = 5
    UnwrittenMaxRows = 5
    MaxBuilding = 2
    MaxSegment = 4
    MaxGeneration = 1
    MaxFaults = 0
    MaxCrashes = 1
SPECIFICATION Spec
INVARIANTS NoGhost

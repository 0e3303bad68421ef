CONSTANTS
    Paths <- PathsOf
    Root = "/"
    UnderRel <- UnderOf
    Sources = {1}
    Metas = {"a", "b"}
    Entries <- XY
    Removed = {"d", "y"}
    Scopes = {{}}
    Spares = {{}}
    Threads = {worker}
    Worker = worker
    Client = client
    NoThread = none
    Absent = absent
    Ops <- OpsWorker
    FaultKinds = {"build"}
    MaxStaged = 1
    PublishMaxStaged = 5
    UnwrittenMaxRows = 5
    MaxBuilding = 2
    MaxSegment = 4
    MaxGeneration = 1
    MaxFaults = 1
    MaxCrashes = 0
SPECIFICATION Spec
INVARIANTS NoGhost

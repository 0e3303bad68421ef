CONSTANTS
    Paths <- PathsOf
    Root = "/"
    UnderRel <- UnderOf
    Sources = {1}
    Metas = {"a", "b"}
    Entries <- XY
    Removed = {"d"}
    Scopes = {{}}
    Spares = {{}}
    Threads = {worker}
    Worker = worker
    Client = client
    NoThread = none
    Absent = absent
    Ops <- OpsAll
    FaultKinds = {"meta", "alive", "write", "assemble"}
    MaxStaged = 2
    PublishMaxStaged = 1
    UnwrittenMaxRows = 5
    MaxBuilding = 2
    MaxSegment = 2
    MaxGeneration = 1
    MaxFaults = 2
    MaxCrashes = 1
SPECIFICATION Spec
INVARIANTS Reopenable QuietIsDurable NotLost

CONSTANTS
    Paths <- PathsOf
    Root = "/"
    UnderRel <- UnderOf
    Sources = {1}
    Metas = {"a", "b"}
    Entries <- XYb
    Removed = {"d"}
    Scopes = {{}}
    Spares = {{}}
    Threads = {worker}
    Worker = worker
    Client = client
    NoThread = none
    Absent = absent
    Ops <- OpsWorker
    FaultKinds = {}
    MaxStaged = 2
    PublishMaxStaged = 5
    UnwrittenMaxRows = 5
    MaxBuilding = 2
    MaxSegment = 3
    MaxGeneration = 1
    MaxFaults = 0
    MaxCrashes = 0
SPECIFICATION Spec
INVARIANTS OneRow

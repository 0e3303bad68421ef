CONSTANTS
    Paths <- PathsOf
    Root = "/"
    UnderRel <- UnderOf
    Sources = {1}
    Metas = {"a", "b"}
    Entries <- XY
    Removed = {"d"}
    Scopes = {{}}
    Spares = {{}}
    Threads = {worker, client}
    Worker = worker
    Client = client
    NoThread = none
    Absent = absent
    Ops <- OpsRules
    FaultKinds = {}
    MaxStaged = 5
    PublishMaxStaged = 5
    UnwrittenMaxRows = 5
    MaxBuilding = 2
    MaxSegment = 3
    MaxGeneration = 1
    MaxFaults = 0
    MaxCrashes = 0
SPECIFICATION Spec
INVARIANTS NoGhost

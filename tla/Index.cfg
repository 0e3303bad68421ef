CONSTANTS
    Paths <- PathsOf
    Root = "/"
    UnderRel <- UnderOf
    Sources = {1}
    Metas = {"a", "b"}
    Entries <- XY
    Removed = {"d"}
    Scopes = {{}, {"d"}}
    Spares = {{}, {"d"}}
    Threads = {worker, client}
    Worker = worker
    Client = client
    NoThread = none
    Absent = absent
    Ops <- OpsWalk
    FaultKinds = {}
    MaxStaged = 1
    PublishMaxStaged = 5
    UnwrittenMaxRows = 5
    MaxBuilding = 2
    MaxSegment = 3
    MaxGeneration = 3
    MaxFaults = 0
    MaxCrashes = 0
SPECIFICATION MCSpec
INVARIANTS OneRow NoGhost Kept WellTyped PersistDurable NoSharedNumber CoversRight PagesRight

CONSTANTS
    Paths <- PathsOf
    Root = "/"
    UnderRel <- UnderOf
    Sources = {1}
    Metas = {"a", "b"}
    Entries <- XYa
    Removed = {}
    Scopes = {{}}
    Spares = {{}}
    Threads = {worker, client}
    Worker = worker
    Client = client
    NoThread = none
    Absent = absent
    Ops <- OpsWalkFlush
    FaultKinds = {}
    MaxStaged = 5
    PublishMaxStaged = 5
    UnwrittenMaxRows = 5
    MaxBuilding = 2
    MaxSegment = 4
    MaxGeneration = 2
    MaxFaults = 0
    MaxCrashes = 0
SPECIFICATION Spec
INVARIANTS NotLost

CONSTANTS
    Paths <- PathsOf
    Root = "/"
    UnderRel <- UnderOf
    Sources = {1}
    Metas = {"a", "b"}
    Entries <- XYa
    Removed = {"d"}
    Scopes = {{}}
    Spares = {{}}
    Threads = {worker, client}
    Worker = worker
    Client = client
    NoThread = none
    Absent = absent
    Ops <- OpsEnds
    FaultKinds = {"build", "spawn"}
    MaxStaged = 2
    PublishMaxStaged = 5
    UnwrittenMaxRows = 5
    MaxBuilding = 1
    MaxSegment = 3
    MaxGeneration = 1
    MaxFaults = 1
    MaxCrashes = 0
SPECIFICATION FairSpec
PROPERTIES CallsEnd

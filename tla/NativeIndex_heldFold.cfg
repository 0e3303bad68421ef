CONSTANTS
    Paths <- PathsOf
    Root = "/"
    UnderRel <- UnderOf
    Sources = {1}
    Metas = {"a", "b"}
    Entries <- XYZ
    Removed = {}
    Scopes = {{}}
    Spares = {{}}
    Threads = {worker}
    Worker = worker
    Client = client
    NoThread = none
    Absent = absent
    Ops <- OpsHeld
    FaultKinds = {}
    MaxStaged = 5
    PublishMaxStaged = 5
    UnwrittenMaxRows = 1
    MaxBuilding = 2
    MaxSegment = 4
    MaxGeneration = 1
    MaxFaults = 0
    MaxCrashes = 0
SPECIFICATION Spec
INVARIANTS DiskOneRow

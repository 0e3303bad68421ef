CONSTANTS
    Names = {home, stick}
    Watcher = watcher
    Client = client
    NoThread = none
    MaxEngines = 3
    MaxChanges = 2
    SourceNames = {"home", "depot", "stick"}
    MaxId = 2
    Faults = {"forget", "write", "crash", "torn"}
SPECIFICATION MCSpec
INVARIANTS WantedKept
CHECK_DEADLOCK FALSE

CONSTANTS
    Names = {home, stick}
    Watcher = watcher
    Client = client
    NoThread = none
    MaxEngines = 3
    MaxChanges = 2
    SourceNames = {"home", "stick"}
    MaxId = 3
    Faults = {"forget", "write", "crash", "torn"}
SPECIFICATION MCSpec
INVARIANTS OneWriter OneNumberEach RowsOwned Shared RulesKept
PROPERTIES Settles
CHECK_DEADLOCK FALSE

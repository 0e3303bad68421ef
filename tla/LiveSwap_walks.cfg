CONSTANTS
    Names = {home, stick}
    Watcher = watcher
    Client = client
    NoThread = none
    MaxEngines = 3
    MaxChanges = 2
SPECIFICATION Spec
INVARIANTS NoWalkLost

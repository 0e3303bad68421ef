CONSTANTS
    Names = {home, stick}
    Watcher = watcher
    Client = client
    NoThread = none
    MaxEngines = 2
    MaxChanges = 1
SPECIFICATION Spec
INVARIANTS NeverRefused

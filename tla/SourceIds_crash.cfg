CONSTANTS
    Names = {"ev", "depo", "yedek"}
    MaxId = 2
    Faults = {"crash"}
SPECIFICATION Spec
INVARIANTS AlwaysOwned

CONSTANTS
    Paths <- PathsOf
    Root = "/"
    UnderRel <- UnderOf
    Debounce = 2
    Cap = 3
    Every = 1
    Floor = 2
    Patience = 3
    Least = 3
    Poll = 4
    Reconcile = 12
    WatchedEvery = 6
    Factor = 2
    FirstRetry = 2
    MaxCost = 2
    Never = Never
    Clients = {c}
    Hold = 1
    MaxVersion = 2
    MaxSwaps = 1
    None = None
SPECIFICATION MCSpec
INVARIANTS NoneDropped NothingPostponed WalkedInTime
           CurrentUnlessRaced PreparedFresh
PROPERTIES Served Current
CHECK_DEADLOCK FALSE

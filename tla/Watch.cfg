CONSTANTS
    Root = 0
    Dirs = {1, 2}
    Files = {3}
    DirNames = {"a", "x"}
    FileNames = {"f"}
    Excluded = {"x"}
    Trees <- TreesOf
    Capacity = 1
    Deep = 4
    MaxOps = 2
    MaxFaults = 1
    MaxTunes = 0
    Absent = Absent
    Points = {"a", "b", "o"}
    Inside = {"a", "b"}
    Ignored = {"b"}
    MaxMounts = 2
    MaxSwaps = 1
    Mapped = {"p", "q"}
    Tiers <- TiersOf
    Remember = 1
    MaxWrites = 3
    Nobody = Nobody
    Roots = {"r", "s"}
    Folders <- FoldersOf
    Leaves <- LeavesOf
    LeftOut <- LeftOutOf
    Threads = {t1, t2}
    Batch = 2
    InFlight = 1
    MaxBlind = 1
    MaxFailures = 1
SPECIFICATION MCSpec
INVARIANTS FollowedUnlessSlipped SaidUnlessAgain SettledUnlessOvertaken SweptRight
PROPERTIES Rests MappedSeen
CHECK_DEADLOCK FALSE

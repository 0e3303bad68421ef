CONSTANTS
    Sources = {s}
    CommitInterval = 1
    CommitWatched = 1
    CommitIdle = 2
    IdleAfter = 2
    PersistEvery = 1
    RetryAfter <- RetryOf
    MaxVersion = 2
    MaxFeed = 2
    MaxAsks = 1
    MaxFaults = 1
    NoWalk = NoWalk
    Stops = FALSE
SPECIFICATION MCSpec
INVARIANTS NothingForgotten NoSpin AnnouncedUnlessRetried
PROPERTIES Catches IsMirror
CHECK_DEADLOCK FALSE

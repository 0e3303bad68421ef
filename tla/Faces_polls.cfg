CONSTANTS
    None = None
    Span = 2
    Kept = 2
    Sizes = {1, 3}
    Cap = 3
    MaxRevision = 2
    Moves = 0
SPECIFICATION MCSpec
INVARIANTS OnePoll
CHECK_DEADLOCK FALSE

CONSTANTS
    None = None
    Span = 2
    Kept = 2
    Sizes = {3}
    Cap = 3
    MaxRevision = 1
    Moves = 1
SPECIFICATION MCSpec
PROPERTIES Rewound
CHECK_DEADLOCK FALSE

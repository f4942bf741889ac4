SPECIFICATION Spec
CONSTANTS
    Detections = {d1}
    MaxSecond = 1
    None = None
INVARIANT NothingBetweenCompactionsIsLost

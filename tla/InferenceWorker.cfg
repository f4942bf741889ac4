SPECIFICATION FairSpec
CONSTANTS
    Requests = {r1, r2}
    Loops = {t1, t2}
    MaxFailures = 2
    None = None
INVARIANTS
    TypeOK
    RunningHasALoop
    StopBoundsWork
PROPERTIES
    StopEndsLoops
    BrokenSetupEnds

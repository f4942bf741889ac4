SPECIFICATION FairSpec
CONSTANTS
    Requests = {r1}
    Loops = {t1, t2}
    MaxFailures = 1
    None = None
PROPERTY EveryRequestReturns

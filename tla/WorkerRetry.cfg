SPECIFICATION Spec
CONSTANTS
    Requests = {r1}
    Loops = {t1}
    MaxFailures = 2
    None = None
PROPERTY TransientFailureIsRetried

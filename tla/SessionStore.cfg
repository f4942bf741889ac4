SPECIFICATION Spec
CONSTANTS
    Detections = {d1, d2}
    MaxSecond = 2
    None = None
SYMMETRY Symmetry
INVARIANTS
    TypeOK
    MissionSurvivesRestart
    StopIsFinal
    SequentialCallsAreDurable
    CountedOnce
PROPERTY
    ImplementsLife

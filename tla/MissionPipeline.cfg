SPECIFICATION Spec
CONSTANTS
    Detections = {d1, d2}
    MaxMissions = 2
    Kinds = {boat}
    None = None
SYMMETRY Symmetry
INVARIANTS
    TypeOK
    OneOpenEventPerKey
    CurrentEventsAreOpen
    StopClosesEvents
    FiledTogether
PROPERTIES
    ClosedEventsStayClosed

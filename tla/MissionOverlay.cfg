SPECIFICATION Spec
CONSTANTS
    Detections = {d1}
    MaxMissions = 2
    Kinds = {boat}
    None = None
INVARIANT StopClearsOverlay

SPECIFICATION Spec
CONSTANTS
    Detections = {d1, d2, d3}
    Absent = Absent
SYMMETRY Symmetry
INVARIANT OnlyCurrentIsNew

SPECIFICATION Spec
CONSTANTS
    Detections = {d1, d2, d3, d4}
    Absent = Absent
SYMMETRY Symmetry
INVARIANTS
    TypeOK
    RestartShowsSameHistory
    NothingLost
    RunsAreAtomic
    NoDuplicates
    ErasedStaysErased
PROPERTIES
    ClosedStaysClosedOnDisk
    ImplementsLog

SPECIFICATION Spec
CONSTANTS
    Segments = {s1, s2, s3, s4}
    MaxPending = 2
    TtlMs = 1
    Clock <- ClockReadings
SYMMETRY SegmentSymmetry
INVARIANTS TypeOK CapRespected Conservation CountersTrackItems
PROPERTIES RefusedOnlyWhenFull NeverRevived

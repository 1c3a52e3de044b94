SPECIFICATION Spec
CONSTANTS
    None = None
    Segments = {s1, s2}
    Conns = {c1, c2}
    SessionIds = {i1}
    MaxPending = 1
    TtlMs = 1
    Clock <- ClockReadings
    MaxLives = 2
    MaxLoads = 1
    MaxBurst = 2
SYMMETRY PipelineSymmetry
CONSTRAINT LoadOrRestart
INVARIANTS TypeOK SlotsOwned OneBundle
PROPERTIES WireOrder NeverSilent

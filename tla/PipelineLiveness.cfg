SPECIFICATION WsFairSpec
CONSTANTS
    None = None
    Absent = Absent
    Segments = {s1, s2}
    Conns = {c1, c2}
    SessionIds = {i1}
    MaxPending = 1
    TtlMs = 1
    Clock <- OneReading
    MaxLives = 1
    MaxLoads = 1
    MaxBurst = 2
    MaxFrameBytes = 15
    MaxHeaderBytes = 5
    MaxHeaderLen = 5
    HeaderLens = {5}
    FrameLens = {2}
    SileroLoads = {1}
    Texts <- OddTexts
    Blobs <- OddBlobs
CONSTRAINT LoadAlone
PROPERTIES CodecsAgree RequestEnds ServesTheDesktop

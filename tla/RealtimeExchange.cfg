SPECIFICATION FairSpec
CONSTANTS
    FrameCount = 2
    SourceFrame = 2
    SegmentFrames = 1
    ChunkSizes <- Sizes
    MaxChunks = 4
    UpRoom = 5
    DownRoom = 2
    MaxSegments = 1
    AudioHeaders = {"flat", "nested"}
INVARIANTS TypeOK GapFree UplinkInOrder SuccessIsHeard
PROPERTY StartEnds
CHECK_DEADLOCK FALSE

SPECIFICATION Spec
CONSTANTS
    FrameCount = 2
    SourceFrame = 2
    SegmentFrames = 1
    ChunkSizes <- Sizes
    MaxChunks = 4
    UpRoom = 5
    DownRoom = 2
    MaxSegments = 1
    AudioHeaders = {"nested"}
INVARIANT AudioIsDecoded
CHECK_DEADLOCK FALSE

SPECIFICATION Spec
CONSTANTS
    Sessions = {i1, i2}
    FrameUnits <- Lengths
    ChunkUnits = 3
    MaxUnits = 5
    MaxFrames = 2
    MaxLoads = 1
INVARIANTS TypeOK EverySoundHeard Drained LittleIsOld SilenceIsShort

SPECIFICATION ChecksSpec
CONSTANTS
    RoleOrder <- Order
    Disks <- FoundDisks
    Threads = {t1, t2}
    Nobody = Nobody
    Unknown = Unknown
    MaxCalls = 3
    Tts = "tts"
    Pairs <- AskedPairs
    VoiceDirs <- Installed
INVARIANT StartedHasVoice
CHECK_DEADLOCK FALSE

SPECIFICATION ChecksFairSpec
CONSTANTS
    RoleOrder <- Order
    Disks <- FoundDisks
    Threads = {t1, t2}
    Nobody = Nobody
    Unknown = Unknown
    MaxCalls = 3
    Tts = "tts"
    Pairs <- AskedPairs
    VoiceDirs <- Installed
INVARIANTS TypeOK MockModeIsMock ReportIsTrue BundleIsWhole RefusalsAreNamed
PROPERTY CallsEnd
CHECK_DEADLOCK FALSE

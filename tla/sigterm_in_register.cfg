SPECIFICATION Spec
CONSTANTS
    g1 = g1
    g2 = g2
    s1 = s1
    s2 = s2
    GPU = {g1, g2}
    PID = {s1}
    MiB = 2
    MaxU64 = 31
    Config <- MCConfig
    Number <- MCNumber
    Size <- MCSize
    Duration <- MCDuration
    DeviceIndex <- MCDeviceIndex
    FileSize <- MCFileSize
    GpuNames <- MCGpuNames
    Server = {s1}
    Commands <- Crossed
    Signalled = {s1}
    Losable = {}
    MaxStreams = 0
    MaxFaults = 0
CHECK_DEADLOCK FALSE
INVARIANTS EveryReturnReleases

SPECIFICATION FairSpec
CONSTANTS
    MiB = 2
    MaxU64 = 15
    MaxDevices = 2
    Commands <- MCCommands
    Lines = {"ready", "drained", "noise"}
    MaxLines = 3
CHECK_DEADLOCK FALSE
INVARIANTS TypeOK RunsAsWritten CleanupAttempted CommandsAgree ComposedIsExact
PROPERTIES CancelEnds OrderedEventsSuffice

SPECIFICATION Spec
CONSTANTS
    GPU = {g1}
    PID = {p1, p2}
    Actor = {a1, a2}
    NoOne = NoOne
    MiB = 2
    MaxU64 = 15
    Config <- MCConfig
    Kinds <- MemoryAndProcesses
    Sizes = {2, 4}
    MiBs = {2, 8}
    Utils = {0}
    PmonMayFail = FALSE
    ActorsMayDie = FALSE
SYMMETRY ActorSymmetry
INVARIANTS UsageCoversProcesses ObservationIsCurrent
PROPERTIES ActsAtomically UnrelatedRowsPreserved UpdatePreservesUnsupplied SystemUsagePreserved

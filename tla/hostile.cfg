SPECIFICATION Spec
CONSTANTS
    GPU = {g1}
    PID = {p1}
    Actor = {a1, a2}
    NoOne = NoOne
    MiB = 2
    MaxU64 = 15
    Config <- MCConfig
    Kinds <- Everything
    Sizes = {2, 4}
    MiBs = {2}
    Utils = {1}
    PmonMayFail = TRUE
    ActorsMayDie = TRUE
SYMMETRY ActorSymmetry
INVARIANTS TypeOK NoOvercommit LockHeldInside VisiblePoolPreserved

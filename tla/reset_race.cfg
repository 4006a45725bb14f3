SPECIFICATION Spec
CONSTANTS
    GPU = {g1}
    PID = {p1, p2}
    Actor = {a1, a2}
    NoOne = NoOne
    MiB = 2
    MaxU64 = 15
    Config <- MCConfig
    Kinds = {"release", "remove", "reset"}
    Sizes = {2}
    MiBs = {1}
    Utils = {1}
    PmonMayFail = FALSE
    ActorsMayDie = FALSE
INVARIANTS UsageCoversProcesses

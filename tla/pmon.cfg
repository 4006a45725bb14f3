SPECIFICATION Spec
CONSTANTS
    g1 = g1
    g2 = g2
    p1 = p1
    p2 = p2
    GPU = {g1, g2}
    PID = {p1, p2}
    MiB = 2
    MaxU64 = 15
    Config <- MCConfig
    Kinds <- RowKinds
    Sizes = {}
    MiBs = {1}
    Utils = {2}
    Order <- MCOrder
    Arguments <- MCArguments
    MaxChanges = 3
    MaxFaults = 2
INVARIANTS TypeOK
PROPERTIES KeepsPromise PmonRecovers

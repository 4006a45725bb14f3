SPECIFICATION Spec
CONSTANTS
    g1 = g1
    g2 = g2
    p1 = p1
    t1 = t1
    t2 = t2
    pid = pid
    GPU = {g1}
    PID = {pid}
    MiB = 2
    MaxU64 = 15
    Config <- MCConfig
    Program = {p1}
    Thread = {t1, t2}
    Owner <- OneProgram
    Apis <- OneApiEach
    Token = {k1, k2}
    None = None
    Sizes = {1}
    Others <- Nowhere
    OOMAfter <- Unlimited
    FirstGPU = g1
    MaxAllocations = 2
    MaxFaults = 0
INVARIANTS AllocationsReleasable

SPECIFICATION Spec
CONSTANTS
    Version = {v1, v2}
    NoSpec = NoSpec
    Foreign = Foreign
    Kinds = {"install"}
    Values = {1, 2}
    MaxRuns = 2
    MaxFaults = 0
    ForeignFiles = "never"
    Stores = "between"
CHECK_DEADLOCK FALSE
INVARIANTS RefusesOnlyForeignSpec

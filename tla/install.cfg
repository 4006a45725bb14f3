SPECIFICATION Spec
CONSTANTS
    Version = {v1, v2}
    NoSpec = NoSpec
    Foreign = Foreign
    Kinds = {"install", "up", "down"}
    Values = {1, 2}
    MaxRuns = 3
    MaxFaults = 1
    ForeignFiles = "between"
    Stores = "between"
CHECK_DEADLOCK FALSE
INVARIANTS TypeOK OverridesKept SpecBacked
PROPERTIES ForeignUntouched

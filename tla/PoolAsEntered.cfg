SPECIFICATION Spec
CONSTANTS
    Addresses = {"", "a", "b", "c"}
    MaxRows = 3
    MaxRowEdits = 4
    MaxPoolFaults = 1
INVARIANT PoolAsEntered
CHECK_DEADLOCK FALSE

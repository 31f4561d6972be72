SPECIFICATION Spec
CONSTANTS
    Keys = {1, 2}
    FirstKey = 1
    MaxUses = 4
    MaxCardFaults = 2
INVARIANT OffMeansOff
CHECK_DEADLOCK FALSE

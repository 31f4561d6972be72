SPECIFICATION Spec
CONSTANTS
    Certs = {c1}
    Workers = {w1, w2}
    Nodes = {n1}
    HaEnabled = FALSE
    NoCert = NoCert
    NoNode = NoNode
    MaxRenewals = 2
    MaxExpiries = 0
    MaxFaults = 1
    MaxCrashes = 1
    MaxDeletes = 1
    MaxAttaches = 0
SYMMETRY Interchangeable
INVARIANTS ActiveHasMaterial SettledAsIssued

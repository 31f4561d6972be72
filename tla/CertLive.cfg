SPECIFICATION FairSpec
CONSTANTS
    Certs = {c1}
    Workers = {w1, w2}
    Nodes = {n1, n2}
    HaEnabled = TRUE
    NoCert = NoCert
    NoNode = NoNode
    MaxRenewals = 0
    MaxExpiries = 2
    MaxFaults = 1
    MaxCrashes = 1
    MaxDeletes = 0
    MaxAttaches = 1
INVARIANTS TypeOK OneIssuanceAtATime
PROPERTIES DueIsRenewed IssuancesComplete

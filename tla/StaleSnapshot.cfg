SPECIFICATION Spec
CONSTANTS
    n1 = n1
    n2 = n2
    w1 = w1
    w2 = w2
    pool = pool
    host = host
    a = a
    b = b
    NoFile = NoFile
    NoWorker = NoWorker
    Files = {pool, host}
    Contents = {a, b}
    ValidConfigs <- MCValid
    Nodes = {n1}
    Workers = {w1, w2}
    NodeOf <- MCOneNode
    Dir <- MCTwoDirs
    Renderable <- MCRenderable
    InitialConfig <- MCEmpty
    HaEnabled = FALSE
    MaxEdits = 2
    MaxRequests = 0
    MaxFaults = 0
    MaxCrashes = 0
INVARIANTS DrainedIsDesired
CHECK_DEADLOCK FALSE

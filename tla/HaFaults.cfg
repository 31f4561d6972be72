SPECIFICATION Spec
CONSTANTS
    n1 = n1
    n2 = n2
    w1 = w1
    w2 = w2
    pool = pool
    host = host
    a = a
    b = b
    NoFile = NoFile
    NoWorker = NoWorker
    Files = {pool, host}
    Contents = {a, b}
    ValidConfigs <- MCValid
    Nodes = {n1, n2}
    Workers = {w1, w2}
    NodeOf <- MCOneSlotEach
    Dir <- MCDir
    Renderable <- MCRenderable
    InitialConfig <- MCEmpty
    HaEnabled = TRUE
    MaxEdits = 2
    MaxRequests = 0
    MaxFaults = 1
    MaxCrashes = 0
INVARIANTS TypeOK AppliedAsValidated VersionFaithful UnchangedMeansPublished
PROPERTIES ImplementsRegister

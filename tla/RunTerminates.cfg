SPECIFICATION FairSpec
CONSTANTS
    a = a
    b = b
    Backends = {a, b}
    Main = 0
    NumCells = 2
    Cells <- TwoCells
    CellServer <- Server2
    CellClient <- Client2
    PemBackends = {}
    Unsupported <- None
    TicketBound = {b}
    CrashProne = {b}
    Resuming = {}
    ExpectHrr = {}
    PreSkipped = {2}
    SlowCells = {1, 2}
    ExpiresAt <- Unfinished
    Lingering <- AnyStep
    LateCloses = {1, 2}
    NoProc = NoProc
    NoCell = NoCell
    NoRequest = NoRequest
PROPERTIES MatrixTerminates

SPECIFICATION Spec
CONSTANTS
    a = a
    b = b
    Backends = {a, b}
    Main = 0
    NumCells = 2
    Cells <- TwoCells
    CellServer <- Server2
    CellClient <- Client2
    PemBackends = {}
    Unsupported <- None
    TicketBound = {b}
    CrashProne = {}
    Resuming = {}
    ExpectHrr = {}
    PreSkipped = {}
    SlowCells = {1}
    ExpiresAt <- EstClient
    Lingering <- WaitTcp
    LateCloses = {}
    NoProc = NoProc
    NoCell = NoCell
    NoRequest = NoRequest
INVARIANTS CloseHitsOwnCell

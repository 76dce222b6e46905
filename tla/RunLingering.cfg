SPECIFICATION ServedSpec
CONSTANTS
    a = a
    b = b
    Backends = {a, b}
    Main = 0
    NumCells = 2
    Cells <- TwoCells
    CellServer <- Server2
    CellClient <- Client2
    PemBackends = {a}
    Unsupported <- SkipsClient2
    TicketBound = {b}
    CrashProne = {b}
    Resuming = {}
    ExpectHrr = {}
    PreSkipped = {}
    SlowCells = {1}
    ExpiresAt <- Unfinished
    Lingering <- AnyStep
    LateCloses = {1, 2}
    NoProc = NoProc
    NoCell = NoCell
    NoRequest = NoRequest
INVARIANTS  NoOrphan OwnerWillClose NothingLeftBehind
PROPERTIES WorkersFinish

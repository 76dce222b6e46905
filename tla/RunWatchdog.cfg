SPECIFICATION Spec
CONSTANTS
    a = a
    b = b
    Backends = {a, b}
    Main = 0
    NumCells = 4
    Cells <- FourCells
    CellServer <- Server4
    CellClient <- Client4
    PemBackends = {a}
    Unsupported <- SkipsClient4
    TicketBound = {b}
    CrashProne = {}
    Resuming = {1, 2}
    ExpectHrr = {2}
    PreSkipped = {3}
    SlowCells = {1, 2}
    ExpiresAt <- Unfinished
    Lingering = {}
    LateCloses = {2}
    NoProc = NoProc
    NoCell = NoCell
    NoRequest = NoRequest
INVARIANTS TypeOK TicketSurvives PassIsEarned CloseHitsOwnCell
PROPERTIES RunKeepsPromise

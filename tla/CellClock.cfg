\* The limits of the code, for every kind of cell.
SPECIFICATION Spec
CONSTANTS
    CellTimeout = 45
    CloseDeadline = 10
    CleanupWait = 15
    TcpWait = 20
    TcpReady = 30
    SetupTime = 8
INVARIANTS ServerFailureIsFail GraceSuffices NoStaleClose

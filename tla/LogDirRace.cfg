SPECIFICATION Spec
CONSTANTS
    Jobs = 2
    LastSecond = 1
    Matrix <- CipherSweep
INVARIANT EveryFailureHasLog

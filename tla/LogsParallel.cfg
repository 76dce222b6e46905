SPECIFICATION Spec
CONSTANTS
    Jobs = 2
    LastSecond = 3
    Matrix <- CipherSweep
INVARIANTS TypeOK NoLogLost 

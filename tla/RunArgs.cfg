\* Every command line with every suite file; 0 and 50 jobs are out of range.
CONSTANTS
    MatrixFlags <- AllFlags
    SuiteFlags = {"server"}
    JobChoices = {0, 1, 2, 50}
    PortChoices = {0, 15053, 70000}
    SuiteFiles <- Files
    Cpus = 80
    MaxJobs = 32
    Stride = 100
    Backends = {"openssl", "nss"}
    GrpcBase <- GrpcPorts
    TlsBase <- TlsPorts
    NumCells = 2
    None = None
SPECIFICATION Spec
INVARIANTS TypeOK SlotsDoNotCollide GreenIsEarned

SPECIFICATION FairSpec
CONSTANTS
    Jobs = 4
    NumCells = 3
    MaxJobs = 2
    Stride = 100
    Backends <- TwoWrappers
    BasePort <- Ports
    PreSkipped <- Cell3
    Raising <- Cell2
    Fragile <- FragileOne
    Occupied <- Leftover
INVARIANTS TypeOK SlotsConserved OwnWrappersOnly NoCellCutOff StoppedAfterCells
PROPERTY RunEnds

SPECIFICATION MCSpec
CONSTANTS
    AddrSpace = 12
    Instrs <- MCInstrs
    DataRegs <- MCRegs
    InitMem <- MCMem
    InitData <- MCData
    MaxIssued = 4
INVARIANTS
    LoadsAreInOrder
    OneAnswerOwed
    NoWriteConflict
PROPERTIES
    ImplementsIsa
    AccessEnds

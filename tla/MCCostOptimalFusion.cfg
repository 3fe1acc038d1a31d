SPECIFICATION OptimalSpec
CONSTANTS
    Tensor <- MCTensor
    Name <- MCName
    Kind <- MCKind
    Param <- MCParam
    Patterns <- MCPatterns
    Graphs <- MCGraphsSet
    Dims <- MCDims
INVARIANTS
    SelectionTypeOK
    SavingsAreExact
    BestIsOptimal
    PromiseKept

SPECIFICATION Spec
CONSTANTS
    Tensor <- MCTensor
    Name <- MCName
    Kind <- MCKind
    Param <- MCParam
    Patterns <- MCPatterns
    Graphs <- MCGraphsSet
INVARIANTS
    TypeOK
    ExecutionOrderPreserved
    InterfaceExact
    FusedGraphVerifies
    GreedyTakesLongest
    NothingLeftToFuse
    FusedNamesIdentify

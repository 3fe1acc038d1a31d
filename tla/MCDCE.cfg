SPECIFICATION Spec
CONSTANTS
    Tensor <- MCTensor
    Name <- MCName
    Kind <- MCKind
    Param <- MCParam
    Graphs <- MCGraphsSet
INVARIANTS
    TypeOK
    KeepsExactlyNeeded
    PrunedVerifies

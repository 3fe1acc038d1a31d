SPECIFICATION FoldSpec
CONSTANTS
    Tensor <- MCTensor
    Name <- MCName
    Kind <- MCKind
    Param <- MCParam
    Graphs <- MCGraphsSet
    ConstantSets <- MCConstantSets
INVARIANT FoldsExactlyConstantOps

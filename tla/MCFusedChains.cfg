SPECIFICATION Spec
CONSTANTS
    Tensor <- MCTensor
    Name <- MCName
    Kind <- MCKind
    Param <- MCParam
    Patterns <- MCPatterns
    Graphs <- MCGraphsSet
INVARIANT FusedWindowsAreChains

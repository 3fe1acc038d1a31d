SPECIFICATION RunSpec
CONSTANTS
    Tensor <- MCTensor
    Name <- MCName
    Kind <- MCKinds
    Param <- MCParam
    Patterns <- MCPatterns
    Graphs <- MCGraphsSet
    Compute <- MCCompute
    Given <- MCGiven
PROPERTIES
    ImplementsUnfused

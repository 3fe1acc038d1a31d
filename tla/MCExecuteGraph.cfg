SPECIFICATION Spec
CONSTANTS
    Tensor <- MCTensor
    Name <- MCName
    Kind <- MCKind
    Param <- MCParam
    Graphs <- MCGraphsSet
    Compute <- MCCompute
    Given <- MCGiven
INVARIANTS
    TypeOK
    VerifiedNeverRaises
    UseBeforeDefRaises
    TensorsSolveEquations
PROPERTIES
    TensorsAreStable

SPECIFICATION PipelineSpec
CONSTANTS
    Tensor <- MCTensor
    Name <- MCName
    Kind <- MCKind
    Param <- MCParam
    Patterns <- MCPatterns
    Graphs <- MCGraphsSet
    Compute <- MCCompute
    Given <- MCGiven
    NumLayers <- MCNumLayers
    Dims <- MCDims
INVARIANTS
    ConstructionSucceeds
    StepComputesBaseOutputs
    RaisesExactlyOnMissing
    SummaryAccountsForEveryOp
    TrafficNeverOverstated
PROPERTY StepEnds

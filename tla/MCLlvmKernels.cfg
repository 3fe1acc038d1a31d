SPECIFICATION Spec
CONSTANTS
    Width = 4
    Calls <- MCCalls
INVARIANT FittingCallsAreExact
PROPERTY KernelHalts

\* The gradients of all average pools, those with SAME padding and a stride too.
CONSTANTS
    Computations <- MCAvgPoolGrads
    Data <- MCData
SPECIFICATION Spec
CHECK_DEADLOCK FALSE
INVARIANT AvgPoolWindowReconstructed

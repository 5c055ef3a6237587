\* The graphs of the kernels, alone and in combination, and some that the rules
\* have to leave alone.  The pass ends.
CONSTANTS
    Computations <- MCKernels
    Data <- MCData
SPECIFICATION Spec
CHECK_DEADLOCK FALSE
INVARIANTS TypeOK NothingDangles NoCheckFails OperandsAsEmitReads
           FusionPreservesValue KernelsRecognised EmittedFunctionComputesRoot
           PassFindsKernels KernelsAlone

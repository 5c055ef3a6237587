\* Batch-norm training is a supported operation, but a computation whose root it is
\* has no entry for the root in the map that makes the function.
\* The translation ends, hence no deadlock check.
CONSTANTS
    Families <- MCBatchNorms
    Graphs <- MCGraphs
    Value <- MCValue
SPECIFICATION Spec
INVARIANTS SupportedTable
CHECK_DEADLOCK FALSE

\* The handler of a slice drops its strides: the function computes another slice.
\* The translation ends, hence no deadlock check.
CONSTANTS
    Families <- MCSlices
    Graphs <- MCGraphs
    Value <- MCValue
SPECIFICATION Spec
INVARIANTS StridesKept
CHECK_DEADLOCK FALSE

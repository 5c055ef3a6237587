\* The translation of small computations: every handler, operations of each kind
\* on each other's results, and nested tuples and batch-norm outputs.
\* The translation ends, hence no deadlock check.
CONSTANTS
    Families <- MCFamilies
    Graphs <- MCGraphs
    Value <- MCValue
SPECIFICATION Spec
INVARIANTS TypeOK MapsDenoteValues FunctionComputesRoot NearbyTuplesTranslated
CHECK_DEADLOCK FALSE

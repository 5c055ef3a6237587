\* Callers that serialise their compilations; executables die at any time.
CONSTANTS
    t1 = t1  t2 = t2  t3 = t3  a1 = a1  a2 = a2  a3 = a3
    e1 = e1  e2 = e2  e3 = e3  e4 = e4  b1 = b1  b2 = b2  None = None
    Threads = {t1, t2, t3}
    Addrs = {a1, a2, a3}
    Emitters = {e1, e2, e3, e4}
    Backends = {b1, b2}
    Environments <- MCEnvironments
    CallersSerialise = TRUE
SYMMETRY Symmetry
SPECIFICATION Spec
INVARIANTS
    TypeOK FusionsMapped EmitterInUseAlive NoInternalError
PROPERTY ImplementsFusionService
\* TF_CHECK_OK and ValueOrDie end the process: an aborted one takes no step.
CHECK_DEADLOCK FALSE

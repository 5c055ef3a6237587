\* Callers that compile at the same time, m_module_mutex alone between them,
\* under fairness.
CONSTANTS
    t1 = t1  t2 = t2  t3 = t3  a1 = a1
    e1 = e1  e2 = e2  b1 = b1  b2 = b2  None = None
    Threads = {t1, t2, t3}
    Addrs = {a1}
    Emitters = {e1, e2}
    Backends = {b1, b2}
    Environments <- MCEnvironments
    CallersSerialise = FALSE
SPECIFICATION FairSpec
INVARIANTS OneBackend BackendReadsSafe
PROPERTY CompileReturns
\* TF_CHECK_OK and ValueOrDie end the process: an aborted one takes no step.
CHECK_DEADLOCK FALSE

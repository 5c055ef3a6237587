\* Concurrent callers and the unlocked fusion map: the "internal error".
CONSTANTS
    t1 = t1  t2 = t2  a1 = a1  a2 = a2
    e1 = e1  e2 = e2  e3 = e3  e4 = e4  b1 = b1  b2 = b2  None = None
    Threads = {t1, t2}
    Addrs = {a1, a2}
    Emitters = {e1, e2, e3, e4}
    Backends = {b1, b2}
    Environments <- MCWorkingEnvironments
    CallersSerialise = FALSE
SPECIFICATION Spec
INVARIANT NoInternalError
CHECK_DEADLOCK FALSE

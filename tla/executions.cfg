\* Two threads that execute a module at the same time, with allocations that may
\* fail, and not enough memory when some have.
CONSTANTS
    t1 = t1  t2 = t2
    Threads = {t1, t2}
    Addrs <- MCAddrs
    Arguments <- MCArguments
    Calls <- MCCalls
    Executables <- MCExecutables
    MayAllocate <- First
SYMMETRY Symmetry
SPECIFICATION Spec
INVARIANTS TypeOK ResultThere BuffersPartitioned

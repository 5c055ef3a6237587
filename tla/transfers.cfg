\* Two clients that store, execute and read back at the same time, with
\* allocations that may fail and too little memory for both of them.
CONSTANTS
    t1 = t1  t2 = t2
    Threads = {t1, t2}
    Addrs <- MCAddrs
    Executables <- MCExecutables
    MayAllocate <- First
    Shapes <- MCShapes
    rows = rows  columns = columns
    Layouts = {rows, columns}
    DefaultLayout = rows
    NoLayout = NoLayout
    None = None
SYMMETRY Symmetry
SPECIFICATION Spec
INVARIANTS TypeOK BuffersAccountedFor
PROPERTY ImplementsLiteralService

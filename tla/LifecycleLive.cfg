\* A single-threaded process that forks and exits: the child gets its
\* reporting thread, and a reporting thread that hangs delays no exit for ever.
SPECIFICATION FairSpec
CONSTANTS
    parent = parent
    child = child
    t1 = t1
    t2 = t2
    w1 = w1
    w2 = w2
    Procs <- TwoProcs
    Root = parent
    App <- OneThread
    Main = t1
    Workers <- OneWorker
    CreateMayFail = FALSE
CHECK_DEADLOCK FALSE
PROPERTIES ReporterStarts ExitCompletes

\* A process and its child, two application threads each, room for a second
\* reporting thread.
SPECIFICATION Spec
CONSTANTS
    parent = parent
    child = child
    t1 = t1
    t2 = t2
    w1 = w1
    w2 = w2
    Procs <- TwoProcs
    Root = parent
    App <- TwoThreads
    Main = t1
    Workers <- TwoWorkers
    CreateMayFail = TRUE
SYMMETRY Symmetry
INVARIANTS TypeOK OneReporter OnceMeansRunning GuardExclusion
CHECK_DEADLOCK FALSE

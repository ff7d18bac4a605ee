\* Three threads, two slots: a thread that finds no slot, failing
\* allocations, and blocks enough for the pool and the fallback.
SPECIFICATION Spec
CONSTANTS
    t1 = t1
    t2 = t2
    t3 = t3
    b1 = b1
    b2 = b2
    b3 = b3
    b4 = b4
    NULL = NULL
    Threads <- ThreeThreads
    Blocks <- FourBlocks
    POOL_MAX = 2
SYMMETRY Symmetry
INVARIANTS TypeOK ExclusiveStacks StacksAreAllocated SlotsConserved

\* A list in each of its usages: two threads that insert and look up, one with
\* all the operations, two that delete.  A thread that dereferenced a NULL
\* element stops, and with it the process.
SPECIFICATION Spec
CONSTANTS
    a = a
    b = b
    c = c
    t1 = t1
    t2 = t2
    Head = Head
    NULL = NULL
    Nodes <- ThreeNodes
    Keys <- ThreeKeys
    Threads <- TwoThreads
    Usages <- AnyUsage
SYMMETRY Symmetry
INVARIANTS LinkedIsAllocated ListIsSet FindSeesPresent 
CHECK_DEADLOCK FALSE

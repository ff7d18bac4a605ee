\* Both modes; the counter and the event ring overflow.
SPECIFICATION CountersSpec
CONSTANTS
    Threads = {t1, t2}
    Modes = {TRUE, FALSE}
    MaxCtr = 4
    Amounts = {1, 2}
    MaxAdded = 6
    MaxCopies = 2
INVARIANTS
    CountersTypeOK
    NeverOverReported
    ExactWithoutOverlap
\* Everything has been added and reported.
CHECK_DEADLOCK FALSE

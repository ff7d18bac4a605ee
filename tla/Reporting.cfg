\* One channel is replaced by another while data is written to a descriptor
\* that is used for two files, the connection may break once, and the process
\* may end at any time.  A batch holds two short writes, and a long one alone
\* is over the limit.
SPECIFICATION FairReportingSpec
CONSTANTS
    Writers = {t1, t2}
    Lens = {1, 3}
    NumFds = 1
    QueueLength = 1
    MaxAggBytes = 2
    FlushPeriod = 3
    MaxWrites = 2
    MaxOpens = 1
    MaxCtls = 2
    MaxOutages = 1
INVARIANTS
    
    MessagesBounded
    DroppedNeedsOutage
    

    
\* The process ends.
CHECK_DEADLOCK FALSE

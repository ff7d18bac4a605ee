\* TLS over TCP, UDP and a file, with failing system calls, a peer that goes
\* away and a descriptor of the reserved range that the application has; and a
\* process with its child over plain TCP, without faults.
SPECIFICATION FairSpec
CONSTANTS
    parent = parent
    child = child
    Procs <- Family
    Root = parent
    Configs <- All
    MinFd = 1
    MaxFd = 3
    Addrs = 2
    GoodAddr = 2
    BackoffStart = 1
    MaxOutages = 2
INVARIANTS BackoffKept  ConnectedWhenItSaysSo DistinctConnections
PROPERTY Reconnects

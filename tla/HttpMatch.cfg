\* Two descriptors, two sockets of two exchanges, one chain: drops,
\* descriptor reuse and expiry passes interleave with the exchanges.
SPECIFICATION FairSpec
CONSTANTS
    f1 = f1
    f2 = f2
    Fds <- TwoFds
    MaxUid = 2
    MaxReq = 2
    cbufSize = 2
    MAX_EVT_COUNT = 0
    ExpireEvery = 1
    HASH_TABLE_SIZE = 1
INVARIANTS ExpiredIsSilent PairedUnlessDropped
PROPERTY DeadIsReclaimed

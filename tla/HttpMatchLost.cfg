\* Three sockets in one chain: an item in use before two expired ones.
SPECIFICATION Spec
CONSTANTS
    f1 = f1
    f2 = f2
    Fds <- TwoFds
    MaxUid = 3
    MaxReq = 1
    cbufSize = 2
    MAX_EVT_COUNT = 1
    ExpireEvery = 2
    HASH_TABLE_SIZE = 1
INVARIANT InUseIsKept

\* One client that frames as the command line does, and one whose metadata is
\* arbitrary and whose request is above the size limit.  Both may give up at
\* any time.
SPECIFICATION FairSpec
CONSTANTS
    c1 = c1
    c2 = c2
    None = None
    Clients <- TwoClients
    ReqFrames <- TwoAndThree
    RespFrames = 2
    MqMaxMsg = 2
    MsgLimit = 2
    Disciplined = {c1}
INVARIANTS  NamesAreOwned
PROPERTY ClientsFinish
CHECK_DEADLOCK FALSE

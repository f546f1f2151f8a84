SPECIFICATION Spec
CONSTANTS
    c1 = c1
    c2 = c2
    c3 = c3
    Clients = {c1, c2, c3}
    Backlog = 1
    BufSize = 3
    AcceptErrors = {"ENOMEM"}
    RecvErrors = {"ENOMEM"}
    Messages <- MCMessages
    MaxUnread = 3
SYMMETRY ClientSymmetry
INVARIANTS
    TypeOK
    NoConnectionLeft
    QuitOnlyOnSingleQ
    NulInsideBuffer
    ServerInv
PROPERTIES
    NothingServedAfterQuit
    ImplementsService
CHECK_DEADLOCK FALSE

SPECIFICATION Spec
CONSTANTS
    c1 = c1
    c2 = c2
    Clients = {c1, c2}
    Backlog = 1
    BufSize = 3
    AcceptErrors = {"ENOMEM"}
    RecvErrors = {"ENOMEM"}
    Messages <- MCMessages
    MaxUnread = 3

INVARIANT
    ErrnoIsOfRecv
CHECK_DEADLOCK FALSE

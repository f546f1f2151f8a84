SPECIFICATION FairRestartSpec
CONSTANTS
    main = main
    c2 = c2
    c3 = c3
    s1 = s1
    Main = main
    Clients = {main, c2}
    Strangers = {}
    Backlog = 1
    BufSize = 3
    AcceptErrors = {}
    RecvErrors = {}
    Messages <- MCMessages
    MaxUnread = 1
    Faults = FALSE
    PollLimit = 2
PROPERTIES
    TestsAreReported
    EarlyRequestServed
CHECK_DEADLOCK FALSE

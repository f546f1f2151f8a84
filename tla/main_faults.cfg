SPECIFICATION FairSystemSpec
CONSTANTS
    main = main
    c2 = c2
    c3 = c3
    s1 = s1
    Main = main
    Clients = {main, c2, c3, s1}
    Strangers = {s1}
    Backlog = 1
    BufSize = 3
    AcceptErrors = {"ENOMEM"}
    RecvErrors = {"ENOMEM"}
    Messages <- MCMessages
    MaxUnread = 1
    Faults = TRUE
    PollLimit = 2
INVARIANTS
    SystemTypeOK
    SystemInv
    RequestInv
    JoinIsAnswered
    NoConnectionAbandoned
    ReturnMeansServerQuit
    ExitFailureOnlyWithoutThread
PROPERTIES
    ProgramRunsServer
    ProgramAdvances
    ProgramEnds

CONSTANTS
    v1 = v1
    v2 = v2
    t1 = t1
    t2 = t2
    p1 = p1
    None = None
    Vars = {v1, v2}
    Threads = {t1, t2}
    Fds <- MCFds
    Kinds <- MCKinds
    Ports = {p1}
    RawOptions = {"v6only"}
    SharedMoves = FALSE
SPECIFICATION Spec
SYMMETRY MCSymmetry
INVARIANT TypeOK
INVARIANT SocketInv
INVARIANT SoleOwner
INVARIANT CacheAgrees
INVARIANT FamilyAgrees
INVARIANT MutexHeldByCall
PROPERTY GettersTellTheTruth
PROPERTY GetPortNamesBind
PROPERTY ImplementsSocketValue

CONSTANTS
    v1 = v1
    v2 = v2
    t1 = t1
    t2 = t2
    p1 = p1
    None = None
    Vars = {v1, v2}
    Threads = {t1, t2}
    Fds <- MCFds
    Kinds <- MCKindStream
    Ports = {p1}
    RawOptions = {"reuse", "v6only"}
    SharedMoves = FALSE
SPECIFICATION Spec
SYMMETRY MCSymmetry
PROPERTY MSG1012MeansUnbound

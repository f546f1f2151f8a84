SPECIFICATION Spec
CONSTANTS
    s1 = s1
    s2 = s2
    c1 = c1
    c2 = c2
    Servers = {s1, s2}
    Calls = {c1, c2}
SYMMETRY MCSymmetry
INVARIANTS
    LifeInv
    SocketsStayUsable
    NothingLeft
    AliveServerListens

CONSTANTS
    a1 = a1
    a2 = a2
    b1 = b1
    b2 = b2
    b3 = b3
    n1 = n1
    n2 = n2
    None = None
    Vars = {a1, a2}
    Names = {n1, n2}
    Blocks = {b1, b2, b3}
    Addresses <- MCAddresses
    Requests <- MCRequests
SPECIFICATION Spec
SYMMETRY MCSymmetry
INVARIANT AddrinfoInv
INVARIANT ListsOwned
INVARIANT AnswersRequest
PROPERTY ImplementsValue

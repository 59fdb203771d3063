SPECIFICATION Spec
CONSTANTS
    b0 = b0
    b1 = b1
    b2 = b2
    slash = slash
    etc = etc
    passwd = passwd
    h1 = h1
    h2 = h2
    None = None
    Closed = Closed
    Freed = Freed
    Wild = Wild
    Branch = {b0, b1, b2}
    Root = slash
    Dirs = {etc}
    Files = {passwd}
    Has <- MCHas
    Handles = {h1, h2}
    MaxGen = 4
    Unlinking = FALSE
    Racing = FALSE
    BadModes = FALSE
SYMMETRY Symmetry
INVARIANTS
    TypeOK
    CountsExact
    OpenBranchesStay
    PutsFindTheirBranch
    PutmapsNeeded
CHECK_DEADLOCK FALSE

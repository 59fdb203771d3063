SPECIFICATION Spec
CONSTANTS
    b0 = b0
    b1 = b1
    b2 = b2
    slash = slash
    etc = etc
    passwd = passwd
    h1 = h1
    h2 = h2
    None = None
    Closed = Closed
    Freed = Freed
    Wild = Wild
    Branch = {b0, b1}
    Root = slash
    Dirs = {etc}
    Files = {passwd}
    Has <- MCHas
    Handles = {h1, h2}
    MaxGen = 2
    Unlinking = TRUE
    Racing = TRUE
    BadModes = TRUE
SYMMETRY Symmetry
INVARIANTS
    CurrentMeansCurrent
CHECK_DEADLOCK FALSE

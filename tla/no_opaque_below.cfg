SPECIFICATION Spec
CONSTANTS
    slash = slash
    etc = etc
    passwd = passwd
    hosts = hosts
    rc_d = rc_d
    rc = rc
    data = data
    Root = slash
    Paths <- FlatPaths
    Parent <- MCParent
    Above <- MCAbove
    NB = 2
    Writable = {0}
    Values <- TwoValues
    Empty = Empty
    None = None
    Dir = Dir
    NoDentry = NoDentry
    Lost = Lost
    Faults = {"create", "mknod", "copyup"}
    LowerOpaque = FALSE
    MaxPins = 1
INVARIANTS
    NothingLost
PROPERTIES
    RmdirTruthful

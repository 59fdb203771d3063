SPECIFICATION FreshSpec
CONSTANTS
    slash = slash
    etc = etc
    passwd = passwd
    hosts = hosts
    rc_d = rc_d
    rc = rc
    data = data
    Root = slash
    Paths <- FlatPaths
    Parent <- MCParent
    Above <- MCAbove
    NB = 3
    Writable = {0}
    Values <- OneValue
    Empty = Empty
    None = None
    Dir = Dir
    NoDentry = NoDentry
    Lost = Lost
    Faults = {}
    LowerOpaque = FALSE
    MaxPins = 0
INVARIANTS
    WalkFindsView
PROPERTIES
    UnixSemantics

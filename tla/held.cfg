SPECIFICATION FreshSpec
CONSTANTS
    slash = slash
    etc = etc
    passwd = passwd
    hosts = hosts
    rc_d = rc_d
    rc = rc
    data = data
    Root = slash
    Paths <- DeepPaths
    Parent <- MCParent
    Above <- MCAbove
    NB = 2
    Writable = {0}
    Values <- OneValue
    Empty = Empty
    None = None
    Dir = Dir
    NoDentry = NoDentry
    Lost = Lost
    Faults = {"create", "mknod", "whiteout", "copyup", "copydata", "opaque"}
    LowerOpaque = FALSE
    MaxPins = 1
INVARIANTS
    CacheSound
    BranchesSound
    NoOops
PROPERTIES
    ReadOnlyUntouched

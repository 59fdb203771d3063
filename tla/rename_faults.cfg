SPECIFICATION FreshSpec
CONSTANTS
    slash = slash
    old = old
    new = new
    old_x = old_x
    new_x = new_x
    data = data
    Root = slash
    Paths <- MCPaths
    Parent <- MCParent
    Above <- MCAbove
    Twin <- MCTwin
    NB = 3
    Writable = {0, 1}
    Values <- TwoValues
    Empty = Empty
    None = None
    Dir = Dir
    NoDentry = NoDentry
    Lost = Lost
    Faults = {"unlink", "rename", "link", "copyup", "copydata", "opaque", "whiteout"}
PROPERTIES
    SourceKept
    ReadOnlyUntouched
CHECK_DEADLOCK FALSE

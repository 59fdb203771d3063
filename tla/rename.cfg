SPECIFICATION SmallSpec
CONSTANTS
    slash = slash
    old = old
    new = new
    old_x = old_x
    new_x = new_x
    data = data
    Root = slash
    Paths <- MCPaths
    Parent <- MCParent
    Above <- MCAbove
    Twin <- MCTwin
    NB = 2
    Writable = {0}
    Values <- TwoValues
    Empty = Empty
    None = None
    Dir = Dir
    NoDentry = NoDentry
    Lost = Lost
    Faults = {}
INVARIANTS
    TypeOK
    NoBug
    BranchesSound
PROPERTIES
    RenameIsAtomic
CHECK_DEADLOCK FALSE

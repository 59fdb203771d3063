SPECIFICATION MCFairSpec
CONSTANTS
    tmpfs = tmpfs
    bare = bare
    module = module
    added = added
    passwd = passwd
    hosts = hosts
    u1 = u1
    u2 = u2
    Names = {passwd, hosts}
    Branch = {tmpfs, bare, module, added}
    Mounted <- MCMounted
    Writable = {tmpfs}
    Dirless = {bare}
    Slots = 2
    Chunk = 2
    Users = {u1, u2}
    MaxRoom = 1
    MaxCookie = 4
    Budget = 3
    NoEntry = NoEntry
    NoState = NoState
    Closed = Closed
    None = None
INVARIANTS
    TypeOK
    NoDuplicates
    NothingMissed
    NothingInvented
PROPERTIES
    CallsReturn
CHECK_DEADLOCK FALSE

SPECIFICATION MCSpec
CONSTANTS
    FragTails = 2
    MetaInodes = 2
    MetaEntries = 3
    MetaFrags = 2
    MaxUids = 3
    Host <- MCHost
    Sources <- MCSources
    Excluded <- MCExcluded
    Priority <- MCPriority
    Contents <- MCContents
    RootName <- MCRootName
    Modes = {"create", "append", "becomes"}
    Orders = {FALSE, TRUE}
    Sortings = {FALSE, TRUE}
    DuplicateCheck = TRUE
    BlockDevice = FALSE
    BigFile = 2
    SignalPhases = {"close"}
    MaxSignals = 2
    Kills = FALSE
PROPERTIES
    RestoresOriginal
CHECK_DEADLOCK FALSE

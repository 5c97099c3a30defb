SPECIFICATION MCSpec
CONSTANTS
    Byte = {"p", "d", ";", "0"}
    Semicolon = ";"
    Nul = "0"
    DefaultPath <- OpenedPath
    Paths <- AllPaths
CHECK_DEADLOCK FALSE
INVARIANTS NegativeKept

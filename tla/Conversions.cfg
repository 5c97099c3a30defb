SPECIFICATION MCSpec
CONSTANTS
    Byte = {"p", "d", ";", "0"}
    Semicolon = ";"
    Nul = "0"
    DefaultPath <- OpenedPath
    Paths <- AllPaths
INVARIANTS  NumbersComeBack ArgumentsPrepared MachineCreated
CHECK_DEADLOCK FALSE

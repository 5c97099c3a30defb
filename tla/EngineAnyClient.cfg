SPECIFICATION Spec
CONSTANTS
    Nil = "nil"
    Value <- MCValue
    Kind <- MCKind
    Key <- MCKey
    Field <- MCField
    Effects <- MCEffects
    Results <- AllResults
    FileResults <- MCFileResults
    Errors <- MCErrors
    Names <- AllNames
    Term <- MCTerm
    Pushed <- MCPushed
    Scratch <- MCScratch
    ArgLists <- MCArgLists
    NoTable = "none"
    Unreadable = Unreadable
    Improper = Improper
    Refused = "refused"
    Raises = "raises"
    Message = "str"
    Metatable = "meta"
    Garbage = Garbage
    MinStack = 4
    MaxDepth = 3
INVARIANTS TypeOK 
PROPERTIES ImplementsService
CHECK_DEADLOCK FALSE

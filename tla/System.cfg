SPECIFICATION SysFairSpec
CONSTANTS
    Proc = {p1, p2}
    Ref = {r1}
    Dirty = 2
    Sharing = "handover"
    NoProc = NoProc
    Op = {"run", "raise", "refused"}
    NoRequest = NoRequest
    MaxRequests = 4
 
PROPERTIES   OrphanCloses
CHECK_DEADLOCK FALSE

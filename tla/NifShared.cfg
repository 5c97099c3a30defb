SPECIFICATION Spec
CONSTANTS
    Proc = {p1, p2, p3}
    Ref = {r1, r2}
    Dirty = 2
    Sharing = "shared"
    NoProc = NoProc
SYMMETRY ProcSymmetry
INVARIANTS TypeOK NoUseAfterClose NoVMLeaks
PROPERTIES DestructorFindsVM
CHECK_DEADLOCK FALSE

SPECIFICATION Spec
CONSTANTS
    Parts = {"strong", "weak", "ephemeron", "thread", "two", "finalizer"}
    Main = Main
    r = r
    oa = oa
    ob = ob
    oc = oc
    od = od
    c1 = c1
    c2 = c2
    u1 = u1
    u2 = u2
    T = T
    ud = ud
    p = p
INVARIANTS NoDangling Colours UpvaluesCounted
PROPERTIES CycleEnds

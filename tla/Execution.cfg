SPECIFICATION MCSpec
CONSTANTS
    Parts = {"table", "walk", "intern", "shrink", "index", "assign", "event", "compare", "concat", "arithmetic", "loop", "deep", "threads", "stack"}
    Nil = Nil
    TString = {msg, s1, s2}
    Text = {"m", "x", "y", "z"}
    Hash <- HashNear
    Address <- Addresses
    MinSize = 1
    MaxSize = 4
    Msg = msg
    LUA_MINSTACK = 3
    EXTRA_STACK = 2
    LUAI_MAXSTACK = 13
    ERRORSTACKSIZE = 19
    TMSlots = 1
    FrameSizes = {1, 3}
    MaxFrames = 2
    MaxUpvalues = 2
    Asked = {1, 4}
    ka = ka
    kb = kb
    v = v
    objA = objA
    objB = objB
    t1 = t1
    t2 = t2
INVARIANTS TablesKept StringsInterned OperatorsMean CoroutinesKept 
PROPERTIES TableSteps  

SPECIFICATION MCSpec
CONSTANTS
    Parts = {"sort", "captures", "balance", "pack", "unpack", "utf8", "lex", "chunk", "circles", "inorder", "read", "handles", "lines", "buffer"}
    Value = {1, 2, 3, 4, 5}
    Arrays <- SortArrays
    Answers <- SortAnswers
    RANLIMIT = 4
    IMBALANCE = 1
    Character <- Letter
    Additions <- AddedStrings
    LUAL_BUFFERSIZE = 1
    SIZE = 8
    Blocks = {m1, m2}
    Boxes = {x1, x2}
    MaxFrames = 2
    NoBlock = NoBlock
    ERR = ERR
    NONE = NONE
    NoPath = NoPath
    Initb = Initb
    FAIL = FAIL
    m1 = m1
    m2 = m2
    x1 = x1
    x2 = x2
CHECK_DEADLOCK FALSE
INVARIANTS  SortsSafely BuffersKept ReadBack ModulesOnce FilesKept

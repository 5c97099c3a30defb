SPECIFICATION Spec
CONSTANTS
    MAXREGS = 250
    MAXINDEXRK = 1
    MAXARG_Bx = 1
    LFIELDS_PER_FLUSH = 2
    STACKSIZE = 40
    Steps = 300
    Programs <- MCPrograms
    Compile <- mainfunc
PROPERTIES AsWritten CompiledWell

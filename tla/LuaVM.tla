-------------------------------- MODULE LuaVM -------------------------------
(***************************************************************************)
(* The virtual machine (luaV_execute, lvm.c:787-1318), with the calls of    *)
(* ldo.c and the upvalues of lfunc.c, running what LuaParser compiled.     *)
(* There are no metatables; the functions in C are the ones of             *)
(* ExtResults, and what they are called with is kept in log.               *)
(***************************************************************************)
EXTENDS LuaParser, TLC

CONSTANTS
    Programs,   \* the programs to be run, as trees
    Compile(_), \* the compiler: mainfunc of LuaParser
    STACKSIZE,  \* bound: slots of the stack
    Steps       \* bound: instructions that a program runs

VARIABLES
    prog,       \* the program that is run, or <<>>
    compiled,   \* the FuncState of its main function
    stack, top, \* values of slots 0, ..; the first free one
    ci,         \* the calls: [func, base, pc, nresults, top]
    heap,       \* [ups, funs, tabs]: upvalues [at, v], at = -1 when closed;
                \* closures [p, ups]; tables
    log,        \* the arguments of the calls to C functions
    outcome,    \* [k, vs]: "run", "returned", "error", "rejected"
    steps

vars == <<prog, compiled, stack, top, ci, heap, log, outcome, steps>>

Globals == {"f", "none", "count"}
ExtResults(f, args) ==
    CASE f = "f" -> args
      [] f = "none" -> <<>>
      [] f = "count" -> IF Len(args) = 2 /\ Ordered(args[2], args[1]) /\ args[2][2] < args[1][2]
                        THEN <<Num(args[2][2] + 1)>> ELSE <<>>

fr == ci[Len(ci)]
fn == heap.funs[stack[fr.func][2]]
I == fn.p.code[fr.pc + 1]
R(i) == stack[fr.base + i]
RK(i) == IF ISK(i) THEN fn.p.k[i - BITRK + 1] ELSE R(i)
Upval(u) == IF heap.ups[u].at = -1 THEN heap.ups[u].v ELSE stack[heap.ups[u].at]
Get(t, key) == IF key \in DOMAIN heap.tabs[t[2]] THEN heap.tabs[t[2]][key] ELSE NIL
\* A table without what is nil.
WithEntry(t, key, v) ==
    IF v = NIL THEN [x \in DOMAIN t \ {key} |-> t[x]]
    ELSE [x \in DOMAIN t \cup {key} |-> IF x = key THEN v ELSE t[x]]

At(op) == outcome.k = "run" /\ steps < Steps /\ I.op = op
Go(pc) == ci' = [ci EXCEPT ![Len(ci)].pc = pc]
Quiet == steps' = steps + 1 /\ UNCHANGED <<prog, compiled>>
Put(a, v) ==
    /\ stack' = [stack EXCEPT ![fr.base + a] = v] /\ Go(fr.pc + 1) /\ Quiet
    /\ UNCHANGED <<top, heap, log, outcome>>
Raise ==
    /\ outcome' = [k |-> "error", vs |-> <<>>] /\ Quiet
    /\ UNCHANGED <<stack, top, ci, heap, log>>

luaF_close(h, stk, level) ==
    [h EXCEPT !.ups = [u \in DOMAIN @ |-> IF @[u].at >= level THEN [at |-> -1, v |-> stk[@[u].at]] ELSE @[u]]]

luaF_findupval(h, level) ==
    LET at == {u \in DOMAIN h.ups : h.ups[u].at = level}
    IN  IF at # {} THEN [h |-> h, u |-> CHOOSE u \in at : TRUE]
        ELSE [h |-> [h EXCEPT !.ups = Append(@, [at |-> level, v |-> NIL])], u |-> Len(h.ups) + 1]

\* The upvalues of a new closure: [h, us].
RECURSIVE Captured(_, _, _)
Captured(h, us, descs) ==
    IF descs = <<>> THEN [h |-> h, us |-> us]
    ELSE IF descs[1].instack
    THEN LET f == luaF_findupval(h, fr.base + descs[1].idx)
         IN  Captured(f.h, Append(us, f.u), Tail(descs))
    ELSE Captured(h, Append(us, fn.ups[descs[1].idx + 1]), Tail(descs))

-----------------------------------------------------------------------------
(* Calls (ldo.c) *)
\* moveresults: [stack, top].
moveresults(stk, res, values, wanted) ==
    LET n == IF wanted = MULTRET THEN Len(values) ELSE wanted
    IN  [stack |-> [i \in DOMAIN stk |->
                      IF i \notin res..res + n - 1 THEN stk[i]
                      ELSE IF i - res < Len(values) THEN values[i - res + 1] ELSE NIL],
         top |-> res + n]

\* Mutant: parameters without an argument keep what is in the slot.
Frame_stale(stk, tp, func, p) ==
    LET actual == tp - func - 1
        base == IF p.is_vararg THEN tp ELSE func + 1
    IN  [base |-> base,
         stack |-> [i \in DOMAIN stk |->
                      IF p.is_vararg /\ i - base \in 0..p.numparams - 1 /\ i - base < actual
                      THEN stk[func + 1 + i - base] ELSE stk[i]]]

\* The base of the frame of a Lua function, and the stack.
Frame(stk, tp, func, p) ==
    LET actual == tp - func - 1
        base == IF p.is_vararg THEN tp ELSE func + 1
    IN  [base |-> base,
         stack |-> [i \in DOMAIN stk |->
                      IF i - base \in 0..p.numparams - 1
                      THEN (IF i - base < actual THEN stk[func + 1 + i - base] ELSE NIL)
                      ELSE IF p.is_vararg /\ i - func - 1 \in 0..p.numparams - 1 THEN NIL
                      ELSE stk[i]]]

Results(values, wanted) == moveresults(stack, fr.func, values, wanted)

\* luaD_precall on what lies from func to tp, for a frame that calls it and
\* goes on at pc.
Precall(stk, func, tp, nresults, pc) ==
    LET v == stk[func]
        args == [i \in 1..tp - func - 1 |-> stk[func + i]]
        m == moveresults(stk, func, ExtResults(v[2], args), nresults)
        p == heap.funs[v[2]].p
        f == Frame(stk, tp, func, p)
        limit == f.base + p.maxstacksize
    IN  /\ Quiet /\ UNCHANGED heap
        /\ \/ /\ Is(v, 6)
              /\ stack' = m.stack /\ top' = IF nresults >= 0 THEN fr.top ELSE m.top
              /\ log' = Append(log, args) /\ Go(pc) /\ UNCHANGED outcome
           \/ /\ Is(v, 4) /\ limit <= STACKSIZE
              /\ stack' = f.stack /\ top' = limit
              /\ ci' = Append([ci EXCEPT ![Len(ci)].pc = pc],
                              [func |-> func, base |-> f.base, pc |-> 0, nresults |-> nresults, top |-> limit])
              /\ UNCHANGED <<log, outcome>>
           \/ /\ ~Is(v, 4) /\ ~Is(v, 6)
              /\ outcome' = [k |-> "error", vs |-> <<>>] /\ UNCHANGED <<stack, top, ci, log>>

\* The end of a call: its results go to where the function was.
Poscall(values, h) ==
    LET m == Results(values, fr.nresults)
        previous == ci[Len(ci) - 1]
    IN  /\ heap' = h /\ Quiet /\ UNCHANGED log
        /\ IF Len(ci) = 1
           THEN outcome' = [k |-> "returned", vs |-> values] /\ UNCHANGED <<stack, top, ci>>
           ELSE /\ stack' = m.stack /\ ci' = SubSeq(ci, 1, Len(ci) - 1)
                /\ top' = IF fr.nresults >= 0 THEN previous.top ELSE m.top
                /\ UNCHANGED outcome

-----------------------------------------------------------------------------
(* The instructions *)
OP_MOVE == At("MOVE") /\ Put(I.a, R(I.b))
OP_LOADK == At("LOADK") /\ Put(I.a, fn.p.k[I.b + 1])
OP_LOADKX ==
    /\ At("LOADKX")
    /\ stack' = [stack EXCEPT ![fr.base + I.a] = fn.p.k[fn.p.code[fr.pc + 2].b + 1]]
    /\ Go(fr.pc + 2) /\ Quiet /\ UNCHANGED <<top, heap, log, outcome>>
OP_LOADBOOL ==
    /\ At("LOADBOOL")
    /\ stack' = [stack EXCEPT ![fr.base + I.a] = <<I.b>>]
    /\ Go(fr.pc + 1 + I.c) /\ Quiet /\ UNCHANGED <<top, heap, log, outcome>>
OP_LOADNIL ==
    /\ At("LOADNIL")
    /\ stack' = [i \in DOMAIN stack |-> IF i - fr.base \in I.a..I.a + I.b THEN NIL ELSE stack[i]]
    /\ Go(fr.pc + 1) /\ Quiet /\ UNCHANGED <<top, heap, log, outcome>>
OP_GETUPVAL == At("GETUPVAL") /\ Put(I.a, Upval(fn.ups[I.b + 1]))
OP_SETUPVAL ==
    LET u == fn.ups[I.b + 1]
    IN  /\ At("SETUPVAL") /\ Go(fr.pc + 1) /\ Quiet /\ UNCHANGED <<top, log, outcome>>
        /\ IF heap.ups[u].at = -1
           THEN heap' = [heap EXCEPT !.ups[u].v = R(I.a)] /\ UNCHANGED stack
           ELSE stack' = [stack EXCEPT ![heap.ups[u].at] = R(I.a)] /\ UNCHANGED heap

Load(t, key) == IF Is(t, 3) THEN Put(I.a, Get(t, key)) ELSE Raise
OP_GETTABUP == At("GETTABUP") /\ Load(Upval(fn.ups[I.b + 1]), RK(I.c))
OP_GETTABLE == At("GETTABLE") /\ Load(R(I.b), RK(I.c))
Store(t, key, v) ==
    IF ~Is(t, 3) \/ key = NIL THEN Raise
    ELSE /\ heap' = [heap EXCEPT !.tabs[t[2]] = WithEntry(@, key, v)]
         /\ Go(fr.pc + 1) /\ Quiet /\ UNCHANGED <<stack, top, log, outcome>>
OP_SETTABUP == At("SETTABUP") /\ Store(Upval(fn.ups[I.a + 1]), RK(I.b), RK(I.c))
OP_SETTABLE == At("SETTABLE") /\ Store(R(I.a), RK(I.b), RK(I.c))
OP_NEWTABLE ==
    /\ At("NEWTABLE")
    /\ heap' = [heap EXCEPT !.tabs = Append(@, <<>>)]
    /\ stack' = [stack EXCEPT ![fr.base + I.a] = Tab(Len(heap.tabs) + 1)]
    /\ Go(fr.pc + 1) /\ Quiet /\ UNCHANGED <<top, log, outcome>>
OP_SELF ==
    /\ At("SELF")
    /\ IF ~Is(R(I.b), 3) THEN Raise
       ELSE /\ stack' = [stack EXCEPT ![fr.base + I.a + 1] = R(I.b), ![fr.base + I.a] = Get(R(I.b), RK(I.c))]
            /\ Go(fr.pc + 1) /\ Quiet /\ UNCHANGED <<top, heap, log, outcome>>

OP_ADD == \* and OP_SUB, OP_IDIV
    /\ \E op \in BinaryValueOps : At(op)
    /\ IF Defined(I.op, RK(I.b), RK(I.c)) THEN Put(I.a, Num(Arith(I.op, RK(I.b)[2], RK(I.c)[2]))) ELSE Raise
OP_UNM == At("UNM") /\ IF Is(R(I.b), 2) THEN Put(I.a, Num(-R(I.b)[2])) ELSE Raise
OP_NOT == At("NOT") /\ Put(I.a, Bool(IsFalse(R(I.b))))
RECURSIVE Concat(_, _)
Concat(b, c) == IF b = c THEN R(c) ELSE Join(R(b), Concat(b + 1, c))
OP_CONCAT ==
    /\ At("CONCAT")
    /\ IF \A i \in I.b..I.c : Joinable(R(i)) THEN Put(I.a, Concat(I.b, I.c)) ELSE Raise

\* A jump; one that leaves blocks closes their upvalues.
Jump(J, pc) ==
    /\ heap' = IF J.a # 0 THEN luaF_close(heap, stack, fr.base + J.a - 1) ELSE heap
    /\ Go(pc + 1 + J.b)
\* The jump behind a test, or not.
Branch(taken) ==
    /\ Quiet /\ UNCHANGED <<top, log, outcome>>
    /\ IF taken THEN Jump(fn.p.code[fr.pc + 2], fr.pc + 1) ELSE Go(fr.pc + 2) /\ UNCHANGED heap
OP_JMP == At("JMP") /\ Jump(I, fr.pc) /\ Quiet /\ UNCHANGED <<stack, top, log, outcome>>
OP_EQ == At("EQ") /\ Branch((RK(I.b) = RK(I.c)) = (I.a = 1)) /\ UNCHANGED stack
Compare(less) ==
    IF ~Ordered(RK(I.b), RK(I.c)) THEN Raise ELSE Branch(less = (I.a = 1)) /\ UNCHANGED stack
OP_LT == At("LT") /\ Compare(Ordered(RK(I.b), RK(I.c)) /\ RK(I.b)[2] < RK(I.c)[2])
OP_LE == At("LE") /\ Compare(Ordered(RK(I.b), RK(I.c)) /\ RK(I.b)[2] <= RK(I.c)[2])
OP_TEST == At("TEST") /\ Branch(IsFalse(R(I.a)) # (I.c = 1)) /\ UNCHANGED stack
OP_TESTSET ==
    LET taken == IsFalse(R(I.b)) # (I.c = 1)
    IN  /\ At("TESTSET") /\ Branch(taken)
        /\ stack' = IF taken THEN [stack EXCEPT ![fr.base + I.a] = R(I.b)] ELSE stack

OP_CALL ==
    /\ At("CALL")
    /\ Precall(stack, fr.base + I.a, IF I.b # 0 THEN fr.base + I.a + I.b ELSE top, I.c - 1, fr.pc + 1)

\* A call in the place of the frame that makes it.
OP_TAILCALL ==
    LET func == fr.base + I.a
        tp == IF I.b # 0 THEN func + I.b ELSE top
        v == stack[func]
        p == heap.funs[v[2]].p
        f == Frame(stack, tp, func, p)
        h == IF fn.p.p # <<>> THEN luaF_close(heap, stack, fr.base) ELSE heap
        lim == f.base + p.numparams - 1
        base == fr.func + (f.base - func)
    IN  /\ At("TAILCALL")
        /\ IF ~Is(v, 4) THEN Precall(stack, func, tp, MULTRET, fr.pc + 1)
           ELSE /\ f.base + p.maxstacksize <= STACKSIZE
                /\ stack' = [i \in DOMAIN stack |->
                               IF i \in fr.func..fr.func + (lim - func) THEN f.stack[i + (func - fr.func)]
                               ELSE f.stack[i]]
                /\ ci' = [ci EXCEPT ![Len(ci)] = [@ EXCEPT !.base = base, !.pc = 0, !.top = base + p.maxstacksize]]
                /\ top' = base + p.maxstacksize
                /\ heap' = h /\ Quiet /\ UNCHANGED <<log, outcome>>

OP_RETURN ==
    LET n == IF I.b # 0 THEN I.b - 1 ELSE top - (fr.base + I.a)
    IN  /\ At("RETURN")
        /\ Poscall([i \in 1..n |-> R(I.a + i - 1)],
                   IF fn.p.p # <<>> THEN luaF_close(heap, stack, fr.base) ELSE heap)

OP_FORPREP ==
    /\ At("FORPREP")
    /\ IF ~(Is(R(I.a), 2) /\ Is(R(I.a + 1), 2) /\ Is(R(I.a + 2), 2)) THEN Raise
       ELSE /\ stack' = [stack EXCEPT ![fr.base + I.a] = Num(@[2] - R(I.a + 2)[2])]
            /\ Go(fr.pc + 1 + I.b) /\ Quiet /\ UNCHANGED <<top, heap, log, outcome>>
OP_FORLOOP ==
    LET step == R(I.a + 2)[2]
        idx == R(I.a)[2] + step
        limit == R(I.a + 1)[2]
    IN  /\ At("FORLOOP")
        /\ Quiet /\ UNCHANGED <<top, heap, log, outcome>>
        /\ IF (step > 0 /\ idx <= limit) \/ (step <= 0 /\ limit <= idx)
           THEN /\ stack' = [stack EXCEPT ![fr.base + I.a] = Num(idx), ![fr.base + I.a + 3] = Num(idx)]
                /\ Go(fr.pc + 1 + I.b)
           ELSE Go(fr.pc + 1) /\ UNCHANGED stack
OP_TFORCALL ==
    LET cb == fr.base + I.a + 3
    IN  /\ At("TFORCALL")
        /\ Precall([stack EXCEPT ![cb] = R(I.a), ![cb + 1] = R(I.a + 1), ![cb + 2] = R(I.a + 2)],
                   cb, cb + 3, I.c, fr.pc + 1)
OP_TFORLOOP ==
    /\ At("TFORLOOP")
    /\ Quiet /\ UNCHANGED <<top, heap, log, outcome>>
    /\ IF R(I.a + 1) = NIL THEN Go(fr.pc + 1) /\ UNCHANGED stack
       ELSE stack' = [stack EXCEPT ![fr.base + I.a] = R(I.a + 1)] /\ Go(fr.pc + 1 + I.b)
OP_SETLIST ==
    LET n == IF I.b = 0 THEN top - (fr.base + I.a) - 1 ELSE I.b
        before == (I.c - 1) * LFIELDS_PER_FLUSH
        t == R(I.a)[2]
        items == [x \in {Num(before + i) : i \in {j \in 1..n : R(I.a + j) # NIL}} |-> R(I.a + x[2] - before)]
        covered == {Num(before + i) : i \in 1..n}
    IN  /\ At("SETLIST")
        /\ heap' = [heap EXCEPT !.tabs[t] = items @@ [x \in DOMAIN @ \ covered |-> @[x]]]
        /\ top' = fr.top
        /\ Go(fr.pc + 1) /\ Quiet /\ UNCHANGED <<stack, log, outcome>>
OP_CLOSURE ==
    LET p == fn.p.p[I.b + 1]
        c == Captured(heap, <<>>, p.upvalues)
    IN  /\ At("CLOSURE")
        /\ heap' = [c.h EXCEPT !.funs = Append(@, [p |-> p, ups |-> c.us])]
        /\ stack' = [stack EXCEPT ![fr.base + I.a] = Fun(Len(heap.funs) + 1)]
        /\ Go(fr.pc + 1) /\ Quiet /\ UNCHANGED <<top, log, outcome>>
OP_VARARG ==
    LET n0 == fr.base - fr.func - fn.p.numparams - 1
        n == IF n0 < 0 THEN 0 ELSE n0
        b == IF I.b = 0 THEN n ELSE I.b - 1
        ra == fr.base + I.a
    IN  /\ At("VARARG") /\ ra + b <= STACKSIZE
        /\ stack' = [i \in DOMAIN stack |->
                       IF i - ra \notin 0..b - 1 THEN stack[i]
                       ELSE IF i - ra < n THEN stack[fr.base - n + (i - ra)] ELSE NIL]
        /\ top' = IF I.b = 0 THEN ra + n ELSE top
        /\ Go(fr.pc + 1) /\ Quiet /\ UNCHANGED <<heap, log, outcome>>

-----------------------------------------------------------------------------
NoHeap == [ups |-> <<>>, funs |-> <<>>, tabs |-> <<>>]
NoStack == [i \in 0..STACKSIZE - 1 |-> NIL]
Args == <<Num(7), Num(8)>> \* of the main function

Init ==
    /\ prog = <<>> /\ compiled = NewFuncState(<<>>, TRUE) /\ stack = NoStack /\ top = 0 /\ ci = <<>>
    /\ heap = NoHeap /\ log = <<>> /\ outcome = [k |-> "none", vs |-> <<>>] /\ steps = 0

\* A program is compiled and called; its upvalue is the table of globals.
Load_(b) ==
    LET fs == Compile(b)
        p == Proto(fs, 0)
        f == Frame([NoStack EXCEPT ![0] = Fun(1), ![1] = Args[1], ![2] = Args[2]], 3, 0, p)
    IN  /\ prog' = b /\ compiled' = fs /\ log' = <<>> /\ steps' = 0
        /\ outcome' = [k |-> IF fs.err THEN "rejected" ELSE "run", vs |-> <<>>]
        /\ stack' = f.stack /\ top' = f.base + p.maxstacksize
        /\ ci' = <<[func |-> 0, base |-> f.base, pc |-> 0, nresults |-> MULTRET, top |-> f.base + p.maxstacksize]>>
        /\ heap' = [ups |-> <<[at |-> -1, v |-> Tab(1)]>>, funs |-> <<[p |-> p, ups |-> <<1>>]>>,
                    tabs |-> <<[x \in {Str(g) : g \in Globals} |-> Ext(x[2])]>>]

Unload ==
    /\ outcome.k \in {"returned", "error", "rejected"} \/ steps = Steps
    /\ prog' = <<>> /\ compiled' = NewFuncState(<<>>, TRUE) /\ stack' = NoStack /\ top' = 0 /\ ci' = <<>>
    /\ heap' = NoHeap /\ log' = <<>> /\ outcome' = [k |-> "none", vs |-> <<>>] /\ steps' = 0

Execute ==
    \/ OP_MOVE \/ OP_LOADK \/ OP_LOADKX \/ OP_LOADBOOL \/ OP_LOADNIL \/ OP_GETUPVAL \/ OP_SETUPVAL
    \/ OP_GETTABUP \/ OP_GETTABLE \/ OP_SETTABUP \/ OP_SETTABLE \/ OP_NEWTABLE \/ OP_SELF \/ OP_ADD
    \/ OP_UNM \/ OP_NOT \/ OP_CONCAT \/ OP_JMP \/ OP_EQ \/ OP_LT \/ OP_LE \/ OP_TEST \/ OP_TESTSET
    \/ OP_CALL \/ OP_TAILCALL \/ OP_RETURN \/ OP_FORPREP \/ OP_FORLOOP \/ OP_TFORCALL \/ OP_TFORLOOP
    \/ OP_SETLIST \/ OP_CLOSURE \/ OP_VARARG

Next == (prog = <<>> /\ \E b \in Programs : Load_(b)) \/ Execute \/ Unload
Spec == Init /\ [][Next]_vars
=============================================================================

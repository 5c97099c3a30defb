---------------------------- MODULE LuaUpvalues ----------------------------
(***************************************************************************)
(* Variables that closures share (lfunc.c), and the collector: upvalues    *)
(* are counted, not collected.  An open one lives in the stack of a        *)
(* thread, which may die before the closures that use it; then the value   *)
(* it has must not (remarkupvals, lgc.c), nor may it keep the thread.      *)
(* LuaGC has the collector for other objects.                              *)
(***************************************************************************)
EXTENDS Integers, FiniteSets, FiniteSetsExt

CONSTANTS
    Closures,  \* of one function p, with one upvalue each
    Coroutines,
    Objs,      \* userdata with a user value and a finalizer
    Upvals,    \* bound: upvalues at a time
    Main, p,   \* the main thread; the prototype, a constant of the main function
    Size       \* bound: the stack of each thread

VARIABLES
    g,      \* the collector: state, white, colours, gray objects, touched, twups
    stack,  \* of each thread
    upv,    \* [th, i, v, ref]: open at th, i, or closed with v
    up,     \* the upvalue of a closure
    val,    \* the user value
    cache   \* the closure that p has cached

vars == <<g, stack, upv, up, val, cache>>

Nil == "nil"
Threads == Coroutines \cup {Main}
Coll == Closures \cup Coroutines \cup Objs
Slots(th) == 1 .. Size[th]
Marked == Coll \cup {Main, p}

Free == [th |-> "free", i |-> 0, v |-> Nil, ref |-> 0]
upisopen(us, u) == us[u].th \in Threads
Open(us, th) == {u \in Upvals : us[u].th = th}
ValueOf(u) == IF upisopen(upv, u) THEN stack[upv[u].th][upv[u].i] ELSE upv[u].v

iswhite(c, o) == c.color[o] \in {"w0", "w1"}
otherwhite(c) == IF c.white = "w0" THEN "w1" ELSE "w0"
isdead(c, o) == c.color[o] = otherwhite(c)
keepinvariant(c) == c.state \in {"propagate", "atomic"}

-----------------------------------------------------------------------------
(***************************************************************************)
(* Marking.  Gray objects are taken in any order.                          *)
(***************************************************************************)
RECURSIVE markvalue(_, _)
markvalue(c, o) ==
    IF o = Nil THEN c
    ELSE IF ~iswhite(c, o) THEN c
    ELSE IF o \in Objs THEN markvalue([c EXCEPT !.color[o] = "black"], val[o])
    ELSE [c EXCEPT !.color[o] = "gray", !.gray = @ \cup {o}]
MarkAll(c, os) == FoldSet(LAMBDA o, d : markvalue(d, o), c, os)

traverseLclosure(c, cl) ==
    IF upisopen(upv, up[cl]) /\ c.state # "insideatomic" THEN [c EXCEPT !.touched = @ \cup {up[cl]}]
    ELSE markvalue(c, ValueOf(up[cl]))

traversethread(c, th) ==
    LET d == MarkAll(c, {stack[th][i] : i \in Slots(th)}) IN
    IF c.state = "insideatomic"
    THEN IF Open(upv, th) = {} THEN d ELSE [d EXCEPT !.twups = @ \cup {th}]
    ELSE [d EXCEPT !.grayagain = @ \cup {th}]

\* A closure marks its function; p itself is marked by the main one's.
propagatemark(c, o) ==
    LET d == [c EXCEPT !.gray = @ \ {o}] IN
    IF o \in Threads THEN traversethread(d, o)
    ELSE LET e == [d EXCEPT !.color[o] = "black"] IN
         IF o = p THEN e ELSE traverseLclosure(markvalue(e, p), o)

\* traverseproto: p forgets a closure that is white.
CacheAfter(c, o) == IF o = p /\ cache # Nil THEN IF iswhite(c, cache) THEN Nil ELSE cache ELSE cache

RECURSIVE propagateall(_)
propagateall(c) == IF c.gray = {} THEN c ELSE propagateall(propagatemark(c, CHOOSE o \in c.gray : TRUE))

remarkupvals(c) ==
    FoldSet(LAMBDA th, d :
              IF d.color[th] = "gray" /\ Open(upv, th) # {} THEN d
              ELSE LET remarked == Open(upv, th) \cap d.touched IN
                   MarkAll([d EXCEPT !.twups = @ \ {th}, !.touched = @ \ remarked],
                           {ValueOf(u) : u \in remarked}),
            c, c.twups)

separatetobefnz(c) ==
    LET due == {o \in c.fin : iswhite(c, o)} IN
    [c EXCEPT !.fin = @ \ due, !.tobefnz = @ \cup due]

AtomicMark(c) ==
    LET b == markvalue([c EXCEPT !.state = "insideatomic", !.grayagain = {}], Main)
        d == propagateall(remarkupvals(b))
        e == propagateall([d EXCEPT !.gray = c.grayagain])
        s == separatetobefnz(e)
    IN  propagateall(MarkAll(s, s.tobefnz))

-----------------------------------------------------------------------------
(***************************************************************************)
(* Upvalues.  Closing them gives upvalues and a collector. *)
(***************************************************************************)
luaC_upvalbarrier(c, v) == IF keepinvariant(c) THEN markvalue(c, v) ELSE c

Closed(us, c, u) ==
    LET v == stack[us[u].th][us[u].i]
        d == [c EXCEPT !.touched = @ \ {u}]
    IN  IF us[u].ref = 0 THEN [us |-> [us EXCEPT ![u] = Free], c |-> d]
        ELSE [us |-> [us EXCEPT ![u] = [th |-> "closed", i |-> 0, v |-> v, ref |-> @.ref]],
              c |-> luaC_upvalbarrier(d, v)]

luaF_close(th, level) ==
    FoldSet(LAMBDA u, acc : Closed(acc.us, acc.c, u), [us |-> upv, c |-> g],
            {u \in Open(upv, th) : upv[u].i >= level})

\* Mutant: a new upvalue for each closure.
luaF_findupval_new(th, i) ==
    LET free == {u \in Upvals : upv[u] = Free} IN IF free = {} THEN {} ELSE {CHOOSE u \in free : TRUE}

\* The open upvalue of a slot, or a new one.
luaF_findupval(th, i) ==
    LET found == {u \in Open(upv, th) : upv[u].i = i}
        free == {u \in Upvals : upv[u] = Free}
    IN  IF found # {} THEN found ELSE IF free = {} THEN {} ELSE {CHOOSE u \in free : TRUE}

luaC_upvdeccount(us, u) ==
    [us EXCEPT ![u] = IF @.ref = 1 /\ ~upisopen(us, u) THEN Free ELSE [@ EXCEPT !.ref = @ - 1]]

Collector(state) ==
    [state |-> state, white |-> "w0", color |-> [o \in Marked |-> "w0"], gray |-> {}, grayagain |-> {},
     touched |-> {}, twups |-> {}, allgc |-> {}, fin |-> {}, tobefnz |-> {}, todo |-> {}]
Init ==
    /\ g = Collector("pause")
    /\ stack = [th \in Threads |-> [i \in Slots(th) |-> Nil]]
    /\ upv = [u \in Upvals |-> Free]
    /\ up = [cl \in Closures |-> Nil] /\ val = [o \in Objs |-> Nil] /\ cache = Nil

-----------------------------------------------------------------------------
(***************************************************************************)
(* singlestep                                                              *)
(***************************************************************************)
Start ==
    /\ g.state = "pause"
    /\ g' = MarkAll([g EXCEPT !.state = "propagate"], {Main, p} \cup g.tobefnz)
    /\ UNCHANGED <<stack, upv, up, val, cache>>

Propagate ==
    /\ g.state = "propagate"
    /\ \E o \in g.gray :
         LET c == propagatemark(g, o) IN
         /\ g' = [c EXCEPT !.state = IF c.gray = {} THEN "atomic" ELSE @]
         /\ cache' = CacheAfter(g, o)
    /\ UNCHANGED <<stack, upv, up, val>>

Atomic ==
    /\ g.state = "atomic"
    /\ LET c == AtomicMark(propagateall(g)) IN
       g' = [c EXCEPT !.state = "sweep", !.white = otherwhite(c),
                      !.gray = {}, !.grayagain = {}, !.todo = g.allgc \cup {p}]
    /\ UNCHANGED <<stack, upv, up, val, cache>>

\* freeobj
Frees(o) ==
    LET closed == luaF_close(o, 1) IN
    /\ g' = [(IF o \in Coroutines THEN closed.c ELSE g)
               EXCEPT !.allgc = @ \ {o}, !.todo = @ \ {o}, !.color[o] = "w0"]
    /\ upv' = IF o \in Coroutines THEN closed.us
              ELSE IF o \in Closures THEN luaC_upvdeccount(upv, up[o]) ELSE upv
    /\ stack' = IF o \in Coroutines THEN [stack EXCEPT ![o] = [i \in Slots(o) |-> Nil]] ELSE stack
    /\ up' = IF o \in Closures THEN [up EXCEPT ![o] = Nil] ELSE up
    /\ val' = IF o \in Objs THEN [val EXCEPT ![o] = Nil] ELSE val
    /\ UNCHANGED cache

\* sweeplist, in any order
Sweeps(o) ==
    /\ g.state = "sweep" /\ o \in g.todo
    /\ IF isdead(g, o) THEN Frees(o)
       ELSE /\ g' = [g EXCEPT !.todo = @ \ {o}, !.color[o] = g.white]
            /\ UNCHANGED <<stack, upv, up, val, cache>>

SweepEnd ==
    /\ g.state = "sweep" /\ g.todo = {}
    /\ g' = [g EXCEPT !.state = "pause", !.color[Main] = g.white]
    /\ UNCHANGED <<stack, upv, up, val, cache>>

\* GCTM: the finalizer finds the object on the stack.
GCTM ==
    \E o \in g.tobefnz, s \in Slots(Main) :
      /\ stack[Main][s] = Nil /\ g.state # "atomic"
      /\ stack' = [stack EXCEPT ![Main][s] = o]
      /\ g' = [g EXCEPT !.tobefnz = @ \ {o}]
      /\ UNCHANGED <<upv, up, val, cache>>

-----------------------------------------------------------------------------
(***************************************************************************)
(* The program: the main thread, and coroutines that it holds and resumes. *)
(***************************************************************************)
On(th) == {stack[th][i] : i \in Slots(th)}
Runs(th) == th = Main \/ th \in On(Main)

\* luaC_newobj
Made(o) == [g EXCEPT !.allgc = @ \cup {o}, !.color[o] = g.white]

Drops(th, s) ==
    /\ Runs(th)
    /\ stack' = [stack EXCEPT ![th][s] = Nil]
    /\ UNCHANGED <<g, upv, up, val, cache>>

\* lua_xmove, by resume and yield
Xmoves(th, s, t) ==
    /\ Runs(th) /\ th # Main
    /\ \/ stack' = [stack EXCEPT ![th][t] = stack[Main][s]]
       \/ stack' = [stack EXCEPT ![Main][s] = stack[th][t]]
    /\ UNCHANGED <<g, upv, up, val, cache>>

lua_newthread(th, s, co) ==
    /\ Runs(th) /\ co \notin g.allgc
    /\ g' = Made(co) /\ stack' = [stack EXCEPT ![th][s] = co]
    /\ UNCHANGED <<upv, up, val, cache>>

NewUdata(th, s, o) ==
    /\ Runs(th) /\ o \notin g.allgc
    /\ g' = [Made(o) EXCEPT !.fin = @ \cup {o}] /\ stack' = [stack EXCEPT ![th][s] = o]
    /\ \E v \in On(th) : val' = [val EXCEPT ![o] = v]
    /\ UNCHANGED <<upv, up, cache>>

GetUservalue(th, s) ==
    /\ Runs(th)
    /\ \E o \in On(th) \cap Objs : stack' = [stack EXCEPT ![th][s] = val[o]]
    /\ UNCHANGED <<g, upv, up, val, cache>>

\* Mutant: a closure is cached whatever the collector has seen.
Cacheable_any == TRUE
Cacheable == g.color[p] # "black"

getcached(u) ==
    IF cache = Nil THEN {} ELSE IF up[cache] = u THEN {cache} ELSE {}

\* OP_CLOSURE: of the variable in slot i, or of the one its function has
OP_CLOSURE(th, s, us, th0, i) ==
    \E u \in us :
      IF getcached(u) # {}
      THEN stack' = [stack EXCEPT ![th][s] = cache] /\ UNCHANGED <<g, upv, up, val, cache>>
      ELSE LET free == Closures \ g.allgc
               cl == CHOOSE k \in free : TRUE
               new == upv[u] = Free
           IN  /\ free # {}
               /\ stack' = [stack EXCEPT ![th][s] = cl]
               /\ up' = [up EXCEPT ![cl] = u]
               /\ upv' = [upv EXCEPT ![u] = IF new THEN [th |-> th0, i |-> i, v |-> Nil, ref |-> 1]
                                            ELSE [@ EXCEPT !.ref = @ + 1]]
               /\ g' = IF new THEN [Made(cl) EXCEPT !.touched = @ \cup {u}, !.twups = @ \cup {th0}] ELSE Made(cl)
               /\ cache' = IF Cacheable THEN cl ELSE cache
               /\ UNCHANGED val

ClosureOf(th, s, i) == Runs(th) /\ OP_CLOSURE(th, s, luaF_findupval(th, i), th, i)
ClosureIn(th, s) ==
    Runs(th) /\ \E cl \in On(th) \cap Closures : OP_CLOSURE(th, s, {up[cl]}, th, s)

OP_GETUPVAL(th, s) ==
    /\ Runs(th)
    /\ \E cl \in On(th) \cap Closures : stack' = [stack EXCEPT ![th][s] = ValueOf(up[cl])]
    /\ UNCHANGED <<g, upv, up, val, cache>>

OP_SETUPVAL(th, s) ==
    /\ Runs(th)
    /\ \E cl \in On(th) \cap Closures :
         LET u == up[cl]
             v == stack[th][s]
         IN  IF upisopen(upv, u)
             THEN stack' = [stack EXCEPT ![upv[u].th][upv[u].i] = v] /\ UNCHANGED <<g, upv>>
             ELSE upv' = [upv EXCEPT ![u].v = v] /\ g' = luaC_upvalbarrier(g, v) /\ UNCHANGED stack
    /\ UNCHANGED <<up, val, cache>>

\* A block or a function ends.
Leaves(th, level) ==
    /\ Runs(th)
    /\ LET closed == luaF_close(th, level) IN upv' = closed.us /\ g' = closed.c
    /\ stack' = [stack EXCEPT ![th] = [i \in Slots(th) |-> IF i < level THEN @[i] ELSE Nil]]
    /\ UNCHANGED <<up, val, cache>>

SingleStep == Start \/ Propagate \/ Atomic \/ SweepEnd \/ \E o \in Coll \cup {p} : Sweeps(o)
Program ==
    \E th \in Threads : \E s \in Slots(th) :
      \/ Drops(th, s) \/ GetUservalue(th, s) \/ ClosureIn(th, s)
      \/ OP_GETUPVAL(th, s) \/ OP_SETUPVAL(th, s) \/ Leaves(th, s)
      \/ \E i \in Slots(th) : ClosureOf(th, s, i)
      \/ \E i \in Slots(Main) : Xmoves(th, i, s)
      \/ \E co \in Coroutines : lua_newthread(th, s, co)
      \/ \E o \in Objs : NewUdata(th, s, o)

Next == SingleStep \/ GCTM \/ Program
Spec == Init /\ [][Next]_vars

-----------------------------------------------------------------------------
(***************************************************************************)
(* What the program can get at: variables of threads it cannot, too.       *)
(***************************************************************************)
Refs(o) ==
    (IF o \notin g.allgc \cup {Main} THEN {} ELSE IF o \in Threads THEN On(o) ELSE IF o \in Closures THEN {ValueOf(up[o])}
     ELSE {val[o]}) \ {Nil}
Follow(R) == R \cup UNION {Refs(o) : o \in R}
Reach(R) ==
    LET reach[n \in 0 .. Cardinality(Coll)] == IF n = 0 THEN R ELSE Follow(reach[n - 1])
    IN  reach[Cardinality(Coll)]

(***************************************************************************)
(* Whatever the program or a finalizer can get at is there: also the value *)
(* of a variable in the stack of a thread that is dead or freed, and a     *)
(* closure that p will give out again.                                     *)
(***************************************************************************)
NoDangling ==
    /\ (Reach({Main} \cup g.tobefnz) \ {Main}) \subseteq g.allgc
    /\ cache # Nil => cache \in g.allgc /\ ~(g.state = "sweep" /\ isdead(g, cache) /\ cache \in g.todo)

(***************************************************************************)
(* An upvalue is there as long as a closure or its variable needs it; what *)
(* is open lies in the stack of a thread that is not freed, no two at a    *)
(* place; and threads with open ones are found by remarkupvals.            *)
(***************************************************************************)
UpvaluesCounted ==
    /\ \A u \in Upvals :
         /\ upv[u].ref = Cardinality({cl \in g.allgc \cap Closures : up[cl] = u})
         /\ upv[u] # Free => upv[u].ref > 0 \/ upisopen(upv, u)
         /\ upisopen(upv, u) => upv[u].th \in g.allgc \cup {Main}
    /\ \A th \in Threads : \A u, w \in Open(upv, th) : upv[u].i = upv[w].i => u = w
    /\ g.twups \subseteq g.allgc \cup {Main}
    /\ \A th \in (g.allgc \cap Coroutines) \cup {Main} :
         Open(upv, th) # {} /\ th \notin g.twups => g.state = "sweep" /\ isdead(g, th)

(***************************************************************************)
(* While marking, no black closure has a closed variable with a white      *)
(* value, although nobody knows which closures a variable has.             *)
(***************************************************************************)
TriColour ==
    keepinvariant(g) =>
        \A cl \in g.allgc \cap Closures :
          g.color[cl] = "black" /\ ~upisopen(upv, up[cl]) /\ upv[up[cl]].v # Nil => ~iswhite(g, upv[up[cl]].v)

-----------------------------------------------------------------------------
(* Fairness: the program goes on allocating, and pays with steps of the    *)
(* collector (luaC_condGC).                                                *)
FairSpec == Spec /\ []<><<SingleStep>>_vars

(***************************************************************************)
(* Dead threads with closures over their own variables are freed in the    *)
(* end, and all they hold, unless p gives a closure out again.             *)
(***************************************************************************)
Garbage(o) == o \in g.allgc /\ o \notin Reach({Main} \cup g.fin \cup g.tobefnz)
GarbageIsFreed == \A o \in Coll : Garbage(o) ~> ~Garbage(o)
=============================================================================

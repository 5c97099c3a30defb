---------------------------- MODULE LuaStackSpace ----------------------------
(***************************************************************************)
(* The memory of a Lua stack (ldo.c:158-245): it moves when it grows, when *)
(* the collector shrinks it and when an error is caught, and every pointer *)
(* into it must move with it; above its limit there is room for the        *)
(* handler of the overflow only.  A pointer is an offset that knows        *)
(* whether it points into the memory as it is now; what the slots hold is  *)
(* left out.  At the end: the proof that no pointer is left behind and no  *)
(* slot beyond the memory is written, for all sizes.                       *)
(***************************************************************************)
EXTENDS Integers, Sequences, FiniteSets, WellFoundedInduction, TLAPS

CONSTANTS
    LUA_MINSTACK, EXTRA_STACK, LUAI_MAXSTACK, ERRORSTACKSIZE,
    TMSlots,     \* what a call of a metamethod pushes: function and operands
    FrameSizes,  \* maxstacksize of Lua functions
    MaxFrames,   \* bound: active functions; a handler of errors that is called
                 \* deeper is an error itself
    MaxUpvalues, \* bound: open upvalues
    Asked        \* what a C function asks lua_checkstack for

Sizes ==
    /\ LUA_MINSTACK \in Nat /\ EXTRA_STACK \in Nat /\ LUAI_MAXSTACK \in Nat /\ ERRORSTACKSIZE \in Nat
    /\ 2 * LUA_MINSTACK >= 1 + LUA_MINSTACK + EXTRA_STACK
    /\ TMSlots \in 1..EXTRA_STACK - 1
    /\ 2 * LUA_MINSTACK <= LUAI_MAXSTACK /\ LUAI_MAXSTACK < ERRORSTACKSIZE
    /\ FrameSizes \subseteq Nat \ {0} /\ Asked \subseteq Nat /\ MaxFrames \in Nat

VARIABLES
    stack,    \* [size, top, cis, openupval; outside: a slot beyond the memory
              \* has been written; err: the error that a function of the core
              \* has met; p: what it has saved]
    pcalls,   \* protected calls: their function's depth, old_top and errfunc
    errfunc,  \* is there a message handler?
    thrown,   \* "ok": no error; "overflow": its message is to be raised;
              \* "errrun", "errerr": on the way to the protected call
    crowded   \* since the last overflow every error was caught by a function
              \* that leaves no room below the limit

spaceVars == <<stack, pcalls, errfunc, thrown, crowded>>

Ptr(k) == [at |-> k, live |-> TRUE]
Wild(p) == [p EXCEPT !.live = FALSE]
Up(p, n) == [p EXCEPT !.at = @ + n]
stack_last(s) == s.size - EXTRA_STACK
Depth(s) == Len(s.cis)
ci(s) == s.cis[Depth(s)]
Put(s, k) == [s EXCEPT !.outside = @ \/ k >= s.size]
Push(s, n) == [Put(s, s.top.at + n - 1) EXCEPT !.top = Up(@, n)]

-----------------------------------------------------------------------------
\* The memory goes elsewhere.
MovedFrame(c) ==
    [c EXCEPT !.func = Wild(@), !.top = Wild(@), !.base = Wild(@), !.local = Wild(@)]
Moved(s) ==
    [s EXCEPT !.top = Wild(@), !.p = Wild(@), !.openupval = {Wild(u) : u \in @},
              !.cis = [k \in 1..Len(@) |-> MovedFrame(@[k])]]

\* Mutant: the bases of the Lua functions stay.
CorrectFrame_base(c) == [c EXCEPT !.func = Ptr(@.at), !.top = Ptr(@.at)]

\* Only Lua functions have a base; luaV_execute's copy of it stays wrong.
CorrectFrame(c) ==
    [c EXCEPT !.func = Ptr(@.at), !.top = Ptr(@.at), !.base = IF c.lua THEN Ptr(@.at) ELSE @]
correctstack(s) ==
    [s EXCEPT !.top = Ptr(@.at), !.openupval = {Ptr(u.at) : u \in @},
              !.cis = [k \in 1..Len(@) |-> CorrectFrame(@[k])]]

luaD_reallocstack(s, newsize) == [correctstack(Moved(s)) EXCEPT !.size = newsize]

luaD_growstack(s, n) ==
    LET needed == s.top.at + n + EXTRA_STACK
        double == IF 2 * s.size > LUAI_MAXSTACK THEN LUAI_MAXSTACK ELSE 2 * s.size
        newsize == IF double < needed THEN needed ELSE double
    IN  IF s.size > LUAI_MAXSTACK THEN [s EXCEPT !.err = "errerr"]
        ELSE IF newsize > LUAI_MAXSTACK
             THEN [luaD_reallocstack(s, ERRORSTACKSIZE) EXCEPT !.err = "overflow"]
        ELSE luaD_reallocstack(s, newsize)

Tops(s) == {s.top.at} \cup {s.cis[k].top.at : k \in 1..Depth(s)}
stackinuse(s) == (CHOOSE lim \in Tops(s) : \A t \in Tops(s) : t <= lim) + 1

luaD_shrinkstack(s) ==
    LET inuse == stackinuse(s)
        good == inuse + (inuse \div 8) + 2 * EXTRA_STACK
        goodsize == IF good > LUAI_MAXSTACK THEN LUAI_MAXSTACK ELSE good
    IN  IF inuse <= LUAI_MAXSTACK - EXTRA_STACK /\ goodsize < s.size
        THEN luaD_reallocstack(s, goodsize) ELSE s

luaD_inctop(s) ==
    LET room == IF stack_last(s) - s.top.at > 1 THEN s ELSE luaD_growstack(s, 1)
    IN  IF room.err = "ok" THEN Push(Put(room, room.top.at), 1) ELSE room

\* The collector may run first (gc): a larger stack is more memory.
checkstackp(s, n, gc) ==
    IF stack_last(s) - s.top.at > n THEN s
    ELSE [luaD_growstack(IF gc THEN luaD_shrinkstack(s) ELSE s, n) EXCEPT !.p = Ptr(s.p.at)]

-----------------------------------------------------------------------------
Frame(func, base, top, lua) ==
    [func |-> func, base |-> base, top |-> top, lua |-> lua, local |-> base, handler |-> FALSE]

\* Calls of the function at s.p, whose arguments are above it.
precallC(s, gc) ==
    LET r == checkstackp(s, LUA_MINSTACK, gc)
    IN  IF r.err # "ok" THEN r
        ELSE [r EXCEPT !.cis = Append(@, Frame(r.p, Ptr(0), Up(r.top, LUA_MINSTACK), FALSE))]

\* adjust_varargs with no fixed parameters: the frame begins at the top.
precallLua(s, fsize, vararg, gc) ==
    LET r == checkstackp(s, fsize, gc)
        base == IF vararg THEN r.top ELSE Up(r.p, 1)
    IN  IF r.err # "ok" THEN r
        ELSE [r EXCEPT !.cis = Append(@, Frame(r.p, base, Up(base, fsize), TRUE)), !.top = Up(base, fsize)]

\* A value with __call moves up, and its metamethod is called.
tryfuncTM(s, gc) ==
    LET r == checkstackp(s, 1, gc) IN IF r.err # "ok" THEN r ELSE Push(r, 1)

luaD_precall(s, gc) ==
    {precallC(s, gc)} \cup {precallLua(s, n, vararg, gc) : n \in FrameSizes, vararg \in BOOLEAN}
    \cup {LET m == tryfuncTM(s, gc) IN IF m.err # "ok" THEN m ELSE precallC(m, gc)}

Protect(s) == [s EXCEPT !.cis[Depth(s)].local = ci(s).base]

\* One result goes where the function was; a Lua function's frame is full
\* again.
luaD_poscall(s) ==
    LET res == ci(s).func
        caller == [Put(s, res.at) EXCEPT !.cis = SubSeq(@, 1, Depth(s) - 1), !.top = Up(res, 1)]
    IN  IF ci(caller).lua THEN [Protect(caller) EXCEPT !.top = ci(caller).top] ELSE caller

luaF_close(s, level) == [s EXCEPT !.openupval = {u \in @ : u.at < level}]

-----------------------------------------------------------------------------
\* What a function has done, up to its end or the error that it met.
Do(s) ==
    /\ stack' = [s EXCEPT !.err = "ok", !.p = Ptr(0)]
    /\ thrown' = s.err
    /\ crowded' = (crowded \/ s.err = "overflow")

\* luaG_errormsg: the message is on top, its handler goes below it.
luaG_errormsg(s) ==
    IF ~errfunc THEN Do([s EXCEPT !.err = "errrun"])
    ELSE IF Depth(s) > MaxFrames THEN Do([s EXCEPT !.err = "errerr"])
    ELSE \E r \in luaD_precall([Push(s, 1) EXCEPT !.p = Up(s.top, -1)], FALSE) :
            Do(IF r.err # "ok" THEN r ELSE [r EXCEPT !.cis[Depth(r)].handler = TRUE])

luaG_runerror(s) ==
    LET r == luaD_inctop(s) IN IF r.err # "ok" THEN Do(r) ELSE luaG_errormsg(r)

InC == thrown = "ok" /\ ~ci(stack).lua
InLua == thrown = "ok" /\ ci(stack).lua
CanCall == Depth(stack) < MaxFrames
Registers == ci(stack).local.at..ci(stack).top.at - 1

\* A C function calls what it has pushed, with the handler below it or none.
lua_pcall ==
    /\ InC /\ CanCall
    /\ stack.top.at < ci(stack).top.at
    /\ \E gc, handler \in BOOLEAN :
          /\ handler => stack.top.at > ci(stack).func.at + 1
          /\ \E r \in luaD_precall([Push(stack, 1) EXCEPT !.p = stack.top], gc) : Do(r)
          /\ pcalls' = Append(pcalls, [ci |-> Depth(stack), old_top |-> stack.top.at, errfunc |-> errfunc])
          /\ errfunc' = handler

\* OP_CALL: the function is in a register above all local variables, its
\* arguments above.
op_call ==
    /\ InLua /\ CanCall
    /\ \E k \in Registers, gc \in BOOLEAN :
          LET f == Up(ci(stack).local, k - ci(stack).local.at)
          IN  /\ \A u \in stack.openupval : u.at < k
              /\ \E r \in luaD_precall([Put(stack, k) EXCEPT !.p = f, !.top = Up(f, 1)], gc) : Do(r)
    /\ UNCHANGED <<pcalls, errfunc>>

\* A metamethod is called above the frame, without asking for room.
luaT_callTM ==
    /\ InLua /\ CanCall
    /\ \E gc \in BOOLEAN :
          \E r \in luaD_precall([Push(stack, TMSlots) EXCEPT !.p = stack.top], gc) : Do(r)
    /\ UNCHANGED <<pcalls, errfunc>>

lua_push ==
    /\ InC
    /\ stack.top.at < ci(stack).top.at
    /\ Do(Push(stack, 1))
    /\ UNCHANGED <<pcalls, errfunc>>

\* No error leaves it.
lua_checkstack ==
    /\ InC
    /\ \E n \in Asked :
          LET fits == stack_last(stack) - stack.top.at > n
              s == IF fits THEN stack
                   ELSE IF stack.top.at + EXTRA_STACK > LUAI_MAXSTACK - n THEN [stack EXCEPT !.err = "no"]
                   ELSE luaD_growstack(stack, n)
              top == ci(s).top.at
          IN  Do(IF s.err # "ok" THEN stack
                 ELSE [s EXCEPT !.cis[Depth(s)].top = IF top < s.top.at + n THEN Up(s.top, n) ELSE @])
    /\ UNCHANGED <<pcalls, errfunc>>

\* A closure is made that uses a register.
luaF_findupval ==
    /\ InLua /\ Cardinality(stack.openupval) < MaxUpvalues
    /\ \E k \in Registers :
          /\ \A u \in stack.openupval : u.at < k
          /\ Do([stack EXCEPT !.openupval = @ \cup {Up(ci(stack).local, k - ci(stack).local.at)}])
    /\ UNCHANGED <<pcalls, errfunc>>

\* The collector traverses the thread (traversethread), under Protect.
collect ==
    /\ thrown = "ok"
    /\ Do(IF ci(stack).lua THEN Protect(luaD_shrinkstack(stack)) ELSE luaD_shrinkstack(stack))
    /\ UNCHANGED <<pcalls, errfunc>>

\* Where a protected call ends, so does its handler; where a handler ends, the
\* error goes on.
Return ==
    /\ thrown = "ok" /\ Depth(stack) > 1
    /\ LET closed == IF ci(stack).lua THEN luaF_close(stack, ci(stack).base.at) ELSE stack
           caller == luaD_poscall(closed)
           protected == pcalls # <<>> /\ pcalls[Len(pcalls)].ci = Depth(caller) /\ ~ci(stack).handler
       IN  /\ Do(IF ci(stack).handler THEN [caller EXCEPT !.err = "errrun"] ELSE caller)
           /\ pcalls' = IF protected THEN SubSeq(pcalls, 1, Len(pcalls) - 1) ELSE pcalls
           /\ errfunc' = IF protected THEN pcalls[Len(pcalls)].errfunc ELSE errfunc

\* lua_error has its message on top; in a Lua function luaG_runerror makes it.
Error ==
    /\ thrown = "ok" /\ pcalls # <<>>
    /\ \/ ci(stack).lua /\ luaG_runerror(stack)
       \/ ~ci(stack).lua /\ stack.top.at > ci(stack).func.at + 1 /\ luaG_errormsg(stack)
    /\ UNCHANGED <<pcalls, errfunc>>

Overflow ==
    /\ thrown = "overflow"
    /\ luaG_runerror(stack)
    /\ UNCHANGED <<pcalls, errfunc>>

Caught(s, c) ==
    luaD_shrinkstack([Put(luaF_close(s, c.old_top), c.old_top) EXCEPT
                          !.top = Ptr(c.old_top + 1), !.cis = SubSeq(@, 1, c.ci)])

\* luaD_pcall gets an error.
Catch ==
    /\ thrown \in {"errrun", "errerr"}
    /\ LET c == pcalls[Len(pcalls)]
       IN  /\ stack' = Caught(stack, c)
           /\ crowded' = (crowded /\ stackinuse(stack') > LUAI_MAXSTACK - EXTRA_STACK)
           /\ errfunc' = c.errfunc
    /\ pcalls' = SubSeq(pcalls, 1, Len(pcalls) - 1)
    /\ thrown' = "ok"

SpaceInit ==
    /\ stack = [size |-> 2 * LUA_MINSTACK, top |-> Ptr(1), openupval |-> {}, outside |-> FALSE,
                cis |-> <<Frame(Ptr(0), Ptr(0), Ptr(1 + LUA_MINSTACK), FALSE)>>,
                err |-> "ok", p |-> Ptr(0)]
    /\ pcalls = <<>>
    /\ errfunc = FALSE
    /\ thrown = "ok"
    /\ crowded = FALSE

SpaceNext ==
    \/ lua_pcall \/ op_call \/ luaT_callTM \/ lua_push \/ lua_checkstack
    \/ luaF_findupval \/ collect \/ Return \/ Error \/ Overflow \/ Catch

SpaceSpec == SpaceInit /\ [][SpaceNext]_spaceVars

-----------------------------------------------------------------------------
\* The shape of the state.
TypeInv ==
    /\ stack.size \in 1..ERRORSTACKSIZE
    /\ stack.top.at \in 1..ERRORSTACKSIZE
    /\ Depth(stack) \in 1..MaxFrames + 1
    /\ thrown \in {"ok", "overflow", "errrun", "errerr"}
    /\ errfunc \in BOOLEAN /\ crowded \in BOOLEAN

\* However often the memory has moved since they were made, the top, the
\* frames of all active functions and the open upvalues point into it as it
\* is now, and so does the base that a running Lua function uses
\* (correctstack, checkstackp, Protect).
PointersCurrent ==
    /\ stack.top.live
    /\ \A u \in stack.openupval : u.live
    /\ \A k \in 1..Depth(stack) :
          LET c == stack.cis[k] IN c.func.live /\ c.top.live /\ (c.lua => c.base.live)
    /\ InLua => ci(stack).local = ci(stack).base

\* No slot is written beyond the memory, and what any active function may
\* use without asking stays within it: with the room for metamethods, the
\* handler of an overflow and the message of an error that no function
\* checks for (EXTRA_STACK, ERRORSTACKSIZE, stackinuse).
InBounds ==
    /\ ~stack.outside
    /\ \A k \in 1..Depth(stack) : stack.cis[k].top.at <= stack_last(stack)

\* The memory is larger than the limit only after an overflow whose error no
\* function with room below the limit has caught: the next overflow gets its
\* message again, not "error in error handling" (luaD_pcall, luaD_shrinkstack).
ErrorZone == stack.size > LUAI_MAXSTACK => crowded

\* Open upvalues belong to active functions: after an error none is left above
\* the top of the function that caught it (luaF_close in luaD_pcall).
UpvaluesBelow ==
    thrown = "ok" => \A u \in stack.openupval :
        u.at < (IF stack.top.at < ci(stack).top.at THEN ci(stack).top.at ELSE stack.top.at)

\* Every pointer into the stack that is used points into it as it is now,
\* nothing is written outside of it, only the handler of an overflow runs
\* above the limit, and open upvalues lie below the top.
StackKept == TypeInv /\ PointersCurrent /\ InBounds /\ ErrorZone /\ UpvaluesBelow

-----------------------------------------------------------------------------
(***************************************************************************)
(* The proof.  SpaceInv relates the frames, the protected calls and the    *)
(* open upvalues to one another by their offsets: a function lies below    *)
(* the one that it calls, a protected call below all that it has called,   *)
(* and an upvalue in the frame of a Lua function that is active.           *)
(***************************************************************************)
PtrT == [at : Nat, live : BOOLEAN]
FrameT == [func : PtrT, base : PtrT, top : PtrT, lua : BOOLEAN, local : PtrT, handler : BOOLEAN]
StackT == [size : Nat, top : PtrT, openupval : SUBSET PtrT, outside : BOOLEAN,
           cis : Seq(FrameT), err : {"ok", "overflow", "errrun", "errerr", "no"}, p : PtrT]
PcallT == [ci : Nat, old_top : Nat, errfunc : BOOLEAN]

SizeOK(s) == s.size <= LUAI_MAXSTACK \/ s.size = ERRORSTACKSIZE
FrameLive(c) == c.func.live /\ c.top.live /\ (c.lua => c.base.live)
Live(s) ==
    /\ s.top.live
    /\ \A u \in s.openupval : u.live
    /\ \A k \in 1..Depth(s) : FrameLive(s.cis[k])

\* The frames of all functions are within the memory.
Fits(s) ==
    /\ s.top.at <= s.size
    /\ \A k \in 1..Depth(s) : s.cis[k].top.at <= stack_last(s)

Sound(s) ==
    /\ s \in StackT /\ Depth(s) >= 1
    /\ SizeOK(s) /\ Live(s) /\ Fits(s) /\ ~s.outside

\* Each function is below its frame, and above those that called it.
FrameOrder(c) == c.func.at < c.top.at /\ (c.lua => c.func.at < c.base.at)
Ordered(s) ==
    /\ ~s.cis[1].lua
    /\ \A k \in 1..Depth(s) : FrameOrder(s.cis[k])
    /\ \A k, l \in 1..Depth(s) : k < l => s.cis[k].func.at < s.cis[l].func.at
    /\ \A k \in 1..Depth(s) - 1 :
         ~s.cis[k].lua /\ ~s.cis[k + 1].handler => s.cis[k + 1].func.at < s.cis[k].top.at

\* An open upvalue is in the frame of a Lua function, below what it calls.
OwnedBy(s, u, j) ==
    /\ s.cis[j].lua
    /\ s.cis[j].base.at <= u.at /\ u.at < s.cis[j].top.at
    /\ \A k \in j + 1..Depth(s) : u.at < s.cis[k].func.at
Owners(s) == \A u \in s.openupval : \E j \in 1..Depth(s) : OwnedBy(s, u, j)

Shape(s) ==
    /\ Sound(s) /\ Ordered(s) /\ Owners(s)
    /\ ci(s).func.at < s.top.at

\* A protected call belongs to a C function, and lies between its function
\* and all that it has called.
PcallOK(s, c) ==
    /\ c.ci \in 1..Depth(s) /\ ~s.cis[c.ci].lua
    /\ s.cis[c.ci].func.at < c.old_top /\ c.old_top < s.cis[c.ci].top.at
    /\ \A k \in c.ci + 1..Depth(s) : c.old_top <= s.cis[k].func.at
    /\ c.ci = Depth(s) => c.old_top < s.top.at
Pcalls(s, q) ==
    /\ q \in Seq(PcallT)
    /\ \A i \in 1..Len(q) : PcallOK(s, q[i])
    /\ \A i, j \in 1..Len(q) : i < j => q[i].ci < q[j].ci
    /\ q # <<>> => q[1].ci = 1

Running(s, q) ==
    /\ ci(s).lua => s.top.at = ci(s).top.at /\ ci(s).local = ci(s).base
    /\ ~ci(s).lua => s.top.at <= ci(s).top.at
    /\ \A i \in 1..Len(q) : q[i].ci < Depth(s)
    /\ Depth(s) > 1 => q # <<>>

SpaceInv ==
    /\ Shape(stack) /\ stack.err = "ok"
    /\ Depth(stack) <= MaxFrames + 1
    /\ Pcalls(stack, pcalls)
    /\ thrown \in {"ok", "overflow", "errrun", "errerr"}
    /\ errfunc \in BOOLEAN /\ crowded \in BOOLEAN
    /\ thrown = "ok" => Running(stack, pcalls)
    /\ thrown # "ok" => pcalls # <<>>
    /\ thrown = "overflow" => \A u \in stack.openupval : u.at < stack.top.at
    /\ stack.size > LUAI_MAXSTACK => crowded
-----------------------------------------------------------------------------
(***************************************************************************)
(* The memory moves: offsets and flags stay, and every pointer is right.   *)
(***************************************************************************)
SameFrame(c, d) ==
    /\ d.func.at = c.func.at /\ d.base.at = c.base.at /\ d.top.at = c.top.at
    /\ d.lua = c.lua /\ d.handler = c.handler
SameUpvalues(s, r) == \A u \in r.openupval : \E w \in s.openupval : w.at = u.at
Same(s, r) ==
    /\ r \in StackT /\ Depth(r) = Depth(s) /\ r.top.at = s.top.at /\ r.outside = s.outside
    /\ SameUpvalues(s, r)
    /\ \A k \in 1..Depth(s) : SameFrame(s.cis[k], r.cis[k])

LEMMA FrameTyped ==
    ASSUME NEW s \in StackT, NEW k \in 1..Depth(s)
    PROVE  /\ s.cis[k] \in FrameT /\ s.cis[k].top.at \in Nat /\ s.cis[k].func.at \in Nat
           /\ s.cis[k].base.at \in Nat
  <1>1. s.cis \in Seq(FrameT) /\ k \in 1..Len(s.cis)
    BY DEF StackT, Depth
  <1>2. s.cis[k] \in FrameT
    BY <1>1
  <1> QED BY <1>2 DEF FrameT, PtrT

LEMMA FrameMoves ==
    ASSUME NEW c \in FrameT
    PROVE  /\ MovedFrame(c) \in FrameT
           /\ CorrectFrame(MovedFrame(c)) \in FrameT
           /\ SameFrame(c, CorrectFrame(MovedFrame(c)))
           /\ FrameLive(CorrectFrame(MovedFrame(c)))
  BY DEF FrameT, PtrT, CorrectFrame, MovedFrame, SameFrame, FrameLive, Ptr, Wild

LEMMA Realloc ==
    ASSUME NEW s \in StackT, NEW newsize \in Nat
    PROVE  LET r == luaD_reallocstack(s, newsize)
           IN  /\ Same(s, r) /\ Live(r) /\ r.size = newsize /\ r.p.at = s.p.at
               /\ r.err = s.err
  <1> DEFINE m == Moved(s)
             r == luaD_reallocstack(s, newsize)
             moved == [k \in 1..Len(s.cis) |-> MovedFrame(s.cis[k])]
             frames == [k \in 1..Len(moved) |-> CorrectFrame(moved[k])]
  <1>1. /\ s.cis \in Seq(FrameT) /\ s.top \in PtrT /\ s.p \in PtrT /\ s.openupval \in SUBSET PtrT
        /\ s.outside \in BOOLEAN /\ s.size \in Nat
    BY DEF StackT
  <1>2. \A k \in 1..Len(s.cis) : s.cis[k] \in FrameT
    BY <1>1
  <1>3. /\ m.cis = moved /\ m.top = Wild(s.top) /\ m.p = Wild(s.p)
        /\ m.openupval = {Wild(u) : u \in s.openupval}
        /\ m.outside = s.outside /\ m.err = s.err /\ m.size = s.size
    BY DEF StackT, Moved
  <1>4. Len(moved) = Len(s.cis) /\ Len(frames) = Len(s.cis)
    BY <1>1
  <1>5. \A k \in 1..Len(s.cis) : frames[k] = CorrectFrame(MovedFrame(s.cis[k]))
    BY <1>4
  <1>6. /\ r.cis = frames /\ r.top = Ptr(s.top.at) /\ r.p = Wild(s.p)
        /\ r.openupval = {Ptr(u.at) : u \in s.openupval}
        /\ r.outside = s.outside /\ r.err = s.err /\ r.size = newsize
    <2>1. m \in StackT
      <3>1. \A k \in 1..Len(s.cis) : MovedFrame(s.cis[k]) \in FrameT
        BY <1>2, FrameMoves
      <3>2. moved \in Seq(FrameT)
        <4>1. moved \in [1..Len(s.cis) -> FrameT] /\ Len(s.cis) \in Nat
          BY <1>1, <3>1
        <4> HIDE DEF moved
        <4> QED BY <4>1
      <3>3. Wild(s.top) \in PtrT /\ Wild(s.p) \in PtrT
        BY <1>1 DEF PtrT, Wild
      <3>4. \A u \in PtrT : Wild(u) \in PtrT
        BY DEF PtrT, Wild
      <3>5. {Wild(u) : u \in s.openupval} \in SUBSET PtrT
        BY <1>1, <3>4
      <3>6. m = [s EXCEPT !.cis = m.cis, !.top = m.top, !.p = m.p, !.openupval = m.openupval]
        BY DEF StackT, Moved
      <3> HIDE DEF m, moved
      <3> QED BY <1>3, <3>2, <3>3, <3>5, <3>6 DEF StackT
    <2>2. {Ptr(w.at) : w \in m.openupval} = {Ptr(u.at) : u \in s.openupval}
      <3>1. \A u \in s.openupval : Wild(u).at = u.at
        BY <1>1 DEF PtrT, Wild
      <3> HIDE DEF m
      <3> QED BY <1>3, <3>1
    <2>3. m.top.at = s.top.at
      BY <1>1, <1>3 DEF PtrT, Wild
    <2> DEFINE c == correctstack(m)
    <2>4. /\ c.cis = [k \in 1..Len(m.cis) |-> CorrectFrame(m.cis[k])] /\ c.top = Ptr(m.top.at) /\ c.p = m.p
          /\ c.openupval = {Ptr(w.at) : w \in m.openupval} /\ c.outside = m.outside /\ c.err = m.err
          /\ r = [c EXCEPT !.size = newsize] /\ DOMAIN c = DOMAIN m
      <3> HIDE DEF m
      <3>1. r = [correctstack(m) EXCEPT !.size = newsize]
        BY DEF luaD_reallocstack, m
      <3> HIDE DEF r
      <3> QED BY <2>1, <3>1 DEF StackT, correctstack
    <2>5. r.cis = c.cis /\ r.top = c.top /\ r.p = c.p /\ r.openupval = c.openupval
          /\ r.outside = c.outside /\ r.err = c.err /\ r.size = newsize
      <3> HIDE DEF m, c, r
      <3> QED BY <2>1, <2>4 DEF StackT
    <2> HIDE DEF m, c, r
    <2>6. r.cis = frames
      BY <1>3, <2>4, <2>5
    <2> HIDE DEF moved, frames
    <2> QED BY <1>3, <2>2, <2>3, <2>4, <2>5, <2>6
  <1>7. \A k \in 1..Len(s.cis) : frames[k] \in FrameT /\ SameFrame(s.cis[k], frames[k]) /\ FrameLive(frames[k])
    <2> TAKE k \in 1..Len(s.cis)
    <2>1. frames[k] = CorrectFrame(MovedFrame(s.cis[k])) /\ s.cis[k] \in FrameT
      BY <1>2, <1>5
    <2> HIDE DEF frames, moved
    <2> QED BY <2>1, FrameMoves
  <1>8. frames \in Seq(FrameT)
    <2>1. DOMAIN frames = 1..Len(s.cis) /\ Len(s.cis) \in Nat
      BY <1>1, <1>4
    <2>2. frames = [k \in DOMAIN frames |-> frames[k]]
      OBVIOUS
    <2> HIDE DEF frames, moved
    <2>3. frames \in [1..Len(s.cis) -> FrameT]
      BY <1>7, <2>1, <2>2
    <2> QED BY <2>1, <2>3
  <1> HIDE DEF frames, moved
  <1>9. r \in StackT
    <2>1. /\ Ptr(s.top.at) \in PtrT /\ Wild(s.p) \in PtrT
          /\ {Ptr(u.at) : u \in s.openupval} \in SUBSET PtrT
      <3>1. Ptr(s.top.at) \in PtrT /\ Wild(s.p) \in PtrT /\ \A u \in s.openupval : Ptr(u.at) \in PtrT
        BY <1>1 DEF PtrT, Ptr, Wild
      <3> QED BY <3>1
    <2>2. r = [s EXCEPT !.cis = r.cis, !.top = r.top, !.p = r.p, !.openupval = r.openupval, !.size = r.size]
      <3> DEFINE n == correctstack(m)
      <3>1. m = [s EXCEPT !.cis = m.cis, !.top = m.top, !.p = m.p, !.openupval = m.openupval]
        BY DEF StackT, Moved
      <3>2. n = [m EXCEPT !.cis = n.cis, !.top = n.top, !.openupval = n.openupval]
        <4> HIDE DEF m
        <4> QED BY <3>1 DEF StackT, correctstack
      <3>3. r = [n EXCEPT !.size = newsize]
        BY DEF luaD_reallocstack
      <3> HIDE DEF m, n, r, frames, moved
      <3>4. s \in StackT
        OBVIOUS
      <3> QED BY ONLY <3>1, <3>2, <3>3, <3>4 DEF StackT
    <2> HIDE DEF r, m
    <2> QED BY <1>6, <1>8, <2>1, <2>2 DEF StackT
  <1> HIDE DEF r, m
  <1>10. Same(s, r)
    <2>1. SameUpvalues(s, r) /\ r.top.at = s.top.at
      BY <1>6 DEF SameUpvalues, Ptr
    <2> QED BY <1>4, <1>6, <1>7, <1>9, <2>1 DEF Same, Depth
  <1>11. Live(r)
    BY <1>4, <1>6, <1>7 DEF Live, Depth, Ptr
  <1>12. r.p.at = s.p.at
    BY <1>1, <1>6 DEF PtrT, Wild
  <1> QED BY <1>6, <1>10, <1>11, <1>12 DEF r

LEMMA SameSelf == ASSUME NEW s \in StackT PROVE Same(s, s)
  BY DEF Same, SameUpvalues, SameFrame

LEMMA SameTwice ==
    ASSUME NEW s, NEW r, NEW q, Same(s, r), Same(r, q)
    PROVE  Same(s, q)
  <1>1. SameUpvalues(s, q)
    BY DEF Same, SameUpvalues
  <1>2. \A k \in 1..Depth(s) : SameFrame(s.cis[k], q.cis[k])
    BY DEF Same, SameFrame
  <1> QED BY <1>1, <1>2 DEF Same

(* The stack fits where it has fitted, as long as the memory is not less.   *)
LEMMA SameFits ==
    ASSUME Sizes, NEW s \in StackT, NEW r \in StackT, Same(s, r), r.size >= s.size, Fits(s)
    PROVE  Fits(r)
  <1>1. EXTRA_STACK \in Nat /\ s.size \in Nat /\ r.size \in Nat /\ s.top \in PtrT /\ s.top.at \in Nat
    BY DEF Sizes, StackT, PtrT
  <1>2. r.top.at <= r.size
    BY <1>1 DEF Same, Fits
  <1>3. ASSUME NEW k \in 1..Depth(r) PROVE r.cis[k].top.at <= stack_last(r)
    <2>1. s.cis[k].top.at <= s.size - EXTRA_STACK /\ r.cis[k].top.at = s.cis[k].top.at
      BY DEF Same, SameFrame, Fits, stack_last
    <2>2. r.cis[k].top.at \in Nat
      BY FrameTyped
    <2> QED BY <1>1, <2>1, <2>2 DEF stack_last
  <1> QED BY <1>2, <1>3 DEF Fits

(* luaD_growstack makes room, or it meets the limit.                        *)
LEMMA GrowStack ==
    ASSUME Sizes, NEW s \in StackT, SizeOK(s), Fits(s), Live(s), s.err = "ok", NEW n \in Nat
    PROVE  LET r == luaD_growstack(s, n)
           IN  /\ Same(s, r) /\ SizeOK(r) /\ Fits(r) /\ Live(r) /\ r.p.at = s.p.at
               /\ r.err \in {"ok", "overflow", "errerr"}
               /\ r.err = "ok" => s.top.at + n <= stack_last(r)
               /\ r.size > LUAI_MAXSTACK => s.size > LUAI_MAXSTACK \/ r.err = "overflow"
  <1> DEFINE needed == s.top.at + n + EXTRA_STACK
             double == IF 2 * s.size > LUAI_MAXSTACK THEN LUAI_MAXSTACK ELSE 2 * s.size
             newsize == IF double < needed THEN needed ELSE double
             r == luaD_growstack(s, n)
  <1>1. /\ s.size \in Nat /\ s.top.at \in Nat /\ EXTRA_STACK \in Nat /\ LUAI_MAXSTACK \in Nat
        /\ ERRORSTACKSIZE \in Nat /\ LUAI_MAXSTACK < ERRORSTACKSIZE
    BY DEF Sizes, StackT, PtrT
  <1>2. CASE s.size > LUAI_MAXSTACK
    <2>1. r = [s EXCEPT !.err = "errerr"]
      BY <1>2 DEF luaD_growstack
    <2>2. r \in StackT /\ r.cis = s.cis /\ r.top = s.top /\ r.openupval = s.openupval /\ r.size = s.size
          /\ r.outside = s.outside /\ r.p = s.p /\ r.err = "errerr"
      BY <2>1 DEF StackT
    <2> HIDE DEF r
    <2>3. Same(s, r)
      BY <2>2 DEF Same, SameUpvalues, SameFrame, Depth
    <2>4. SizeOK(r) /\ Fits(r) /\ Live(r)
      BY <2>2 DEF SizeOK, Fits, Live, Depth, stack_last
    <2> QED BY <1>2, <2>2, <2>3, <2>4 DEF r
  <1>3. CASE s.size <= LUAI_MAXSTACK /\ newsize > LUAI_MAXSTACK
    <2> DEFINE m == luaD_reallocstack(s, ERRORSTACKSIZE)
    <2>1. r = [m EXCEPT !.err = "overflow"]
      BY <1>1, <1>3 DEF luaD_growstack
    <2>2. Same(s, m) /\ Live(m) /\ m.size = ERRORSTACKSIZE /\ m.p.at = s.p.at
      BY <1>1, Realloc
    <2> HIDE DEF m
    <2>3. r \in StackT /\ r.cis = m.cis /\ r.top = m.top /\ r.openupval = m.openupval /\ r.size = m.size
          /\ r.outside = m.outside /\ r.p = m.p /\ r.err = "overflow"
      BY <2>1, <2>2 DEF StackT, Same
    <2> HIDE DEF r
    <2>4. Same(s, r)
      BY <2>2, <2>3 DEF Same, SameUpvalues, SameFrame, Depth
    <2>5. SizeOK(r) /\ Live(r) /\ r.size >= s.size
      BY <1>1, <1>3, <2>2, <2>3 DEF SizeOK, Live, Depth
    <2>6. Fits(r)
      BY <2>3, <2>4, <2>5, SameFits
    <2> QED BY <1>1, <2>2, <2>3, <2>4, <2>5, <2>6 DEF r
  <1>4. CASE s.size <= LUAI_MAXSTACK /\ newsize <= LUAI_MAXSTACK
    <2>1. r = luaD_reallocstack(s, newsize)
      BY <1>1, <1>4 DEF luaD_growstack
    <2>2. newsize \in Nat /\ newsize >= s.size /\ newsize >= needed
      BY <1>1, <1>4
    <2> HIDE DEF newsize, double, r
    <2>3. Same(s, r) /\ Live(r) /\ r.size = newsize /\ r.p.at = s.p.at /\ r.err = "ok"
      BY <2>1, <2>2, Realloc
    <2>4. r \in StackT
      BY <2>3 DEF Same
    <2>5. Fits(r)
      BY <2>2, <2>3, <2>4, SameFits
    <2>6. SizeOK(r) /\ ~(r.size > LUAI_MAXSTACK)
      BY <1>1, <1>4, <2>2, <2>3 DEF SizeOK
    <2>7. s.top.at + n <= stack_last(r)
      BY <1>1, <2>2, <2>3 DEF stack_last
    <2> QED BY <2>3, <2>5, <2>6, <2>7 DEF r
  <1>5. newsize \in Int
    BY <1>1
  <1> HIDE DEF newsize
  <1> QED BY <1>1, <1>2, <1>3, <1>4, <1>5

(***************************************************************************)
(* What is in use has an upper border, which is one of the tops.           *)
(***************************************************************************)
LEMMA LeastElement ==
    ASSUME NEW T, T \subseteq Nat, T # {}
    PROVE  \E x \in T : \A y \in T : x <= y
  <1> DEFINE R == OpToRel(<, Nat)
  <1>1. IsWellFoundedOn(R, Nat)
    BY NatLessThanWellFounded
  <1>2. \A x, y \in Nat : y < x => <<y, x>> \in R
    BY DEF OpToRel
  <1> HIDE DEF R
  <1>3. PICK x \in T : \A y \in T : ~(<<y, x>> \in R)
    BY <1>1, WFMin
  <1>4. ASSUME NEW y \in T PROVE x <= y
    <2>1. x \in Nat /\ y \in Nat
      OBVIOUS
    <2>2. ~(y < x)
      BY <1>2, <1>3, <2>1
    <2> QED BY <2>1, <2>2
  <1> QED BY <1>4

LEMMA InUse ==
    ASSUME Sizes, NEW s \in StackT, Fits(s)
    PROVE  /\ stackinuse(s) \in Nat
           /\ \A t \in Tops(s) : t < stackinuse(s)
  <1>1. /\ EXTRA_STACK \in Nat /\ s.size \in Nat /\ s.top.at \in Nat
        /\ \A k \in 1..Depth(s) : s.cis[k].top.at \in Nat
    BY FrameTyped DEF Sizes, StackT, PtrT
  <1>2. Tops(s) \subseteq Nat /\ s.top.at \in Tops(s)
    BY <1>1 DEF Tops
  <1>3. \A t \in Tops(s) : t <= s.size
    BY <1>1 DEF Tops, Fits, stack_last
  <1> DEFINE Borders == {n \in Nat : \A t \in Tops(s) : t <= n}
  <1>4. Borders \in SUBSET Nat /\ Borders # {}
    BY <1>1, <1>3
  <1>5. PICK n \in Borders : \A b \in Borders : n <= b
    BY <1>4, LeastElement
  <1>6. n \in Tops(s)
    <2> SUFFICES ASSUME n \notin Tops(s) PROVE FALSE
      OBVIOUS
    <2>1. \A t \in Tops(s) : t <= n - 1
      BY <1>2, <1>5
    <2>2. n - 1 \in Nat
      BY <1>2, <1>5, <2>1
    <2>3. n - 1 \in Borders
      BY <2>1, <2>2
    <2> QED BY <1>5, <2>3
  <1> DEFINE lim == CHOOSE l \in Tops(s) : \A t \in Tops(s) : t <= l
  <1>7. lim \in Tops(s) /\ \A t \in Tops(s) : t <= lim
    BY <1>5, <1>6
  <1>8. stackinuse(s) = lim + 1
    BY DEF stackinuse
  <1> HIDE DEF lim
  <1> QED BY <1>2, <1>7, <1>8

LEMMA SameInUse ==
    ASSUME NEW s, NEW r, Same(s, r)
    PROVE  Tops(r) = Tops(s) /\ stackinuse(r) = stackinuse(s)
  <1>1. Tops(r) = Tops(s)
    BY DEF Same, SameFrame, Tops
  <1> QED BY <1>1 DEF stackinuse

(* luaD_shrinkstack leaves what is in use, and above the limit only what is *)
(* needed there.                                                           *)
LEMMA ShrinkStack ==
    ASSUME Sizes, NEW s \in StackT, SizeOK(s), Fits(s), Live(s)
    PROVE  LET r == luaD_shrinkstack(s)
           IN  /\ Same(s, r) /\ SizeOK(r) /\ Fits(r) /\ Live(r) /\ r.p.at = s.p.at
               /\ r.err = s.err
               /\ r.size > LUAI_MAXSTACK =>
                    s.size > LUAI_MAXSTACK /\ stackinuse(s) > LUAI_MAXSTACK - EXTRA_STACK
  <1> DEFINE inuse == stackinuse(s)
             good == inuse + (inuse \div 8) + 2 * EXTRA_STACK
             goodsize == IF good > LUAI_MAXSTACK THEN LUAI_MAXSTACK ELSE good
             r == luaD_shrinkstack(s)
  <1>1. /\ s.size \in Nat /\ s.top.at \in Nat /\ EXTRA_STACK \in Nat /\ LUAI_MAXSTACK \in Nat
    BY DEF Sizes, StackT, PtrT
  <1>2. inuse \in Nat /\ \A t \in Tops(s) : t < inuse
    BY InUse
  <1> HIDE DEF inuse
  <1>3. CASE inuse <= LUAI_MAXSTACK - EXTRA_STACK /\ goodsize < s.size
    <2>1. r = luaD_reallocstack(s, goodsize)
      BY <1>3 DEF luaD_shrinkstack, inuse
    <2>2. goodsize \in Nat /\ goodsize <= LUAI_MAXSTACK /\ inuse <= goodsize - EXTRA_STACK
      BY <1>1, <1>2, <1>3
    <2> HIDE DEF goodsize, r
    <2>3. Same(s, r) /\ Live(r) /\ r.size = goodsize /\ r.p.at = s.p.at /\ r.err = s.err
      BY <2>1, <2>2, Realloc
    <2>4. Tops(r) = Tops(s)
      BY <2>3, SameInUse
    <2>5. /\ r.top.at \in Tops(r) /\ \A k \in 1..Depth(r) : r.cis[k].top.at \in Tops(r)
          /\ Tops(s) \subseteq Nat
      BY <1>1, FrameTyped DEF Tops
    <2>6. \A t \in Tops(r) : t <= r.size /\ t <= r.size - EXTRA_STACK
      BY <1>1, <1>2, <2>2, <2>3, <2>4, <2>5
    <2>7. Fits(r)
      BY <2>5, <2>6 DEF Fits, stack_last
    <2>8. SizeOK(r) /\ ~(r.size > LUAI_MAXSTACK)
      BY <1>1, <2>2, <2>3 DEF SizeOK
    <2> QED BY <2>3, <2>7, <2>8 DEF r
  <1>4. CASE ~(inuse <= LUAI_MAXSTACK - EXTRA_STACK /\ goodsize < s.size)
    <2>1. r = s
      BY <1>4 DEF luaD_shrinkstack, inuse
    <2>2. s.size > LUAI_MAXSTACK => inuse > LUAI_MAXSTACK - EXTRA_STACK
      BY <1>1, <1>2, <1>4
    <2> HIDE DEF r
    <2> QED BY <2>1, <2>2, SameSelf DEF inuse, r
  <1> QED BY <1>3, <1>4

(* luaD_checkstackaux: the saved pointer is right afterwards.               *)
LEMMA CheckStack ==
    ASSUME Sizes, NEW s \in StackT, SizeOK(s), Fits(s), Live(s), s.err = "ok", s.p.live,
           NEW n \in Nat, NEW gc \in BOOLEAN
    PROVE  LET r == checkstackp(s, n, gc)
           IN  /\ Same(s, r) /\ SizeOK(r) /\ Fits(r) /\ Live(r) /\ r.p = Ptr(s.p.at)
               /\ r.err \in {"ok", "overflow", "errerr"}
               /\ r.err = "ok" => s.top.at + n <= stack_last(r)
               /\ r.size > LUAI_MAXSTACK => s.size > LUAI_MAXSTACK \/ r.err = "overflow"
  <1> DEFINE r == checkstackp(s, n, gc)
             m == IF gc THEN luaD_shrinkstack(s) ELSE s
             g == luaD_growstack(m, n)
  <1>1. /\ s.size \in Nat /\ s.top.at \in Nat /\ EXTRA_STACK \in Nat /\ s.p \in PtrT /\ s.p.at \in Nat
    BY DEF Sizes, StackT, PtrT
  <1>2. CASE stack_last(s) - s.top.at > n
    <2>1. r = s
      BY <1>2 DEF checkstackp
    <2>2. s.p = Ptr(s.p.at)
      BY <1>1 DEF PtrT, Ptr
    <2>3. s.top.at + n <= stack_last(s)
      BY <1>1, <1>2 DEF stack_last
    <2> HIDE DEF r
    <2> QED BY <2>1, <2>2, <2>3, SameSelf DEF r
  <1>3. CASE ~(stack_last(s) - s.top.at > n)
    <2>1. r = [g EXCEPT !.p = Ptr(s.p.at)]
      BY <1>3 DEF checkstackp
    <2>2. /\ m \in StackT /\ Same(s, m) /\ SizeOK(m) /\ Fits(m) /\ Live(m) /\ m.err = "ok"
          /\ m.size > LUAI_MAXSTACK => s.size > LUAI_MAXSTACK
      BY ShrinkStack, SameSelf DEF Same
    <2> HIDE DEF m
    <2>3. /\ Same(m, g) /\ SizeOK(g) /\ Fits(g) /\ Live(g)
          /\ g.err \in {"ok", "overflow", "errerr"}
          /\ g.err = "ok" => m.top.at + n <= stack_last(g)
          /\ g.size > LUAI_MAXSTACK => m.size > LUAI_MAXSTACK \/ g.err = "overflow"
      BY <2>2, GrowStack
    <2>4. Same(s, g) /\ g \in StackT /\ m.top.at = s.top.at
      BY <2>2, <2>3, SameTwice DEF Same
    <2> HIDE DEF g
    <2>5. r \in StackT /\ r.cis = g.cis /\ r.top = g.top /\ r.openupval = g.openupval /\ r.size = g.size
          /\ r.outside = g.outside /\ r.err = g.err /\ r.p = Ptr(s.p.at)
      BY <1>1, <2>1, <2>4 DEF StackT, Ptr, PtrT
    <2> HIDE DEF r
    <2>6. Same(s, r)
      BY <2>4, <2>5 DEF Same, SameUpvalues, SameFrame, Depth
    <2>7. SizeOK(r) /\ Fits(r) /\ Live(r) /\ stack_last(r) = stack_last(g)
      BY <2>3, <2>5 DEF SizeOK, Fits, Live, Depth, stack_last
    <2> QED BY <2>2, <2>3, <2>4, <2>5, <2>6, <2>7 DEF r
  <1> QED BY <1>2, <1>3

-----------------------------------------------------------------------------
(***************************************************************************)
(* A call: the frames below it stay, and its own frame is in the memory.   *)
(***************************************************************************)
Callable(s) == Sound(s) /\ s.err = "ok" /\ s.p.live /\ s.p.at < s.top.at

NewFrame(s, c, r) ==
    /\ c.func.at = s.p.at /\ FrameOrder(c)
    /\ c.func.at < r.top.at
    /\ c.lua => r.top.at = c.top.at /\ c.local = c.base
    /\ ~c.lua => r.top.at <= c.top.at

Called(s, r) ==
    /\ Sound(r)
    /\ r.size > LUAI_MAXSTACK => s.size > LUAI_MAXSTACK \/ r.err = "overflow"
    /\ SameUpvalues(s, r)
    /\ \A k \in 1..Depth(s) : SameFrame(s.cis[k], r.cis[k])
    /\ r.err \in {"ok", "overflow", "errerr"}
    /\ r.err # "ok" => Depth(r) = Depth(s) /\ r.top.at >= s.top.at
    /\ r.err = "ok" => Depth(r) = Depth(s) + 1 /\ NewFrame(s, ci(r), r)

LEMMA Checked ==
    ASSUME Sizes, NEW s, Callable(s), NEW n \in Nat, NEW gc \in BOOLEAN
    PROVE  LET r == checkstackp(s, n, gc)
           IN  /\ Same(s, r) /\ Sound(r) /\ r.p = Ptr(s.p.at)
               /\ r.err \in {"ok", "overflow", "errerr"}
               /\ r.err = "ok" => s.top.at + n <= stack_last(r)
               /\ r.size > LUAI_MAXSTACK => s.size > LUAI_MAXSTACK \/ r.err = "overflow"
  <1> DEFINE r == checkstackp(s, n, gc)
  <1>1. s \in StackT /\ SizeOK(s) /\ Fits(s) /\ Live(s) /\ s.err = "ok" /\ s.p.live
        /\ Depth(s) >= 1 /\ ~s.outside
    BY DEF Callable, Sound
  <1>2. /\ Same(s, r) /\ SizeOK(r) /\ Fits(r) /\ Live(r) /\ r.p = Ptr(s.p.at)
        /\ r.err \in {"ok", "overflow", "errerr"}
        /\ r.err = "ok" => s.top.at + n <= stack_last(r)
        /\ r.size > LUAI_MAXSTACK => s.size > LUAI_MAXSTACK \/ r.err = "overflow"
    BY <1>1, CheckStack
  <1> HIDE DEF r
  <1>3. Sound(r)
    BY <1>1, <1>2 DEF Sound, Same
  <1> QED BY <1>2, <1>3 DEF r

LEMMA CheckFails ==
    ASSUME NEW s \in StackT, NEW r, Same(s, r), Sound(r), r.err \in {"overflow", "errerr"},
           r.size > LUAI_MAXSTACK => s.size > LUAI_MAXSTACK \/ r.err = "overflow"
    PROVE  Called(s, r)
  <1>1. r.top.at >= s.top.at
    BY DEF Same, StackT, PtrT
  <1> QED BY <1>1 DEF Called, Same

(* Behind a check that succeeds a frame is added.                           *)
LEMMA FrameAdded ==
    ASSUME Sizes, NEW s, Callable(s), NEW m, Same(s, m), Sound(m), m.err = "ok",
           m.size > LUAI_MAXSTACK => s.size > LUAI_MAXSTACK,
           NEW c \in FrameT, FrameLive(c), FrameOrder(c), c.func.at = s.p.at,
           c.top.at <= stack_last(m),
           NEW top \in PtrT, top.live, s.p.at < top.at, top.at <= m.size,
           c.lua => top.at = c.top.at /\ c.local = c.base,
           ~c.lua => top.at <= c.top.at
    PROVE  Called(s, [m EXCEPT !.cis = Append(@, c), !.top = top])
  <1> DEFINE r == [m EXCEPT !.cis = Append(@, c), !.top = top]
  <1>1. m \in StackT /\ m.cis \in Seq(FrameT)
    BY DEF Same, StackT
  <1>2. /\ r.cis = Append(m.cis, c) /\ r.top = top /\ r.openupval = m.openupval /\ r.size = m.size
        /\ r.outside = m.outside /\ r.err = m.err /\ r.p = m.p
    BY <1>1 DEF StackT
  <1>3. /\ Append(m.cis, c) \in Seq(FrameT) /\ Len(Append(m.cis, c)) = Len(m.cis) + 1
        /\ \A k \in 1..Len(m.cis) : Append(m.cis, c)[k] = m.cis[k]
        /\ Append(m.cis, c)[Len(m.cis) + 1] = c
        /\ Len(m.cis) \in Nat
    BY <1>1
  <1>4. r \in StackT
    BY <1>1, <1>3 DEF StackT
  <1> HIDE DEF r
  <1>5. /\ Depth(r) = Depth(m) + 1 /\ Depth(m) = Depth(s) /\ Depth(m) \in Nat /\ ci(r) = c
        /\ \A k \in 1..Depth(m) : r.cis[k] = m.cis[k]
        /\ \A k \in 1..Depth(r) : r.cis[k] = c \/ k \in 1..Depth(m)
    BY <1>2, <1>3 DEF Depth, ci, Same
  <1>6. Live(r)
    BY <1>2, <1>5 DEF Sound, Live
  <1>7. Fits(r)
    BY <1>2, <1>5 DEF Sound, Fits, stack_last
  <1>8. Sound(r)
    BY <1>2, <1>4, <1>5, <1>6, <1>7 DEF Sound, SizeOK
  <1>9. SameUpvalues(s, r) /\ \A k \in 1..Depth(s) : SameFrame(s.cis[k], r.cis[k])
    BY <1>2, <1>5 DEF Same, SameUpvalues
  <1>10. NewFrame(s, ci(r), r)
    BY <1>2, <1>5 DEF NewFrame
  <1>11. r.err = "ok" /\ (r.size > LUAI_MAXSTACK => s.size > LUAI_MAXSTACK)
    BY <1>2
  <1>12. Called(s, r)
    BY <1>5, <1>8, <1>9, <1>10, <1>11 DEF Called
  <1> QED BY <1>12 DEF r

LEMMA CallsC ==
    ASSUME Sizes, NEW s, Callable(s), NEW gc \in BOOLEAN
    PROVE  Called(s, precallC(s, gc))
  <1> DEFINE m == checkstackp(s, LUA_MINSTACK, gc)
             c == Frame(m.p, Ptr(0), Up(m.top, LUA_MINSTACK), FALSE)
  <1>1. /\ LUA_MINSTACK \in Nat /\ LUA_MINSTACK >= 1 /\ s \in StackT /\ s.p \in PtrT /\ s.p.at < s.top.at
        /\ EXTRA_STACK \in Nat
    BY DEF Sizes, Callable, Sound, StackT
  <1>2. /\ Same(s, m) /\ Sound(m) /\ m.p = Ptr(s.p.at)
        /\ m.err \in {"ok", "overflow", "errerr"}
        /\ m.err = "ok" => s.top.at + LUA_MINSTACK <= stack_last(m)
        /\ m.size > LUAI_MAXSTACK => s.size > LUAI_MAXSTACK \/ m.err = "overflow"
    BY <1>1, Checked
  <1> HIDE DEF m
  <1>3. CASE m.err # "ok"
    <2>1. precallC(s, gc) = m
      BY <1>3 DEF precallC, m
    <2> QED BY <1>1, <1>2, <1>3, <2>1, CheckFails
  <1>4. CASE m.err = "ok"
    <2>1. m \in StackT /\ m.top \in PtrT /\ m.top.live /\ m.top.at = s.top.at /\ m.size \in Nat
      BY <1>2 DEF Same, StackT, Sound, Live
    <2>2. precallC(s, gc) = [m EXCEPT !.cis = Append(@, c)]
      BY <1>4 DEF precallC, m
    <2>3. [m EXCEPT !.cis = Append(@, c)] = [m EXCEPT !.cis = Append(@, c), !.top = m.top]
      BY <2>1 DEF StackT
    <2>4. m.top.at \in Nat /\ s.p.at \in Nat /\ s.top.at \in Nat
      BY <1>1, <2>1 DEF PtrT
    <2>5. /\ c \in FrameT /\ c.func.at = s.p.at /\ c.top.at = s.top.at + LUA_MINSTACK /\ c.func.live /\ c.top.live
          /\ ~c.lua /\ ~c.handler
      BY <1>1, <1>2, <2>1, <2>4 DEF Frame, FrameT, PtrT, Ptr, Up
    <2> HIDE DEF c
    <2>6. FrameLive(c) /\ FrameOrder(c)
      BY <1>1, <2>4, <2>5 DEF FrameLive, FrameOrder
    <2>7. /\ c.top.at <= stack_last(m) /\ s.p.at < m.top.at /\ m.top.at <= m.size
          /\ m.top.at <= c.top.at
      BY <1>1, <1>2, <1>4, <2>1, <2>4, <2>5 DEF stack_last
    <2>8. /\ m.size > LUAI_MAXSTACK => s.size > LUAI_MAXSTACK
          /\ c.lua => m.top.at = c.top.at /\ c.local = c.base
      BY <1>2, <1>4, <2>5
    <2>9. Called(s, [m EXCEPT !.cis = Append(@, c), !.top = m.top])
      BY <1>2, <1>4, <2>1, <2>5, <2>6, <2>7, <2>8, FrameAdded
    <2> QED BY <2>2, <2>3, <2>9
  <1> QED BY <1>3, <1>4

LEMMA CallsLua ==
    ASSUME Sizes, NEW s, Callable(s), NEW gc \in BOOLEAN, NEW n \in FrameSizes, NEW vararg \in BOOLEAN
    PROVE  Called(s, precallLua(s, n, vararg, gc))
  <1> DEFINE m == checkstackp(s, n, gc)
             base == IF vararg THEN m.top ELSE Up(m.p, 1)
             c == Frame(m.p, base, Up(base, n), TRUE)
  <1>1. /\ n \in Nat /\ n >= 1 /\ s \in StackT /\ s.p \in PtrT /\ s.p.at < s.top.at
        /\ EXTRA_STACK \in Nat
    BY DEF Sizes, Callable, Sound, StackT
  <1>2. /\ Same(s, m) /\ Sound(m) /\ m.p = Ptr(s.p.at)
        /\ m.err \in {"ok", "overflow", "errerr"}
        /\ m.err = "ok" => s.top.at + n <= stack_last(m)
        /\ m.size > LUAI_MAXSTACK => s.size > LUAI_MAXSTACK \/ m.err = "overflow"
    BY <1>1, Checked
  <1> HIDE DEF m
  <1>3. CASE m.err # "ok"
    <2>1. precallLua(s, n, vararg, gc) = m
      BY <1>3 DEF precallLua, m
    <2> QED BY <1>1, <1>2, <1>3, <2>1, CheckFails
  <1>4. CASE m.err = "ok"
    <2>1. m \in StackT /\ m.top \in PtrT /\ m.top.live /\ m.top.at = s.top.at /\ m.size \in Nat
      BY <1>2 DEF Same, StackT, Sound, Live
    <2>2. precallLua(s, n, vararg, gc) = [m EXCEPT !.cis = Append(@, c), !.top = Up(base, n)]
      BY <1>4 DEF precallLua, m
    <2>3. m.top.at \in Nat /\ s.p.at \in Nat /\ s.top.at \in Nat
      BY <1>1, <2>1 DEF PtrT
    <2>4. base \in PtrT /\ base.live /\ s.p.at < base.at /\ base.at <= s.top.at /\ base.at \in Nat
      <3>1. CASE vararg
        BY <1>1, <2>1, <2>3, <3>1
      <3>2. CASE ~vararg
        <4>1. base = Up(Ptr(s.p.at), 1)
          BY <1>2, <3>2
        <4>2. /\ Up(Ptr(s.p.at), 1) \in PtrT /\ Up(Ptr(s.p.at), 1).live
              /\ Up(Ptr(s.p.at), 1).at = s.p.at + 1
          <5>1. Ptr(s.p.at) \in PtrT /\ Ptr(s.p.at).at = s.p.at /\ Ptr(s.p.at).live
            BY <2>3 DEF PtrT, Ptr
          <5> QED BY <2>3, <5>1 DEF PtrT, Up
        <4> HIDE DEF base
        <4> QED BY <1>1, <2>3, <4>1, <4>2
      <3> QED BY <3>1, <3>2
    <2> HIDE DEF base
    <2>5. Up(base, n) \in PtrT /\ Up(base, n).live /\ Up(base, n).at = base.at + n
      BY <1>1, <2>4 DEF PtrT, Up
    <2>6. /\ c \in FrameT /\ c.func.at = s.p.at /\ c.top = Up(base, n) /\ c.func.live
          /\ c.base = base /\ c.local = base /\ c.lua /\ ~c.handler
      BY <1>1, <1>2, <2>3, <2>4, <2>5 DEF Frame, FrameT, PtrT, Ptr
    <2> HIDE DEF c
    <2>7. FrameLive(c) /\ FrameOrder(c)
      BY <1>1, <2>3, <2>4, <2>5, <2>6 DEF FrameLive, FrameOrder
    <2>8. /\ c.top.at <= stack_last(m) /\ s.p.at < Up(base, n).at /\ Up(base, n).at <= m.size
          /\ Up(base, n).at = c.top.at /\ c.local = c.base
      BY <1>1, <1>2, <1>4, <2>1, <2>3, <2>4, <2>5, <2>6 DEF stack_last
    <2>9. m.size > LUAI_MAXSTACK => s.size > LUAI_MAXSTACK
      BY <1>2, <1>4
    <2>10. Called(s, [m EXCEPT !.cis = Append(@, c), !.top = Up(base, n)])
      BY <1>2, <1>4, <2>5, <2>6, <2>7, <2>8, <2>9, FrameAdded
    <2> QED BY <2>2, <2>10
  <1> QED BY <1>3, <1>4

(* The metamethod __call goes where its object was, which moves up.         *)
LEMMA Shifted ==
    ASSUME Sizes, NEW s, Callable(s), NEW gc \in BOOLEAN
    PROVE  LET m == tryfuncTM(s, gc)
           IN  /\ m.err # "ok" => Called(s, m)
               /\ m.err = "ok" => /\ Callable(m) /\ Depth(m) = Depth(s) /\ SameUpvalues(s, m)
                                  /\ \A k \in 1..Depth(s) : SameFrame(s.cis[k], m.cis[k])
                                  /\ m.p.at = s.p.at /\ m.top.at >= s.top.at
                                  /\ m.size > LUAI_MAXSTACK => s.size > LUAI_MAXSTACK
  <1> DEFINE c == checkstackp(s, 1, gc)
             m == tryfuncTM(s, gc)
  <1>1. s \in StackT /\ s.p \in PtrT /\ s.p.at < s.top.at /\ EXTRA_STACK \in Nat /\ EXTRA_STACK >= 1
    BY DEF Sizes, Callable, Sound, StackT
  <1>2. /\ Same(s, c) /\ Sound(c) /\ c.p = Ptr(s.p.at)
        /\ c.err \in {"ok", "overflow", "errerr"}
        /\ c.err = "ok" => s.top.at + 1 <= stack_last(c)
        /\ c.size > LUAI_MAXSTACK => s.size > LUAI_MAXSTACK \/ c.err = "overflow"
    BY Checked
  <1> HIDE DEF c
  <1>3. CASE c.err # "ok"
    <2>1. m = c
      BY <1>3 DEF tryfuncTM, c
    <2> HIDE DEF m
    <2> QED BY <1>1, <1>2, <1>3, <2>1, CheckFails DEF m
  <1>4. CASE c.err = "ok"
    <2>1. c \in StackT /\ c.top \in PtrT /\ c.top.at = s.top.at /\ c.size \in Nat /\ c.top.at \in Nat
          /\ c.top.live /\ ~c.outside
      BY <1>2 DEF Same, StackT, Sound, PtrT, Live
    <2>2. m = Push(c, 1)
      BY <1>4 DEF tryfuncTM, c
    <2>3. s.top.at + 1 <= c.size /\ ~(c.top.at + 1 - 1 >= c.size)
      BY <1>1, <1>2, <1>4, <2>1 DEF stack_last
    <2>4. Up(c.top, 1) \in PtrT /\ Up(c.top, 1).live /\ Up(c.top, 1).at = s.top.at + 1
      BY <2>1 DEF Up, PtrT
    <2>5. /\ m \in StackT /\ m.cis = c.cis /\ m.top = Up(c.top, 1) /\ m.openupval = c.openupval /\ m.size = c.size
          /\ ~m.outside /\ m.err = c.err /\ m.p = c.p
      BY <2>1, <2>2, <2>3, <2>4 DEF Push, Put, StackT
    <2> HIDE DEF m
    <2>6. Sound(m)
      BY <1>2, <2>1, <2>3, <2>4, <2>5 DEF Sound, SizeOK, Live, Fits, Depth, stack_last
    <2>7. m.p.live /\ m.p.at = s.p.at /\ s.p.at < m.top.at /\ m.top.at >= s.top.at
      BY <1>1, <1>2, <2>1, <2>4, <2>5 DEF Ptr, PtrT
    <2>8. Callable(m)
      BY <1>4, <2>5, <2>6, <2>7 DEF Callable
    <2>9. /\ Depth(m) = Depth(s) /\ SameUpvalues(s, m)
          /\ \A k \in 1..Depth(s) : SameFrame(s.cis[k], m.cis[k])
      BY <1>2, <2>5 DEF Same, SameUpvalues, Depth
    <2> QED BY <1>2, <1>4, <2>5, <2>7, <2>8, <2>9 DEF m
  <1> QED BY <1>3, <1>4

LEMMA Precall ==
    ASSUME Sizes, NEW s, Callable(s), NEW gc \in BOOLEAN, NEW r \in luaD_precall(s, gc)
    PROVE  Called(s, r)
  <1>1. CASE r = precallC(s, gc)
    BY <1>1, CallsC
  <1>2. CASE \E n \in FrameSizes, vararg \in BOOLEAN : r = precallLua(s, n, vararg, gc)
    BY <1>2, CallsLua
  <1>3. CASE r = LET m == tryfuncTM(s, gc) IN IF m.err # "ok" THEN m ELSE precallC(m, gc)
    <2> DEFINE m == tryfuncTM(s, gc)
    <2>1. /\ m.err # "ok" => Called(s, m)
          /\ m.err = "ok" => /\ Callable(m) /\ Depth(m) = Depth(s) /\ SameUpvalues(s, m)
                             /\ \A k \in 1..Depth(s) : SameFrame(s.cis[k], m.cis[k])
                             /\ m.p.at = s.p.at /\ m.top.at >= s.top.at
                             /\ m.size > LUAI_MAXSTACK => s.size > LUAI_MAXSTACK
      BY Shifted
    <2>2. r = IF m.err # "ok" THEN m ELSE precallC(m, gc)
      BY <1>3
    <2> HIDE DEF m
    <2>3. CASE m.err # "ok"
      BY <2>1, <2>2, <2>3
    <2>4. CASE m.err = "ok"
      <3>1. Called(m, r)
        BY <2>1, <2>2, <2>4, CallsC
      <3>2. SameUpvalues(s, r) /\ \A k \in 1..Depth(s) : SameFrame(s.cis[k], r.cis[k])
        BY <2>1, <2>4, <3>1 DEF Called, SameUpvalues, SameFrame
      <3>3. NewFrame(m, ci(r), r) => NewFrame(s, ci(r), r)
        BY <2>1, <2>4 DEF NewFrame
      <3>4. r.err # "ok" => r.top.at >= s.top.at
        <4>1. m.top.at \in Nat /\ s.top.at \in Nat /\ r.top.at \in Nat
          BY <2>1, <2>4, <3>1 DEF Callable, Called, Sound, StackT, PtrT
        <4> QED BY <2>1, <2>4, <3>1, <4>1 DEF Called
      <3> QED BY <2>1, <2>4, <3>1, <3>2, <3>3, <3>4 DEF Called
    <2> QED BY <2>3, <2>4
  <1> QED BY <1>1, <1>2, <1>3 DEF luaD_precall

-----------------------------------------------------------------------------
(***************************************************************************)
(* What a step keeps of the order of frames, calls and upvalues.           *)
(***************************************************************************)
SameFrames(s, r) ==
    /\ Depth(r) = Depth(s) /\ SameUpvalues(s, r)
    /\ \A k \in 1..Depth(s) : SameFrame(s.cis[k], r.cis[k])

LEMMA TopFrame ==
    ASSUME NEW s, Shape(s)
    PROVE  /\ Depth(s) \in Nat /\ Depth(s) >= 1 /\ s.top.at \in Nat /\ s.size \in Nat
           /\ s \in StackT /\ ci(s) = s.cis[Depth(s)] /\ ci(s) \in FrameT
           /\ ci(s).func.at \in Nat /\ ci(s).top.at \in Nat /\ ci(s).base.at \in Nat
           /\ ci(s).func.at < ci(s).top.at /\ ci(s).func.at < s.top.at
           /\ ci(s).top.at <= stack_last(s) /\ s.top.at <= s.size
           /\ ci(s).lua => ci(s).func.at < ci(s).base.at /\ Depth(s) > 1
  <1>1. s \in StackT /\ Depth(s) >= 1 /\ Depth(s) \in Nat
    BY DEF Shape, Sound, StackT, Depth
  <1>2. Depth(s) \in 1..Depth(s)
    BY <1>1
  <1>3. s.top.at \in Nat /\ s.size \in Nat
    BY <1>1 DEF StackT, PtrT
  <1>4. ci(s) \in FrameT /\ ci(s).func.at \in Nat /\ ci(s).top.at \in Nat /\ ci(s).base.at \in Nat
    BY <1>1, <1>2, FrameTyped DEF ci
  <1>5. FrameOrder(ci(s)) /\ ci(s).top.at <= stack_last(s) /\ s.top.at <= s.size
    BY <1>2 DEF Shape, Sound, Fits, Ordered, ci
  <1>6. ci(s).lua => Depth(s) > 1
    BY <1>1 DEF Shape, Ordered, ci
  <1> QED BY <1>1, <1>3, <1>4, <1>5, <1>6 DEF FrameOrder, Shape, ci

LEMMA Rising ==
    ASSUME NEW s, Shape(s), NEW k \in 1..Depth(s)
    PROVE  s.cis[k].func.at \in Nat /\ s.cis[k].func.at <= ci(s).func.at
  <1>1. Depth(s) \in Nat /\ s \in StackT /\ Depth(s) \in 1..Depth(s)
    BY TopFrame
  <1>2. s.cis[k].func.at \in Nat /\ s.cis[Depth(s)].func.at \in Nat
    BY <1>1, FrameTyped
  <1>3. k < Depth(s) => s.cis[k].func.at < s.cis[Depth(s)].func.at
    BY <1>1 DEF Shape, Ordered
  <1> QED BY <1>1, <1>2, <1>3 DEF ci

(* Open upvalues are below a C function, and in or below the frame of a Lua *)
(* function.                                                               *)
LEMMA UpvaluesUnder ==
    ASSUME NEW s, Shape(s), NEW u \in s.openupval
    PROVE  /\ u.at \in Nat
           /\ ~ci(s).lua => u.at < ci(s).func.at
           /\ ci(s).lua => u.at < ci(s).top.at
  <1>1. PICK j \in 1..Depth(s) : OwnedBy(s, u, j)
    BY DEF Shape, Owners
  <1>2. /\ Depth(s) \in Nat /\ ci(s) = s.cis[Depth(s)] /\ s \in StackT
        /\ ci(s).func.at \in Nat /\ ci(s).top.at \in Nat /\ ci(s).func.at < ci(s).top.at
    BY TopFrame
  <1>3. u.at \in Nat
    BY <1>2 DEF StackT, PtrT
  <1>4. CASE j = Depth(s)
    BY <1>1, <1>2, <1>3, <1>4 DEF OwnedBy
  <1>5. CASE j < Depth(s)
    <2>1. Depth(s) \in j + 1..Depth(s)
      BY <1>2, <1>5
    <2>2. u.at < ci(s).func.at
      BY <1>1, <1>2, <2>1 DEF OwnedBy
    <2> QED BY <1>2, <1>3, <2>2
  <1> QED BY <1>2, <1>4, <1>5

(* Offsets decide, wherever the memory is: a state with the same frames has *)
(* the same order.                                                         *)
LEMMA SameOrder ==
    ASSUME NEW s, NEW r, s \in StackT, Depth(s) >= 1, SameFrames(s, r), Ordered(s), Owners(s)
    PROVE  Ordered(r) /\ Owners(r)
  <1>1. Depth(s) \in Nat /\ Depth(r) = Depth(s) /\ 1 \in 1..Depth(s)
    BY DEF StackT, Depth, SameFrames
  <1>2. \A k \in 1..Depth(s) : SameFrame(s.cis[k], r.cis[k])
    BY DEF SameFrames
  <1>3. Ordered(r)
    <2>1. ~r.cis[1].lua
      BY <1>1, <1>2 DEF Ordered, SameFrame
    <2>2. \A k \in 1..Depth(r) : FrameOrder(r.cis[k])
      BY <1>1, <1>2 DEF Ordered, SameFrame, FrameOrder
    <2>3. \A k, l \in 1..Depth(r) : k < l => r.cis[k].func.at < r.cis[l].func.at
      BY <1>1, <1>2 DEF Ordered, SameFrame
    <2>4. ASSUME NEW k \in 1..Depth(r) - 1
          PROVE  ~r.cis[k].lua /\ ~r.cis[k + 1].handler => r.cis[k + 1].func.at < r.cis[k].top.at
      <3>1. k \in 1..Depth(s) - 1 /\ k \in 1..Depth(s) /\ k + 1 \in 1..Depth(s)
        BY <1>1
      <3> QED BY <1>2, <3>1 DEF Ordered, SameFrame
    <2> QED BY <2>1, <2>2, <2>3, <2>4 DEF Ordered
  <1>4. ASSUME NEW u \in r.openupval PROVE \E j \in 1..Depth(r) : OwnedBy(r, u, j)
    <2>1. PICK w \in s.openupval : w.at = u.at
      BY DEF SameFrames, SameUpvalues
    <2>2. PICK j \in 1..Depth(s) : OwnedBy(s, w, j)
      BY DEF Owners
    <2>3. \A k \in j + 1..Depth(s) : k \in 1..Depth(s)
      BY <1>1
    <2>4. OwnedBy(r, u, j)
      BY <1>1, <1>2, <2>1, <2>2, <2>3 DEF OwnedBy, SameFrame
    <2> QED BY <1>1, <2>4
  <1> QED BY <1>3, <1>4 DEF Owners

(* ... and keeps the protected calls, with at least as much on top.         *)
LEMMA Kept ==
    ASSUME NEW s, Shape(s), NEW r, Sound(r), SameFrames(s, r), r.top.at >= s.top.at
    PROVE  Shape(r) /\ \A q : Pcalls(s, q) => Pcalls(r, q)
  <1>1. /\ s \in StackT /\ Depth(s) >= 1 /\ Depth(s) \in Nat /\ Depth(r) = Depth(s)
        /\ s.top.at \in Nat /\ r.top.at \in Nat /\ ci(s).func.at \in Nat
    BY TopFrame DEF SameFrames, Sound, StackT, PtrT
  <1>2. \A k \in 1..Depth(s) : SameFrame(s.cis[k], r.cis[k])
    BY DEF SameFrames
  <1>3. Ordered(r) /\ Owners(r)
    BY <1>1, SameOrder DEF Shape
  <1>4. ci(r).func.at = ci(s).func.at
    BY <1>1, <1>2 DEF ci, SameFrame
  <1>5. Shape(r)
    BY <1>1, <1>3, <1>4 DEF Shape
  <1>6. ASSUME NEW q, Pcalls(s, q) PROVE Pcalls(r, q)
    <2>1. ASSUME NEW i \in 1..Len(q) PROVE PcallOK(r, q[i])
      <3>0. q \in Seq(PcallT) /\ PcallOK(s, q[i])
        BY <1>6 DEF Pcalls
      <3>1. PcallOK(s, q[i]) /\ q[i].old_top \in Nat
        <4>1. q[i] \in PcallT
          BY <3>0
        <4> QED BY <3>0, <4>1 DEF PcallT
      <3>2. q[i].ci \in 1..Depth(s) /\ \A k \in q[i].ci + 1..Depth(s) : k \in 1..Depth(s)
        BY <1>1, <3>1 DEF PcallOK
      <3>3. q[i].ci = Depth(r) => q[i].old_top < r.top.at
        BY <1>1, <3>1 DEF PcallOK
      <3> QED BY <1>1, <1>2, <3>1, <3>2, <3>3 DEF PcallOK, SameFrame
    <2> QED BY <1>6, <2>1 DEF Pcalls
  <1> QED BY <1>5, <1>6

(* A call, in which protected calls lie below the function called.          *)
PcallBelow(s, c) ==
    /\ c.ci \in 1..Depth(s) /\ ~s.cis[c.ci].lua
    /\ s.cis[c.ci].func.at < c.old_top /\ c.old_top < s.cis[c.ci].top.at
    /\ \A k \in c.ci + 1..Depth(s) : c.old_top <= s.cis[k].func.at
    /\ c.ci = Depth(s) => c.old_top <= s.p.at
PcallsBelow(s, q) ==
    /\ q \in Seq(PcallT) /\ q # <<>> /\ q[1].ci = 1
    /\ \A i \in 1..Len(q) : PcallBelow(s, q[i])
    /\ \A i, j \in 1..Len(q) : i < j => q[i].ci < q[j].ci

LEMMA CallShape ==
    ASSUME NEW s, Callable(s), Ordered(s), Owners(s), ci(s).func.at < s.p.at,
           \A u \in s.openupval : u.at < s.p.at,
           NEW q, PcallsBelow(s, q), NEW r, Called(s, r),
           ci(s).lua \/ s.p.at < ci(s).top.at \/ (r.err = "ok" => ci(r).handler)
    PROVE  /\ Shape(r) /\ Pcalls(r, q) /\ (r.err = "ok" => Running(r, q))
           /\ r.err # "ok" => \A u \in r.openupval : u.at < r.top.at
           /\ Depth(r) \in Depth(s)..Depth(s) + 1 /\ q # <<>>
           /\ r.err \in {"ok", "overflow", "errerr"}
  <1> DEFINE d == Depth(s)
  <1>1. /\ s \in StackT /\ r \in StackT /\ Sound(s) /\ Sound(r) /\ d >= 1 /\ d \in Nat /\ 1 \in 1..d
        /\ s.p.at < s.top.at /\ s.p.at \in Nat /\ s.top.at \in Nat /\ r.top.at \in Nat
    BY DEF Callable, Called, Sound, StackT, PtrT, Depth
  <1>2. \A k \in 1..d : SameFrame(s.cis[k], r.cis[k])
    BY DEF Called
  <1>3. \A k \in 1..d : /\ s.cis[k].func.at \in Nat /\ s.cis[k].top.at \in Nat
                        /\ s.cis[k].func.at <= s.cis[d].func.at /\ s.cis[k].func.at < s.p.at
    <2> TAKE k \in 1..d
    <2>1. s.cis[k].func.at \in Nat /\ s.cis[k].top.at \in Nat /\ s.cis[d].func.at \in Nat
      BY <1>1, FrameTyped
    <2>2. k < d => s.cis[k].func.at < s.cis[d].func.at
      BY <1>1 DEF Ordered
    <2> QED BY <1>1, <2>1, <2>2 DEF ci
  <1>4. \A i \in 1..Len(q) : /\ PcallBelow(s, q[i]) /\ q[i] \in PcallT /\ q[i].old_top \in Nat /\ q[i].ci \in 1..d
                            /\ q[i].old_top <= s.p.at
    <2> TAKE i \in 1..Len(q)
    <2>0. q \in Seq(PcallT)
      BY DEF PcallsBelow
    <2>1. PcallBelow(s, q[i]) /\ q[i] \in PcallT /\ q[i].old_top \in Nat /\ q[i].ci \in 1..d
      <3>1. q[i] \in PcallT
        BY <2>0
      <3> QED BY <3>1 DEF PcallsBelow, PcallBelow, PcallT
    <2>2. q[i].ci < d => q[i].old_top <= s.cis[d].func.at
      BY <1>1, <2>1 DEF PcallBelow
    <2> QED BY <1>1, <1>3, <2>1, <2>2 DEF PcallBelow
  <1>5. CASE r.err # "ok"
    <2>1. Depth(r) = d /\ r.top.at >= s.top.at /\ SameFrames(s, r)
      BY <1>5 DEF Called, SameFrames
    <2>2. Ordered(r) /\ Owners(r)
      BY <1>1, <2>1, SameOrder
    <2>3. Shape(r)
      <3>1. ci(r).func.at = ci(s).func.at /\ ci(s).func.at \in Nat
        BY <1>1, <1>2, <1>3, <2>1 DEF ci, SameFrame
      <3> QED BY <1>1, <2>1, <2>2, <3>1 DEF Shape
    <2>4. ASSUME NEW i \in 1..Len(q) PROVE PcallOK(r, q[i])
      <3>1. \A k \in q[i].ci + 1..d : k \in 1..d
        BY <1>1, <1>4
      <3>2. q[i].old_top < r.top.at
        BY <1>1, <1>4, <2>1
      <3> QED BY <1>2, <1>4, <2>1, <3>1, <3>2 DEF PcallOK, PcallBelow, SameFrame
    <2>5. Pcalls(r, q)
      BY <2>4 DEF Pcalls, PcallsBelow
    <2>6. \A u \in r.openupval : u.at < r.top.at
      <3>1. \A w \in s.openupval : w.at \in Nat
        BY <1>1 DEF StackT, PtrT
      <3> QED BY <1>1, <2>1, <3>1 DEF SameFrames, SameUpvalues
    <2> QED BY <1>1, <1>5, <2>1, <2>3, <2>5, <2>6 DEF Called, PcallsBelow
  <1>6. CASE r.err = "ok"
    <2> DEFINE c == ci(r)
    <2>1. Depth(r) = d + 1 /\ c = r.cis[d + 1] /\ NewFrame(s, c, r)
      BY <1>6 DEF Called, ci
    <2>2. c.func.at = s.p.at /\ FrameOrder(c) /\ c.func.at < r.top.at
      BY <2>1 DEF NewFrame
    <2> HIDE DEF c
    <2>3. \A k \in 1..Depth(r) : k = d + 1 \/ k \in 1..d
      BY <1>1, <2>1
    <2>4. Ordered(r)
      <3>1. ~r.cis[1].lua
        BY <1>1, <1>2 DEF Ordered, SameFrame
      <3>2. \A k \in 1..Depth(r) : FrameOrder(r.cis[k])
        BY <1>2, <2>1, <2>2, <2>3 DEF Ordered, SameFrame, FrameOrder
      <3>3. ASSUME NEW k \in 1..Depth(r), NEW l \in 1..Depth(r), k < l
            PROVE  r.cis[k].func.at < r.cis[l].func.at
        <4>1. k \in 1..d
          BY <1>1, <2>1, <2>3, <3>3
        <4>2. CASE l = d + 1
          BY <1>2, <1>3, <2>1, <2>2, <4>1, <4>2 DEF SameFrame
        <4>3. CASE l \in 1..d
          BY <1>2, <3>3, <4>1, <4>3 DEF Ordered, SameFrame
        <4> QED BY <2>3, <4>2, <4>3
      <3>4. ASSUME NEW k \in 1..Depth(r) - 1
            PROVE  ~r.cis[k].lua /\ ~r.cis[k + 1].handler => r.cis[k + 1].func.at < r.cis[k].top.at
        <4>1. CASE k = d
          <5>1. /\ r.cis[k + 1] = c /\ r.cis[k].lua = ci(s).lua /\ r.cis[k].top.at = ci(s).top.at
            BY <1>1, <1>2, <2>1, <4>1 DEF SameFrame, ci
          <5> QED BY <1>6, <2>2, <5>1 DEF c
        <4>2. CASE k < d
          <5>1. k \in 1..d - 1 /\ k \in 1..d /\ k + 1 \in 1..d
            BY <1>1, <4>2
          <5> QED BY <1>2, <5>1 DEF Ordered, SameFrame
        <4>3. k \in Int /\ (k = d \/ k < d)
          BY <1>1, <2>1
        <4> QED BY <4>1, <4>2, <4>3
      <3> QED BY <3>1, <3>2, <3>3, <3>4 DEF Ordered
    <2>5. Owners(r)
      <3> SUFFICES ASSUME NEW u \in r.openupval PROVE \E j \in 1..Depth(r) : OwnedBy(r, u, j)
        BY DEF Owners
      <3>1. PICK w \in s.openupval : w.at = u.at
        BY DEF Called, SameUpvalues
      <3>2. PICK j \in 1..d : OwnedBy(s, w, j)
        BY DEF Owners
      <3>3. ASSUME NEW k \in j + 1..Depth(r) PROVE u.at < r.cis[k].func.at
        <4>1. CASE k = d + 1
          BY <2>1, <2>2, <3>1, <4>1
        <4>2. CASE k # d + 1
          <5>1. k \in 1..d /\ k \in j + 1..d
            BY <1>1, <2>1, <4>2
          <5> QED BY <1>2, <3>1, <3>2, <5>1 DEF OwnedBy, SameFrame
        <4> QED BY <4>1, <4>2
      <3>4. OwnedBy(r, u, j) /\ j \in 1..Depth(r)
        BY <1>1, <1>2, <2>1, <3>1, <3>2, <3>3 DEF OwnedBy, SameFrame
      <3> QED BY <3>4
    <2>6. Shape(r)
      BY <1>1, <2>2, <2>4, <2>5 DEF Shape, c
    <2>7. ASSUME NEW i \in 1..Len(q) PROVE PcallOK(r, q[i])
      <3>1. q[i].ci \in 1..d /\ q[i].ci \in 1..Depth(r) /\ q[i].ci # Depth(r)
        BY <1>1, <1>4, <2>1
      <3>2. ASSUME NEW k \in q[i].ci + 1..Depth(r) PROVE q[i].old_top <= r.cis[k].func.at
        <4>1. CASE k = d + 1
          BY <1>4, <2>1, <2>2, <4>1
        <4>2. CASE k # d + 1
          <5>1. k \in 1..d /\ k \in q[i].ci + 1..d
            BY <1>1, <2>1, <3>1, <4>2
          <5> QED BY <1>2, <1>4, <5>1 DEF PcallBelow, SameFrame
        <4> QED BY <4>1, <4>2
      <3> QED BY <1>2, <1>4, <3>1, <3>2 DEF PcallOK, PcallBelow, SameFrame
    <2>8. Pcalls(r, q)
      BY <2>7 DEF Pcalls, PcallsBelow
    <2>9. Running(r, q)
      <3>1. \A i \in 1..Len(q) : q[i].ci < Depth(r)
        BY <1>1, <1>4, <2>1
      <3> QED BY <2>1, <3>1 DEF Running, NewFrame, PcallsBelow, c
    <2> QED BY <1>1, <1>6, <2>1, <2>6, <2>8, <2>9 DEF PcallsBelow
  <1> QED BY <1>5, <1>6

(***************************************************************************)
(* Steps that write slots and move the top.                                *)
(***************************************************************************)
SameCore(s, r) ==
    /\ r \in StackT /\ r.cis = s.cis /\ r.openupval = s.openupval /\ r.size = s.size
    /\ ~r.outside /\ r.top.live /\ r.top.at <= r.size

LEMMA CoreKept ==
    ASSUME NEW s, Shape(s), NEW r, SameCore(s, r)
    PROVE  /\ Sound(r) /\ Ordered(r) /\ Owners(r) /\ SameFrames(s, r)
           /\ Depth(r) = Depth(s) /\ ci(r) = ci(s)
  <1>1. Depth(r) = Depth(s) /\ ci(r) = ci(s)
    BY DEF SameCore, Depth, ci
  <1>2. Live(r) /\ Fits(r)
    BY <1>1 DEF Shape, Sound, SameCore, Live, Fits, stack_last
  <1>3. Sound(r)
    BY <1>1, <1>2 DEF Shape, Sound, SameCore, SizeOK
  <1>4. SameFrames(s, r)
    BY <1>1 DEF SameFrames, SameCore, SameUpvalues, SameFrame
  <1>5. Ordered(r) /\ Owners(r)
    BY <1>4, SameOrder DEF Shape, Sound
  <1> QED BY <1>1, <1>3, <1>4, <1>5

LEMMA PutInside ==
    ASSUME NEW s \in StackT, ~s.outside, NEW k \in Nat, k < s.size
    PROVE  Put(s, k) = s
  <1>1. s.size \in Nat /\ ~(k >= s.size)
    BY DEF StackT
  <1>2. (s.outside \/ k >= s.size) = FALSE /\ s.outside = FALSE
    BY <1>1 DEF StackT
  <1> QED BY <1>2 DEF Put, StackT

LEMMA Pushed ==
    ASSUME NEW s, Shape(s), NEW n \in Nat, n >= 1, s.top.at + n <= s.size
    PROVE  /\ SameCore(s, Push(s, n)) /\ Push(s, n).top.at = s.top.at + n
           /\ Push(s, n).err = s.err /\ Push(s, n) \in StackT
  <1>1. s \in StackT /\ ~s.outside /\ s.top \in PtrT /\ s.top.at \in Nat /\ s.size \in Nat /\ s.top.live
    BY TopFrame DEF Shape, Sound, StackT, Live
  <1>2. Put(s, s.top.at + n - 1) = s
    BY <1>1, PutInside
  <1>3. Up(s.top, n) \in PtrT /\ Up(s.top, n).at = s.top.at + n /\ Up(s.top, n).live
    BY <1>1 DEF PtrT, Up
  <1>4. Push(s, n) = [s EXCEPT !.top = Up(s.top, n)]
    BY <1>1, <1>2 DEF Push, StackT
  <1> HIDE DEF Push, Up
  <1> QED BY <1>1, <1>3, <1>4 DEF SameCore, StackT

(* The state after a step of the whole.                                    *)
LEMMA DoInv ==
    ASSUME SpaceInv, NEW r, Do(r), Shape(r), Pcalls(r, pcalls'), errfunc' \in BOOLEAN,
           r.err \in {"ok", "overflow", "errrun", "errerr"},
           Depth(r) <= MaxFrames + 1,
           r.err = "ok" => Running(r, pcalls'),
           r.err # "ok" => pcalls' # <<>>,
           r.err = "overflow" => \A u \in r.openupval : u.at < r.top.at,
           r.size > LUAI_MAXSTACK => stack.size > LUAI_MAXSTACK \/ r.err = "overflow"
    PROVE  SpaceInv'
  <1> DEFINE t == [r EXCEPT !.err = "ok", !.p = Ptr(0)]
  <1>1. stack' = t /\ thrown' = r.err /\ crowded' = (crowded \/ r.err = "overflow")
    BY DEF Do
  <1>2. r \in StackT /\ r.top.live /\ r.top.at <= r.size /\ ~r.outside
    BY DEF Shape, Sound, Live, Fits
  <1>3. /\ t \in StackT /\ t.cis = r.cis /\ t.openupval = r.openupval /\ t.size = r.size /\ t.top = r.top
        /\ t.outside = r.outside /\ t.err = "ok"
    BY <1>2 DEF StackT, Ptr, PtrT
  <1> HIDE DEF t
  <1>4. SameCore(r, t)
    BY <1>2, <1>3 DEF SameCore
  <1>5. Sound(t) /\ SameFrames(r, t) /\ Depth(t) = Depth(r) /\ ci(t) = ci(r)
    BY <1>4, CoreKept
  <1>6. t.top.at >= r.top.at
    BY <1>2, <1>3 DEF StackT, PtrT
  <1>7. Shape(t) /\ Pcalls(t, pcalls')
    BY <1>5, <1>6, Kept
  <1>8. r.err = "ok" => Running(t, pcalls')
    BY <1>3, <1>5 DEF Running
  <1>9. crowded' \in BOOLEAN /\ (t.size > LUAI_MAXSTACK => crowded')
    BY <1>1, <1>3 DEF SpaceInv
  <1> QED BY <1>1, <1>3, <1>5, <1>7, <1>8, <1>9 DEF SpaceInv

LEMMA Prepared ==
    ASSUME NEW s, Shape(s), NEW t, SameCore(s, t), t.err = "ok", t.p.live, t.p.at < t.top.at,
           ci(s).func.at < t.p.at
    PROVE  Callable(t) /\ Ordered(t) /\ Owners(t) /\ ci(t).func.at < t.p.at /\ Depth(t) = Depth(s)
  BY CoreKept DEF Callable

LEMMA Below ==
    ASSUME NEW s, NEW t, SameCore(s, t), NEW q, Pcalls(s, q), q # <<>>,
           \A i \in 1..Len(q) : q[i].ci = Depth(s) => q[i].old_top <= t.p.at
    PROVE  PcallsBelow(t, q)
  <1>1. t.cis = s.cis /\ Depth(t) = Depth(s)
    BY DEF SameCore, Depth
  <1>2. \A i \in 1..Len(q) : PcallBelow(t, q[i])
    BY <1>1 DEF Pcalls, PcallOK, PcallBelow
  <1> QED BY <1>2 DEF Pcalls, PcallsBelow

LEMMA CallInv ==
    ASSUME SpaceInv, NEW s, Shape(s), NEW t, SameCore(s, t), t.err = "ok", t.p.live, t.p.at < t.top.at,
           ci(s).func.at < t.p.at, \A u \in s.openupval : u.at < t.p.at,
           PcallsBelow(t, pcalls'), errfunc' \in BOOLEAN, Depth(s) <= MaxFrames, MaxFrames \in Nat,
           NEW r, Called(t, r), Do(r),
           ci(s).lua \/ t.p.at < ci(s).top.at \/ (r.err = "ok" => ci(r).handler),
           s.size > LUAI_MAXSTACK => stack.size > LUAI_MAXSTACK
    PROVE  SpaceInv'
  <1>1. /\ Callable(t) /\ Ordered(t) /\ Owners(t) /\ ci(t).func.at < t.p.at /\ Depth(t) = Depth(s)
        /\ ci(t) = ci(s)
    BY Prepared, CoreKept
  <1>2. \A u \in t.openupval : u.at < t.p.at
    BY DEF SameCore
  <1>3. /\ Shape(r) /\ Pcalls(r, pcalls') /\ (r.err = "ok" => Running(r, pcalls'))
        /\ r.err # "ok" => \A u \in r.openupval : u.at < r.top.at
        /\ Depth(r) \in Depth(t)..Depth(t) + 1 /\ pcalls' # <<>>
        /\ r.err \in {"ok", "overflow", "errerr"}
    BY <1>1, <1>2, CallShape
  <1>4. Depth(r) <= MaxFrames + 1
    <2>1. Depth(s) \in Nat
      BY TopFrame
    <2> QED BY <1>1, <1>3, <2>1
  <1>5. r.size > LUAI_MAXSTACK => stack.size > LUAI_MAXSTACK \/ r.err = "overflow"
    BY DEF Called, SameCore
  <1> QED BY <1>3, <1>4, <1>5, DoInv

-----------------------------------------------------------------------------
(***************************************************************************)
(* The operations.  lua_pcall: what is pushed is called, and the call of   *)
(* the function that protects it is above all others.                      *)
(***************************************************************************)
LEMMA CallOfC ==
    ASSUME Sizes, SpaceInv, lua_pcall PROVE SpaceInv'
  <1>1. Shape(stack) /\ Pcalls(stack, pcalls) /\ Running(stack, pcalls) /\ stack.err = "ok"
    BY DEF SpaceInv, lua_pcall, InC
  <1>2. /\ ~ci(stack).lua /\ Depth(stack) < MaxFrames /\ MaxFrames \in Nat
        /\ stack.top.at < ci(stack).top.at
    BY DEF lua_pcall, InC, CanCall, Sizes
  <1>3. PICK gc \in BOOLEAN, handler \in BOOLEAN :
          /\ \E r \in luaD_precall([Push(stack, 1) EXCEPT !.p = stack.top], gc) : Do(r)
          /\ pcalls' = Append(pcalls, [ci |-> Depth(stack), old_top |-> stack.top.at, errfunc |-> errfunc])
          /\ errfunc' = handler
    BY DEF lua_pcall
  <1> DEFINE m == Push(stack, 1)
             t == [m EXCEPT !.p = stack.top]
             c == [ci |-> Depth(stack), old_top |-> stack.top.at, errfunc |-> errfunc]
  <1>4. PICK r \in luaD_precall(t, gc) : Do(r)
    BY <1>3
  <1>5. /\ Depth(stack) \in Nat /\ Depth(stack) >= 1 /\ stack.top.at \in Nat /\ stack.size \in Nat
        /\ stack \in StackT /\ stack.top \in PtrT /\ stack.top.live
        /\ ci(stack).func.at \in Nat /\ ci(stack).top.at \in Nat
        /\ ci(stack).top.at <= stack.size - EXTRA_STACK /\ EXTRA_STACK \in Nat
        /\ ci(stack).func.at < stack.top.at /\ ci(stack) = stack.cis[Depth(stack)]
    BY <1>1, TopFrame DEF Shape, Sound, Live, stack_last, StackT, Sizes
  <1>6. stack.top.at + 1 <= stack.size
    BY <1>2, <1>5
  <1>7. SameCore(stack, m) /\ m.top.at = stack.top.at + 1 /\ m.err = "ok" /\ m \in StackT
    BY <1>1, <1>6, Pushed
  <1> HIDE DEF m
  <1>8. SameCore(stack, t) /\ t.top.at = stack.top.at + 1 /\ t.err = "ok" /\ t.p = stack.top
    BY <1>5, <1>7 DEF SameCore, StackT
  <1> HIDE DEF t
  <1>9. \A u \in stack.openupval : u.at < t.p.at
    <2> SUFFICES ASSUME NEW u \in stack.openupval PROVE u.at < stack.top.at
      BY <1>8
    <2>1. u.at \in Nat /\ u.at < ci(stack).func.at
      BY <1>1, <1>2, UpvaluesUnder
    <2> QED BY <1>5, <2>1
  <1>10. PcallsBelow(t, pcalls')
    <2>1. c \in PcallT /\ c.ci = Depth(stack) /\ c.old_top = stack.top.at
      BY <1>5 DEF SpaceInv, PcallT
    <2> HIDE DEF c
    <2>2. pcalls \in Seq(PcallT) /\ Len(pcalls) \in Nat
      BY <1>1 DEF Pcalls
    <2>3. /\ pcalls' = Append(pcalls, c) /\ pcalls' \in Seq(PcallT) /\ Len(pcalls') = Len(pcalls) + 1
          /\ pcalls'[Len(pcalls) + 1] = c /\ pcalls' # <<>>
          /\ \A i \in 1..Len(pcalls) : pcalls'[i] = pcalls[i]
      BY <1>3, <2>1, <2>2 DEF c
    <2>4. t.cis = stack.cis /\ Depth(t) = Depth(stack)
      BY <1>8 DEF SameCore, Depth
    <2>5. \A i \in 1..Len(pcalls') : i \in 1..Len(pcalls) \/ i = Len(pcalls) + 1
      BY <2>2, <2>3
    <2>6. \A i \in 1..Len(pcalls) : pcalls[i].ci \in Nat /\ pcalls[i].ci < Depth(stack)
      <3> TAKE i \in 1..Len(pcalls)
      <3>1. pcalls[i] \in PcallT
        BY <2>2
      <3> QED BY <1>1, <3>1 DEF Running, PcallT
    <2>7. PcallBelow(t, c)
      <3>1. \A k \in Depth(stack) + 1..Depth(stack) : FALSE
        BY <1>5
      <3> QED BY <1>2, <1>5, <1>8, <2>1, <2>4, <3>1 DEF PcallBelow
    <2>8. \A i \in 1..Len(pcalls') : PcallBelow(t, pcalls'[i])
      <3> SUFFICES ASSUME NEW i \in 1..Len(pcalls) PROVE PcallBelow(t, pcalls[i])
        BY <2>3, <2>5, <2>7
      <3>1. pcalls[i].ci # Depth(stack)
        BY <1>5, <2>6
      <3> QED BY <1>1, <2>4, <3>1 DEF Pcalls, PcallOK, PcallBelow
    <2>9. ASSUME NEW i \in 1..Len(pcalls'), NEW j \in 1..Len(pcalls'), i < j
          PROVE  pcalls'[i].ci < pcalls'[j].ci
      <3>1. i \in 1..Len(pcalls)
        BY <2>2, <2>3, <2>9
      <3>2. CASE j = Len(pcalls) + 1
        BY <2>1, <2>3, <2>6, <3>1, <3>2
      <3>3. CASE j \in 1..Len(pcalls)
        BY <1>1, <2>3, <2>9, <3>1, <3>3 DEF Pcalls
      <3> QED BY <2>5, <3>2, <3>3
    <2>10. pcalls'[1].ci = 1
      <3>1. CASE pcalls = <<>>
        <4>1. Len(pcalls) = 0 /\ Depth(stack) = 1
          BY <1>1, <1>5, <3>1 DEF Running
        <4> QED BY <2>1, <2>3, <4>1
      <3>2. CASE pcalls # <<>>
        <4>1. 1 \in 1..Len(pcalls)
          BY <2>2, <3>2
        <4> QED BY <1>1, <2>3, <3>2, <4>1 DEF Pcalls
      <3> QED BY <3>1, <3>2
    <2> QED BY <2>3, <2>8, <2>9, <2>10 DEF PcallsBelow
  <1>11. /\ Shape(stack) /\ SameCore(stack, t) /\ t.err = "ok" /\ t.p.live /\ t.p.at < t.top.at
         /\ ci(stack).func.at < t.p.at /\ t.p.at < ci(stack).top.at
    BY <1>1, <1>2, <1>5, <1>8
  <1>12. Called(t, r)
    <2>1. Callable(t)
      BY ONLY <1>11, Prepared
    <2> QED BY <1>4, <2>1, Precall
  <1>13. errfunc' \in BOOLEAN /\ Depth(stack) <= MaxFrames /\ MaxFrames \in Nat /\ Do(r)
    BY <1>2, <1>3, <1>4, <1>5
  <1> QED BY ONLY SpaceInv, <1>9, <1>10, <1>11, <1>12, <1>13, CallInv

(* In a Lua function: it is called under protection, in its frame.          *)
LEMMA InLuaFunction ==
    ASSUME Sizes, SpaceInv, thrown = "ok", ci(stack).lua
    PROVE  /\ Shape(stack) /\ Pcalls(stack, pcalls) /\ Running(stack, pcalls) /\ stack.err = "ok"
           /\ pcalls # <<>> /\ \A i \in 1..Len(pcalls) : pcalls[i].ci # Depth(stack)
           /\ stack \in StackT /\ ci(stack).local = ci(stack).base /\ ci(stack).base \in PtrT
           /\ ci(stack).base.live /\ ci(stack).func.at < ci(stack).base.at
           /\ ci(stack).func.at \in Nat /\ ci(stack).base.at \in Nat
           /\ stack.top.at = ci(stack).top.at /\ stack.top.at \in Nat /\ stack.size \in Nat
           /\ stack.top.at + 1 <= stack.size - 1 /\ stack.top.at + TMSlots <= stack.size
           /\ TMSlots \in Nat /\ TMSlots >= 1 /\ ~stack.outside /\ stack.top \in PtrT /\ stack.top.live
           /\ \A u \in stack.openupval : u.at < stack.top.at
  <1>1. Shape(stack) /\ Pcalls(stack, pcalls) /\ Running(stack, pcalls) /\ stack.err = "ok"
    BY DEF SpaceInv
  <1>2. /\ Depth(stack) \in Nat /\ Depth(stack) > 1 /\ stack \in StackT /\ stack.top.at \in Nat /\ stack.size \in Nat
        /\ ci(stack) = stack.cis[Depth(stack)] /\ Depth(stack) \in 1..Depth(stack)
        /\ ci(stack) \in FrameT /\ ci(stack).func.at \in Nat /\ ci(stack).base.at \in Nat
        /\ ci(stack).func.at < ci(stack).base.at /\ ci(stack).top.at <= stack.size - EXTRA_STACK
    BY <1>1, TopFrame DEF stack_last
  <1>3. EXTRA_STACK \in Nat /\ EXTRA_STACK >= 2 /\ TMSlots \in Nat /\ TMSlots >= 1 /\ TMSlots <= EXTRA_STACK
    BY DEF Sizes
  <1>4. ci(stack).base \in PtrT /\ ci(stack).base.live /\ stack.top \in PtrT /\ stack.top.live /\ ~stack.outside
    BY <1>1, <1>2 DEF FrameT, StackT, Shape, Sound, Live, FrameLive
  <1>5. stack.top.at = ci(stack).top.at /\ ci(stack).local = ci(stack).base /\ pcalls # <<>>
    BY <1>1, <1>2 DEF Running
  <1>6. \A i \in 1..Len(pcalls) : pcalls[i].ci # Depth(stack)
    BY <1>1, <1>2 DEF Running
  <1>7. \A u \in stack.openupval : u.at < stack.top.at
    BY <1>1, <1>5, UpvaluesUnder
  <1>8. stack.top.at + 1 <= stack.size - 1 /\ stack.top.at + TMSlots <= stack.size
    <2>1. stack.top.at <= stack.size - EXTRA_STACK /\ stack.top.at \in Nat /\ stack.size \in Nat
      BY <1>2, <1>5
    <2> QED BY ONLY <1>3, <2>1
  <1> QED BY <1>1, <1>2, <1>3, <1>4, <1>5, <1>6, <1>7, <1>8

LEMMA CallOfLua ==
    ASSUME Sizes, SpaceInv, op_call PROVE SpaceInv'
  <1>1. thrown = "ok" /\ ci(stack).lua /\ Depth(stack) < MaxFrames /\ MaxFrames \in Nat
        /\ UNCHANGED <<pcalls, errfunc>>
    BY DEF op_call, InLua, CanCall, Sizes
  <1>2. PICK k \in Registers, gc \in BOOLEAN :
          LET f == Up(ci(stack).local, k - ci(stack).local.at)
          IN  /\ \A u \in stack.openupval : u.at < k
              /\ \E r \in luaD_precall([Put(stack, k) EXCEPT !.p = f, !.top = Up(f, 1)], gc) : Do(r)
    BY DEF op_call
  <1> DEFINE f == Up(ci(stack).local, k - ci(stack).local.at)
             t == [Put(stack, k) EXCEPT !.p = f, !.top = Up(f, 1)]
  <1>3. PICK r \in luaD_precall(t, gc) : Do(r)
    BY <1>2
  <1>4. /\ Shape(stack) /\ Pcalls(stack, pcalls) /\ stack.err = "ok"
        /\ pcalls # <<>> /\ \A i \in 1..Len(pcalls) : pcalls[i].ci # Depth(stack)
        /\ stack \in StackT /\ ci(stack).local = ci(stack).base /\ ci(stack).base \in PtrT
        /\ ci(stack).base.live /\ ci(stack).func.at < ci(stack).base.at
        /\ ci(stack).func.at \in Nat /\ ci(stack).base.at \in Nat
        /\ stack.top.at = ci(stack).top.at /\ stack.top.at \in Nat /\ stack.size \in Nat
        /\ stack.top.at + 1 <= stack.size - 1 /\ ~stack.outside
    BY <1>1, InLuaFunction
  <1>5. k \in Nat /\ ci(stack).base.at <= k /\ k < stack.top.at
    BY <1>4 DEF Registers
  <1>6. f \in PtrT /\ f.at = k /\ f.live
    BY <1>4, <1>5 DEF PtrT, Up
  <1> HIDE DEF f
  <1>7. Up(f, 1) \in PtrT /\ Up(f, 1).at = k + 1 /\ Up(f, 1).live
    BY <1>5, <1>6 DEF PtrT, Up
  <1>8. Put(stack, k) = stack
    BY <1>4, <1>5, PutInside
  <1>9. SameCore(stack, t) /\ t.err = "ok" /\ t.p = f /\ t.top.at = k + 1
    <2> DEFINE u == Up(f, 1)
    <2>1. t = [stack EXCEPT !.p = f, !.top = u]
      BY <1>8
    <2>2. u \in PtrT /\ u.at = k + 1 /\ u.live /\ k + 1 <= stack.size
      BY <1>4, <1>5, <1>7
    <2> HIDE DEF u, t
    <2>3. /\ t \in StackT /\ t.cis = stack.cis /\ t.openupval = stack.openupval /\ t.size = stack.size
          /\ t.outside = stack.outside /\ t.top = u /\ t.p = f /\ t.err = stack.err
      BY <1>4, <1>6, <2>1, <2>2 DEF StackT
    <2> QED BY <1>4, <2>2, <2>3 DEF SameCore
  <1> HIDE DEF t
  <1>10. PcallsBelow(t, pcalls)
    BY <1>4, <1>9, Below
  <1>11. t.p.live /\ t.p.at < t.top.at /\ ci(stack).func.at < t.p.at /\ \A u \in stack.openupval : u.at < t.p.at
    BY <1>2, <1>4, <1>5, <1>6, <1>9
  <1>12. Called(t, r)
    BY <1>3, <1>4, <1>9, <1>11, Prepared, Precall
  <1>13. PcallsBelow(t, pcalls') /\ errfunc' \in BOOLEAN /\ Depth(stack) <= MaxFrames
    <2>1. Depth(stack) \in Nat
      BY <1>4, TopFrame
    <2> QED BY <1>1, <1>10, <2>1 DEF SpaceInv
  <1> QED BY <1>1, <1>3, <1>4, <1>9, <1>11, <1>12, <1>13, CallInv

LEMMA CallOfMetamethod ==
    ASSUME Sizes, SpaceInv, luaT_callTM PROVE SpaceInv'
  <1>1. thrown = "ok" /\ ci(stack).lua /\ Depth(stack) < MaxFrames /\ MaxFrames \in Nat
        /\ UNCHANGED <<pcalls, errfunc>>
    BY DEF luaT_callTM, InLua, CanCall, Sizes
  <1> DEFINE m == Push(stack, TMSlots)
             t == [m EXCEPT !.p = stack.top]
  <1>2. PICK gc \in BOOLEAN : \E r \in luaD_precall(t, gc) : Do(r)
    BY DEF luaT_callTM
  <1>3. PICK r \in luaD_precall(t, gc) : Do(r)
    BY <1>2
  <1>4. /\ Shape(stack) /\ Pcalls(stack, pcalls) /\ stack.err = "ok"
        /\ pcalls # <<>> /\ \A i \in 1..Len(pcalls) : pcalls[i].ci # Depth(stack)
        /\ stack.top.at \in Nat /\ ci(stack).func.at \in Nat
        /\ stack.top.at + TMSlots <= stack.size /\ TMSlots \in Nat /\ TMSlots >= 1
        /\ stack.top \in PtrT /\ stack.top.live /\ ci(stack).func.at < stack.top.at
        /\ \A u \in stack.openupval : u.at < stack.top.at
    BY <1>1, InLuaFunction DEF Shape
  <1>5. SameCore(stack, m) /\ m.top.at = stack.top.at + TMSlots /\ m.err = "ok" /\ m \in StackT
    BY <1>4, Pushed
  <1> HIDE DEF m
  <1>6. SameCore(stack, t) /\ t.top.at = stack.top.at + TMSlots /\ t.err = "ok" /\ t.p = stack.top
    BY <1>4, <1>5 DEF SameCore, StackT
  <1> HIDE DEF t
  <1>7. PcallsBelow(t, pcalls)
    BY <1>4, <1>6, Below
  <1>8. t.p.live /\ t.p.at < t.top.at /\ ci(stack).func.at < t.p.at /\ \A u \in stack.openupval : u.at < t.p.at
    BY <1>4, <1>6
  <1>9. Called(t, r)
    BY <1>3, <1>4, <1>6, <1>8, Prepared, Precall
  <1>10. PcallsBelow(t, pcalls') /\ errfunc' \in BOOLEAN /\ Depth(stack) <= MaxFrames
    <2>1. Depth(stack) \in Nat
      BY <1>4, TopFrame
    <2> QED BY <1>1, <1>7, <2>1 DEF SpaceInv
  <1> QED BY <1>1, <1>3, <1>4, <1>6, <1>8, <1>9, <1>10, CallInv

(***************************************************************************)
(* Steps that leave the frames as they are.                                *)
(***************************************************************************)
LEMMA SameRun ==
    ASSUME SpaceInv, thrown = "ok", NEW r, Sound(r), SameFrames(stack, r), r.top.at >= stack.top.at, Do(r),
           r.err = "ok", UNCHANGED <<pcalls, errfunc>>,
           ci(stack).lua => r.top.at = stack.top.at /\ ci(r).local = ci(r).base,
           ~ci(stack).lua => r.top.at <= ci(stack).top.at,
           r.size > LUAI_MAXSTACK => stack.size > LUAI_MAXSTACK
    PROVE  SpaceInv'
  <1>1. Shape(stack) /\ Pcalls(stack, pcalls) /\ Running(stack, pcalls)
    BY DEF SpaceInv
  <1>2. Shape(r) /\ Pcalls(r, pcalls)
    BY <1>1, Kept
  <1>3. Depth(r) = Depth(stack) /\ SameFrame(ci(stack), ci(r))
    BY <1>1, TopFrame DEF SameFrames, ci
  <1>4. Running(r, pcalls)
    BY <1>1, <1>3 DEF Running, SameFrame
  <1>5. errfunc' \in BOOLEAN /\ Depth(r) <= MaxFrames + 1 /\ pcalls' = pcalls
    BY <1>3 DEF SpaceInv
  <1> QED BY <1>2, <1>4, <1>5, DoInv

LEMMA Pushes ==
    ASSUME Sizes, SpaceInv, lua_push PROVE SpaceInv'
  <1>1. thrown = "ok" /\ ~ci(stack).lua /\ stack.top.at < ci(stack).top.at /\ Do(Push(stack, 1))
        /\ UNCHANGED <<pcalls, errfunc>>
    BY DEF lua_push, InC
  <1>2. /\ Shape(stack) /\ stack.err = "ok" /\ stack.top.at \in Nat /\ stack.size \in Nat
        /\ ci(stack).top.at \in Nat /\ ci(stack).top.at <= stack.size - EXTRA_STACK /\ EXTRA_STACK \in Nat
    BY TopFrame DEF SpaceInv, stack_last, Sizes
  <1>3. stack.top.at + 1 <= stack.size
    BY <1>1, <1>2
  <1> DEFINE r == Push(stack, 1)
  <1>4. SameCore(stack, r) /\ r.top.at = stack.top.at + 1 /\ r.err = "ok"
    BY <1>2, <1>3, Pushed
  <1> HIDE DEF r
  <1>5. Sound(r) /\ SameFrames(stack, r)
    BY <1>2, <1>4, CoreKept
  <1>6. r.top.at >= stack.top.at /\ r.top.at <= ci(stack).top.at /\ r.size = stack.size
    BY <1>1, <1>2, <1>4 DEF SameCore
  <1>7. Do(r)
    BY <1>1 DEF r
  <1> QED BY <1>1, <1>4, <1>5, <1>6, <1>7, SameRun

(* Protect: the running function takes its base again.                      *)
LEMMA Protected ==
    ASSUME NEW m, Sound(m)
    PROVE  LET r == Protect(m)
           IN  /\ Sound(r) /\ SameFrames(m, r) /\ ci(r).local = ci(r).base /\ SameFrame(ci(m), ci(r))
               /\ ci(r).top = ci(m).top /\ ci(r).lua = ci(m).lua
               /\ r.top = m.top /\ r.size = m.size /\ r.err = m.err /\ r.openupval = m.openupval
  <1> DEFINE d == Depth(m)
             c == [m.cis[d] EXCEPT !.local = m.cis[d].base]
             frames == [m.cis EXCEPT ![d] = c]
             r == Protect(m)
  <1>1. r = [m EXCEPT !.cis = frames]
    BY DEF Protect, ci
  <1>2. /\ m \in StackT /\ m.cis \in Seq(FrameT) /\ d \in 1..d /\ d = Len(m.cis) /\ d \in Nat
        /\ m.cis[d] \in FrameT /\ d >= 1
    BY FrameTyped DEF Sound, StackT, Depth
  <1>3. c \in FrameT /\ SameFrame(m.cis[d], c) /\ c.local = c.base /\ (FrameLive(m.cis[d]) => FrameLive(c))
        /\ c.top = m.cis[d].top /\ c.lua = m.cis[d].lua
    BY <1>2 DEF FrameT, SameFrame, FrameLive
  <1> HIDE DEF c
  <1>4. /\ frames \in Seq(FrameT) /\ Len(frames) = Len(m.cis) /\ frames[d] = c
        /\ \A k \in 1..Len(m.cis) : k # d => frames[k] = m.cis[k]
    <2>1. m.cis \in Seq(FrameT) /\ d \in 1..Len(m.cis)
      BY <1>2
    <2> HIDE DEF d
    <2> QED BY <1>3, <2>1
  <1> HIDE DEF frames
  <1>5. /\ r \in StackT /\ r.cis = frames /\ r.top = m.top /\ r.openupval = m.openupval
        /\ r.size = m.size /\ r.outside = m.outside /\ r.err = m.err
    BY <1>1, <1>2, <1>4 DEF StackT
  <1> HIDE DEF r
  <1>6. /\ Depth(r) = d /\ ci(r) = c
        /\ \A k \in 1..d : SameFrame(m.cis[k], r.cis[k]) /\ r.cis[k].top = m.cis[k].top
                           /\ (FrameLive(m.cis[k]) => FrameLive(r.cis[k]))
    BY <1>2, <1>3, <1>4, <1>5 DEF Depth, ci, SameFrame
  <1>7. Sound(r)
    BY <1>2, <1>5, <1>6 DEF Sound, SizeOK, Live, Fits, stack_last
  <1>8. SameFrames(m, r)
    BY <1>5, <1>6 DEF SameFrames, SameUpvalues
  <1> QED BY <1>3, <1>5, <1>6, <1>7, <1>8 DEF r, ci

LEMMA Collects ==
    ASSUME Sizes, SpaceInv, collect PROVE SpaceInv'
  <1> DEFINE m == luaD_shrinkstack(stack)
             r == IF ci(stack).lua THEN Protect(m) ELSE m
  <1>1. thrown = "ok" /\ Do(r) /\ UNCHANGED <<pcalls, errfunc>>
    BY DEF collect
  <1>2. /\ Shape(stack) /\ stack.err = "ok" /\ Running(stack, pcalls)
        /\ stack \in StackT /\ SizeOK(stack) /\ Fits(stack) /\ Live(stack) /\ ~stack.outside
        /\ Depth(stack) \in Nat /\ Depth(stack) >= 1 /\ stack.top.at \in Nat
    BY <1>1, TopFrame DEF SpaceInv, Shape, Sound
  <1>3. /\ Same(stack, m) /\ SizeOK(m) /\ Fits(m) /\ Live(m) /\ m.err = "ok"
        /\ m.size > LUAI_MAXSTACK => stack.size > LUAI_MAXSTACK
    BY <1>2, ShrinkStack
  <1> HIDE DEF m
  <1>4. /\ m \in StackT /\ Depth(m) = Depth(stack) /\ m.top.at = stack.top.at /\ ~m.outside
        /\ SameFrames(stack, m) /\ Sound(m)
    BY <1>2, <1>3 DEF Same, SameFrames, Sound
  <1>5. CASE ~ci(stack).lua
    <2>1. r = m /\ r.top.at <= ci(stack).top.at
      BY <1>2, <1>4, <1>5 DEF Running
    <2> HIDE DEF r
    <2> QED BY <1>1, <1>2, <1>3, <1>4, <1>5, <2>1, SameRun
  <1>6. CASE ci(stack).lua
    <2>1. r = Protect(m)
      BY <1>6
    <2> HIDE DEF r
    <2>2. /\ Sound(r) /\ SameFrames(m, r) /\ ci(r).local = ci(r).base
          /\ r.top = m.top /\ r.size = m.size /\ r.err = m.err
      BY <1>4, <2>1, Protected
    <2>3. SameFrames(stack, r)
      <3>1. SameUpvalues(stack, r)
        BY <1>4, <2>2 DEF SameFrames, SameUpvalues
      <3>2. \A k \in 1..Depth(stack) : SameFrame(stack.cis[k], r.cis[k])
        BY <1>4, <2>2 DEF SameFrames, SameFrame
      <3> QED BY <1>4, <2>2, <3>1, <3>2 DEF SameFrames
    <2>4. r.top.at = stack.top.at /\ r.top.at >= stack.top.at /\ r.err = "ok"
          /\ (r.size > LUAI_MAXSTACK => stack.size > LUAI_MAXSTACK)
      BY <1>2, <1>3, <1>4, <2>2
    <2> QED BY <1>1, <1>6, <2>2, <2>3, <2>4, SameRun
  <1> QED BY <1>5, <1>6

(* lua_checkstack raises the top of a C function's frame.                   *)
LEMMA Raised ==
    ASSUME NEW s, Shape(s), ~ci(s).lua, NEW p \in PtrT, p.live,
           ci(s).top.at <= p.at, p.at <= stack_last(s),
           NEW q, Pcalls(s, q), Running(s, q)
    PROVE  LET r == [s EXCEPT !.cis[Depth(s)].top = p]
           IN  /\ Shape(r) /\ Pcalls(r, q) /\ Running(r, q)
               /\ Depth(r) = Depth(s) /\ r.size = s.size /\ r.err = s.err
  <1> DEFINE d == Depth(s)
             c == [s.cis[d] EXCEPT !.top = p]
             r == [s EXCEPT !.cis[Depth(s)].top = p]
  <1>1. /\ d \in Nat /\ d >= 1 /\ d \in 1..d /\ 1 \in 1..d /\ s \in StackT /\ ci(s) = s.cis[d] /\ ci(s) \in FrameT
        /\ ci(s).func.at \in Nat /\ ci(s).top.at \in Nat /\ s.top.at \in Nat /\ p.at \in Nat
        /\ ci(s).func.at < ci(s).top.at /\ s.top.at <= ci(s).top.at
    BY TopFrame DEF PtrT, Running
  <1>2. r = [s EXCEPT !.cis = [s.cis EXCEPT ![d] = c]]
    OBVIOUS
  <1>3. /\ c \in FrameT /\ c.func = ci(s).func /\ c.base = ci(s).base /\ c.top = p /\ c.lua = ci(s).lua
        /\ c.handler = ci(s).handler
    BY <1>1 DEF FrameT
  <1> HIDE DEF c
  <1>4. s.cis \in Seq(FrameT) /\ d = Len(s.cis)
    BY <1>1 DEF StackT, Depth
  <1> DEFINE frames == [s.cis EXCEPT ![d] = c]
  <1>5. /\ frames \in Seq(FrameT) /\ Len(frames) = d /\ frames[d] = c
        /\ \A k \in 1..d : k # d => frames[k] = s.cis[k]
    BY <1>1, <1>3, <1>4
  <1> HIDE DEF frames
  <1>6. /\ r \in StackT /\ r.cis = frames /\ r.top = s.top /\ r.openupval = s.openupval
        /\ r.size = s.size /\ r.outside = s.outside /\ r.err = s.err
    BY <1>1, <1>2, <1>5 DEF StackT, frames
  <1> HIDE DEF r
  <1>7. /\ Depth(r) = d /\ ci(r) = c /\ r.cis[d] = c
        /\ \A k \in 1..d : k # d => r.cis[k] = s.cis[k]
    BY <1>5, <1>6 DEF Depth, ci
  <1>8. \A k \in 1..d : /\ r.cis[k].func = s.cis[k].func /\ r.cis[k].base = s.cis[k].base
                        /\ r.cis[k].lua = s.cis[k].lua /\ r.cis[k].handler = s.cis[k].handler
                        /\ s.cis[k].top.at \in Nat /\ r.cis[k].top.at \in Nat
                        /\ s.cis[k].top.at <= r.cis[k].top.at
                        /\ (k # d => r.cis[k].top = s.cis[k].top)
                        /\ s.cis[k].func.at \in Nat
    BY <1>1, <1>3, <1>7, FrameTyped
  <1>9. Sound(r)
    <2>1. Live(r)
      BY <1>1, <1>3, <1>6, <1>7 DEF Shape, Sound, Live, FrameLive
    <2>2. Fits(r)
      BY <1>3, <1>6, <1>7 DEF Shape, Sound, Fits, stack_last
    <2> QED BY <1>1, <1>6, <1>7, <2>1, <2>2 DEF Shape, Sound, SizeOK
  <1>10. Ordered(r)
    <2>1. \A k \in 1..d : FrameOrder(r.cis[k])
      BY <1>8 DEF Shape, Ordered, FrameOrder
    <2>2. ASSUME NEW k \in 1..d - 1
          PROVE  ~r.cis[k].lua /\ ~r.cis[k + 1].handler => r.cis[k + 1].func.at < r.cis[k].top.at
      <3>1. k \in 1..d /\ k + 1 \in 1..d /\ k # d
        BY <1>1
      <3> QED BY <1>8, <3>1 DEF Shape, Ordered
    <2>3. ~r.cis[1].lua /\ \A k, l \in 1..d : k < l => r.cis[k].func.at < r.cis[l].func.at
      BY <1>1, <1>8 DEF Shape, Ordered
    <2> QED BY <1>7, <2>1, <2>2, <2>3 DEF Ordered
  <1>11. Owners(r)
    <2> SUFFICES ASSUME NEW u \in s.openupval PROVE \E j \in 1..d : OwnedBy(r, u, j)
      BY <1>6, <1>7 DEF Owners
    <2>1. PICK j \in 1..d : OwnedBy(s, u, j)
      BY DEF Shape, Owners
    <2>2. j # d /\ \A k \in j + 1..d : k \in 1..d
      BY <1>1, <2>1 DEF OwnedBy
    <2>3. OwnedBy(r, u, j)
      BY <1>7, <1>8, <2>1, <2>2 DEF OwnedBy
    <2> QED BY <2>3
  <1>12. Shape(r)
    BY <1>3, <1>6, <1>7, <1>9, <1>10, <1>11 DEF Shape
  <1>13. Pcalls(r, q)
    <2>1. ASSUME NEW i \in 1..Len(q) PROVE PcallOK(r, q[i])
      <3>1. PcallOK(s, q[i]) /\ q[i] \in PcallT
        BY DEF Pcalls
      <3>2. q[i].old_top \in Nat /\ q[i].ci \in 1..d /\ \A k \in q[i].ci + 1..d : k \in 1..d
        BY <1>1, <3>1 DEF PcallOK, PcallT
      <3>3. q[i].old_top < r.cis[q[i].ci].top.at
        BY <1>8, <3>1, <3>2 DEF PcallOK
      <3> QED BY <1>6, <1>7, <1>8, <3>1, <3>2, <3>3 DEF PcallOK
    <2> QED BY <2>1 DEF Pcalls
  <1>14. Running(r, q)
    BY <1>1, <1>3, <1>6, <1>7 DEF Running
  <1> QED BY <1>6, <1>7, <1>12, <1>13, <1>14 DEF r

LEMMA Checks ==
    ASSUME Sizes, SpaceInv, lua_checkstack PROVE SpaceInv'
  <1>1. thrown = "ok" /\ ~ci(stack).lua /\ UNCHANGED <<pcalls, errfunc>>
    BY DEF lua_checkstack, InC
  <1>2. PICK n \in Asked :
          LET fits == stack_last(stack) - stack.top.at > n
              s == IF fits THEN stack
                   ELSE IF stack.top.at + EXTRA_STACK > LUAI_MAXSTACK - n THEN [stack EXCEPT !.err = "no"]
                   ELSE luaD_growstack(stack, n)
              top == ci(s).top.at
          IN  Do(IF s.err # "ok" THEN stack
                 ELSE [s EXCEPT !.cis[Depth(s)].top = IF top < s.top.at + n THEN Up(s.top, n) ELSE @])
    BY DEF lua_checkstack
  <1> DEFINE fits == stack_last(stack) - stack.top.at > n
             s == IF fits THEN stack
                  ELSE IF stack.top.at + EXTRA_STACK > LUAI_MAXSTACK - n THEN [stack EXCEPT !.err = "no"]
                  ELSE luaD_growstack(stack, n)
             p == IF ci(s).top.at < s.top.at + n THEN Up(s.top, n) ELSE ci(s).top
             r == [s EXCEPT !.cis[Depth(s)].top = p]
  <1>3. /\ Shape(stack) /\ stack.err = "ok" /\ Pcalls(stack, pcalls) /\ Running(stack, pcalls)
        /\ stack \in StackT /\ SizeOK(stack) /\ Fits(stack) /\ Live(stack) /\ ~stack.outside
        /\ stack.top.at \in Nat /\ stack.size \in Nat /\ EXTRA_STACK \in Nat /\ n \in Nat
        /\ errfunc' \in BOOLEAN /\ pcalls' = pcalls /\ Depth(stack) <= MaxFrames + 1
        /\ Depth(stack) \in Nat /\ Depth(stack) >= 1
    BY <1>1, TopFrame DEF SpaceInv, Shape, Sound, Sizes
  <1>4. CASE s.err # "ok"
    <2>1. Do(stack)
      BY <1>2, <1>4
    <2> QED BY <1>3, <2>1, DoInv
  <1>5. CASE s.err = "ok"
    <2>1. Do([s EXCEPT !.cis[Depth(s)].top = IF ci(s).top.at < s.top.at + n THEN Up(s.top, n) ELSE @])
      BY <1>2, <1>5
    <2>2. Do(r)
      BY <2>1 DEF ci
    <2>4. /\ Same(stack, s) /\ SizeOK(s) /\ Fits(s) /\ Live(s) /\ stack.top.at + n <= stack_last(s)
          /\ s.size > LUAI_MAXSTACK => stack.size > LUAI_MAXSTACK
      <3>1. CASE fits
        <4>1. s = stack
          BY <3>1
        <4>2. stack.top.at + n <= stack_last(stack)
          BY <1>3, <3>1 DEF stack_last
        <4> HIDE DEF s
        <4> QED BY <1>3, <4>1, <4>2, SameSelf
      <3>2. CASE ~fits
        <4>1. s # [stack EXCEPT !.err = "no"]
          <5>1. [stack EXCEPT !.err = "no"].err = "no"
            BY <1>3 DEF StackT
          <5> HIDE DEF s
          <5> QED BY <1>5, <5>1
        <4>2. s = luaD_growstack(stack, n)
          BY <3>2, <4>1
        <4> HIDE DEF s
        <4> QED BY <1>3, <1>5, <4>2, GrowStack
      <3> QED BY <3>1, <3>2
    <2> HIDE DEF s
    <2>5. Sound(s) /\ SameFrames(stack, s) /\ s.top.at = stack.top.at
      BY <1>3, <2>4 DEF Same, SameFrames, Sound
    <2>6. Shape(s) /\ Pcalls(s, pcalls)
      <3>1. s.top.at >= stack.top.at
        BY <1>3, <2>5
      <3> QED BY <1>3, <2>5, <3>1, Kept
    <2>7. ~ci(s).lua /\ Running(s, pcalls) /\ Depth(s) = Depth(stack)
      <3>1. Depth(s) = Depth(stack) /\ SameFrame(ci(stack), ci(s))
        BY <1>3, <2>5 DEF SameFrames, ci
      <3> QED BY <1>1, <1>3, <2>5, <3>1 DEF Running, SameFrame
    <2>8. p \in PtrT /\ p.live /\ ci(s).top.at <= p.at /\ p.at <= stack_last(s)
      <3>1. /\ s \in StackT /\ s.top \in PtrT /\ s.top.at \in Nat /\ s.top.live /\ ci(s) \in FrameT
            /\ ci(s).top.at \in Nat /\ ci(s).top.at <= stack_last(s)
            /\ ci(s) = s.cis[Depth(s)] /\ Depth(s) \in 1..Depth(s)
        BY <1>3, <2>6, <2>7, TopFrame DEF StackT, Shape, Sound, Live
      <3>2. ci(s).top \in PtrT /\ ci(s).top.live
        BY <3>1, <2>6 DEF FrameT, Shape, Sound, Live, FrameLive
      <3>3. Up(s.top, n) \in PtrT /\ Up(s.top, n).live /\ Up(s.top, n).at = s.top.at + n
        BY <1>3, <3>1 DEF PtrT, Up
      <3>4. CASE ci(s).top.at < s.top.at + n
        <4>1. p = Up(s.top, n)
          BY <3>4
        <4> HIDE DEF p
        <4> QED BY <1>3, <2>4, <2>5, <3>1, <3>3, <3>4, <4>1
      <3>5. CASE ~(ci(s).top.at < s.top.at + n)
        <4>1. p = ci(s).top
          BY <3>5
        <4> HIDE DEF p
        <4> QED BY <3>1, <3>2, <4>1
      <3> QED BY <3>4, <3>5
    <2> HIDE DEF p
    <2>9. /\ Shape(r) /\ Pcalls(r, pcalls) /\ Running(r, pcalls)
          /\ Depth(r) = Depth(s) /\ r.size = s.size /\ r.err = s.err
      BY <2>6, <2>7, <2>8, Raised
    <2> HIDE DEF r
    <2> QED BY <1>3, <1>5, <2>2, <2>4, <2>7, <2>9, DoInv
  <1> QED BY <1>4, <1>5

LEMMA FindsUpvalue ==
    ASSUME Sizes, SpaceInv, luaF_findupval PROVE SpaceInv'
  <1>1. thrown = "ok" /\ ci(stack).lua /\ UNCHANGED <<pcalls, errfunc>>
    BY DEF luaF_findupval, InLua
  <1>2. PICK k \in Registers :
          Do([stack EXCEPT !.openupval = @ \cup {Up(ci(stack).local, k - ci(stack).local.at)}])
    BY DEF luaF_findupval
  <1> DEFINE w == Up(ci(stack).local, k - ci(stack).local.at)
             r == [stack EXCEPT !.openupval = @ \cup {w}]
  <1>3. /\ Shape(stack) /\ Pcalls(stack, pcalls) /\ Running(stack, pcalls) /\ stack.err = "ok"
        /\ stack \in StackT /\ ci(stack).local = ci(stack).base /\ ci(stack).base \in PtrT
        /\ ci(stack).base.live /\ ci(stack).base.at \in Nat
        /\ stack.top.at = ci(stack).top.at /\ stack.top.at \in Nat
    BY <1>1, InLuaFunction
  <1>4. k \in Nat /\ ci(stack).base.at <= k /\ k < ci(stack).top.at
    BY <1>3 DEF Registers
  <1>5. w \in PtrT /\ w.at = k /\ w.live
    BY <1>3, <1>4 DEF PtrT, Up
  <1> HIDE DEF w
  <1>6. /\ r \in StackT /\ r.cis = stack.cis /\ r.top = stack.top /\ r.openupval = stack.openupval \cup {w}
        /\ r.size = stack.size /\ r.outside = stack.outside /\ r.err = "ok"
    <2>1. stack.openupval \cup {w} \in SUBSET PtrT
      BY <1>3, <1>5 DEF StackT
    <2> QED BY <1>3, <2>1 DEF StackT
  <1>7. Do(r)
    BY <1>2 DEF w
  <1> HIDE DEF r
  <1>8. Depth(r) = Depth(stack) /\ ci(r) = ci(stack)
    BY <1>6 DEF Depth, ci
  <1>9. Sound(r)
    BY <1>3, <1>5, <1>6, <1>8 DEF Shape, Sound, SizeOK, Live, Fits, stack_last
  <1>10. Owners(r)
    <2> SUFFICES ASSUME NEW u \in r.openupval PROVE \E j \in 1..Depth(r) : OwnedBy(r, u, j)
      BY DEF Owners
    <2>1. CASE u = w
      <3>1. /\ Depth(stack) \in 1..Depth(stack) /\ ci(stack) = stack.cis[Depth(stack)]
            /\ \A j \in Depth(stack) + 1..Depth(stack) : FALSE
        BY <1>3, TopFrame
      <3>2. OwnedBy(r, u, Depth(stack))
        BY <1>1, <1>4, <1>5, <1>6, <1>8, <2>1, <3>1 DEF OwnedBy
      <3> QED BY <1>8, <3>1, <3>2
    <2>2. CASE u \in stack.openupval
      <3>1. PICK j \in 1..Depth(stack) : OwnedBy(stack, u, j)
        BY <1>3, <2>2 DEF Shape, Owners
      <3>2. OwnedBy(r, u, j)
        BY <1>6, <1>8, <3>1 DEF OwnedBy
      <3> QED BY <1>8, <3>2
    <2> QED BY <1>6, <2>1, <2>2
  <1>11. Shape(r) /\ Pcalls(r, pcalls) /\ Running(r, pcalls)
    <2>1. Ordered(r)
      BY <1>3, <1>6, <1>8 DEF Shape, Ordered
    <2>2. Shape(r)
      BY <1>3, <1>6, <1>8, <1>9, <1>10, <2>1 DEF Shape
    <2>3. Pcalls(r, pcalls)
      BY <1>3, <1>6, <1>8 DEF Pcalls, PcallOK
    <2>4. Running(r, pcalls)
      BY <1>3, <1>6, <1>8 DEF Running
    <2> QED BY <2>2, <2>3, <2>4
  <1>12. errfunc' \in BOOLEAN /\ Depth(r) <= MaxFrames + 1 /\ pcalls' = pcalls
    BY <1>1, <1>8 DEF SpaceInv
  <1> QED BY <1>6, <1>7, <1>11, <1>12, DoInv

-----------------------------------------------------------------------------
(***************************************************************************)
(* Errors.  A handler is called below its message, or the error goes on.   *)
(***************************************************************************)
LEMMA Handled ==
    ASSUME NEW s, NEW r, Called(s, r), r.err = "ok", Depth(s) \in Nat
    PROVE  LET h == [r EXCEPT !.cis[Depth(r)].handler = TRUE]
           IN  Called(s, h) /\ ci(h).handler /\ h.err = "ok"
  <1> DEFINE d == Depth(r)
             c == [r.cis[d] EXCEPT !.handler = TRUE]
             frames == [r.cis EXCEPT ![d] = c]
             h == [r EXCEPT !.cis[Depth(r)].handler = TRUE]
  <1>1. /\ r \in StackT /\ d \in Nat /\ d >= 1 /\ d \in 1..d /\ r.cis \in Seq(FrameT) /\ d = Len(r.cis)
        /\ d = Depth(s) + 1 /\ r.cis[d] \in FrameT /\ ci(r) = r.cis[d]
    BY FrameTyped DEF Called, Sound, StackT, Depth, ci
  <1>2. h = [r EXCEPT !.cis = frames]
    OBVIOUS
  <1>3. /\ c \in FrameT /\ c.func = ci(r).func /\ c.base = ci(r).base /\ c.top = ci(r).top
        /\ c.lua = ci(r).lua /\ c.local = ci(r).local /\ c.handler
    BY <1>1 DEF FrameT
  <1> HIDE DEF c
  <1>4. /\ frames \in Seq(FrameT) /\ Len(frames) = d /\ frames[d] = c
        /\ \A k \in 1..d : k # d => frames[k] = r.cis[k]
    <2>1. r.cis \in Seq(FrameT) /\ d \in 1..Len(r.cis) /\ d = Len(r.cis)
      BY <1>1
    <2> HIDE DEF d
    <2> QED BY <1>3, <2>1
  <1> HIDE DEF frames
  <1>5. /\ h \in StackT /\ h.cis = frames /\ h.top = r.top /\ h.openupval = r.openupval
        /\ h.size = r.size /\ h.outside = r.outside /\ h.err = r.err
    BY <1>1, <1>2, <1>4 DEF StackT
  <1> HIDE DEF h
  <1>6. /\ Depth(h) = d /\ ci(h) = c /\ h.cis[d] = c
        /\ \A k \in 1..d : k # d => h.cis[k] = r.cis[k]
    BY <1>4, <1>5 DEF Depth, ci
  <1>7. Sound(h)
    <2>1. Live(h) /\ Fits(h)
      <3>1. Live(r) /\ Fits(r)
        BY DEF Called, Sound
      <3>2. /\ r.top.live /\ \A u \in r.openupval : u.live
            /\ \A k \in 1..d : FrameLive(r.cis[k]) /\ r.cis[k].top.at <= r.size - EXTRA_STACK
            /\ r.top.at <= r.size
        BY <3>1 DEF Live, Fits, stack_last
      <3>3. \A k \in 1..d : FrameLive(h.cis[k]) /\ h.cis[k].top = r.cis[k].top
        <4>1. FrameLive(c) /\ c.top = r.cis[d].top
          BY <1>1, <1>3, <3>2 DEF FrameLive
        <4> QED BY <1>6, <3>2, <4>1
      <3> QED BY ONLY <1>5, <1>6, <3>2, <3>3 DEF Live, Fits, stack_last
    <2> QED BY <1>1, <1>5, <1>6, <2>1 DEF Called, Sound, SizeOK
  <1>8. SameUpvalues(s, h) /\ \A k \in 1..Depth(s) : SameFrame(s.cis[k], h.cis[k])
    <2>1. \A k \in 1..Depth(s) : k \in 1..d /\ k # d
      BY <1>1
    <2> QED BY <1>5, <1>6, <2>1 DEF Called, SameUpvalues
  <1>9. NewFrame(s, ci(h), h)
    BY <1>3, <1>5, <1>6 DEF Called, NewFrame, FrameOrder
  <1>10. Called(s, h) /\ ci(h).handler /\ h.err = "ok"
    BY <1>1, <1>3, <1>5, <1>6, <1>7, <1>8, <1>9 DEF Called
  <1> QED BY <1>10 DEF h

LEMMA ErrorMsg ==
    ASSUME Sizes, SpaceInv, pcalls # <<>>, NEW s, Shape(s), s.err = "ok", Pcalls(s, pcalls),
           s.top.at + 1 <= s.size, ci(s).func.at < s.top.at - 1,
           \A u \in s.openupval : u.at < s.top.at - 1,
           \A i \in 1..Len(pcalls) : pcalls[i].ci = Depth(s) => pcalls[i].old_top <= s.top.at - 1,
           Depth(s) <= MaxFrames + 1, s.size > LUAI_MAXSTACK => stack.size > LUAI_MAXSTACK,
           luaG_errormsg(s), UNCHANGED <<pcalls, errfunc>>
    PROVE  SpaceInv'
  <1>1. /\ Depth(s) \in Nat /\ s.top.at \in Nat /\ s.top \in PtrT /\ s.top.live /\ s \in StackT
        /\ ci(s).func.at \in Nat /\ MaxFrames \in Nat /\ s.top.at >= 1
        /\ errfunc' \in BOOLEAN /\ pcalls' = pcalls
    BY TopFrame DEF SpaceInv, StackT, Shape, Sound, Live, Sizes
  <1>2. ASSUME NEW e \in {"errrun", "errerr"}, Do([s EXCEPT !.err = e]) PROVE SpaceInv'
    <2> DEFINE r == [s EXCEPT !.err = e]
    <2>1. /\ r \in StackT /\ r.cis = s.cis /\ r.top = s.top /\ r.openupval = s.openupval
          /\ r.size = s.size /\ r.outside = s.outside /\ r.err = e
      BY <1>1 DEF StackT
    <2>2. Do(r)
      BY <1>2
    <2> HIDE DEF r
    <2>3. SameCore(s, r)
      BY <2>1 DEF SameCore, Shape, Sound, Live, Fits
    <2>4. Sound(r) /\ SameFrames(s, r) /\ Depth(r) = Depth(s) /\ r.top.at >= s.top.at
      BY <1>1, <2>1, <2>3, CoreKept
    <2>5. Shape(r) /\ Pcalls(r, pcalls)
      BY <2>4, Kept
    <2> QED BY <1>1, <2>1, <2>2, <2>4, <2>5, DoInv
  <1>3. CASE ~errfunc
    BY <1>2, <1>3 DEF luaG_errormsg
  <1>4. CASE errfunc /\ Depth(s) > MaxFrames
    BY <1>2, <1>4 DEF luaG_errormsg
  <1>5. CASE errfunc /\ ~(Depth(s) > MaxFrames)
    <2> DEFINE m == Push(s, 1)
               t == [m EXCEPT !.p = Up(s.top, -1)]
    <2>1. PICK r \in luaD_precall(t, FALSE) :
            Do(IF r.err # "ok" THEN r ELSE [r EXCEPT !.cis[Depth(r)].handler = TRUE])
      BY <1>5 DEF luaG_errormsg
    <2> DEFINE h == [r EXCEPT !.cis[Depth(r)].handler = TRUE]
    <2>2. SameCore(s, m) /\ m.top.at = s.top.at + 1 /\ m.err = "ok" /\ m \in StackT
      BY Pushed
    <2> HIDE DEF m
    <2>3. Up(s.top, -1) \in PtrT /\ Up(s.top, -1).at = s.top.at - 1 /\ Up(s.top, -1).live
      BY <1>1 DEF PtrT, Up
    <2>4. SameCore(s, t) /\ t.top.at = s.top.at + 1 /\ t.err = "ok" /\ t.p = Up(s.top, -1)
      BY <2>2, <2>3 DEF SameCore, StackT
    <2> HIDE DEF t
    <2>5. t.p.live /\ t.p.at < t.top.at /\ ci(s).func.at < t.p.at /\ \A u \in s.openupval : u.at < t.p.at
      BY <1>1, <2>3, <2>4
    <2>6. PcallsBelow(t, pcalls)
      BY <2>3, <2>4, Below
    <2>7. Called(t, r) /\ Depth(t) \in Nat
      BY <1>1, <2>4, <2>5, Prepared, Precall
    <2>8. PICK e : Called(t, e) /\ Do(e) /\ (e.err = "ok" => ci(e).handler)
      <3>1. CASE r.err # "ok"
        BY <2>1, <2>7, <3>1
      <3>2. CASE r.err = "ok"
        <4>1. Called(t, h) /\ ci(h).handler
          BY <2>7, <3>2, Handled
        <4>2. Do(h)
          BY <2>1, <3>2
        <4> HIDE DEF h
        <4> QED BY <4>1, <4>2
      <3> QED BY <3>1, <3>2
    <2>9. Depth(s) <= MaxFrames /\ PcallsBelow(t, pcalls')
      BY <1>1, <1>5, <2>6
    <2> QED BY <1>1, <2>4, <2>5, <2>8, <2>9, CallInv
  <1> QED BY <1>3, <1>4, <1>5

(* luaG_runerror makes room for its message; above the limit there is some. *)
LEMMA RunError ==
    ASSUME Sizes, SpaceInv, pcalls # <<>>, luaG_runerror(stack), UNCHANGED <<pcalls, errfunc>>,
           \A u \in stack.openupval : u.at < stack.top.at
    PROVE  SpaceInv'
  <1>1. /\ Shape(stack) /\ stack.err = "ok" /\ Pcalls(stack, pcalls) /\ Depth(stack) <= MaxFrames + 1
        /\ stack \in StackT /\ SizeOK(stack) /\ Fits(stack) /\ Live(stack) /\ ~stack.outside
        /\ stack.top.at \in Nat /\ stack.size \in Nat /\ EXTRA_STACK \in Nat /\ EXTRA_STACK >= 2
        /\ errfunc' \in BOOLEAN /\ pcalls' = pcalls /\ Depth(stack) \in Nat /\ Depth(stack) >= 1
        /\ ci(stack).func.at \in Nat /\ ci(stack).func.at < stack.top.at
    BY TopFrame DEF SpaceInv, Shape, Sound, Sizes
  <1> DEFINE room == IF stack_last(stack) - stack.top.at > 1 THEN stack ELSE luaD_growstack(stack, 1)
             r == IF room.err = "ok" THEN Push(Put(room, room.top.at), 1) ELSE room
  <1>2. luaD_inctop(stack) = r
    BY DEF luaD_inctop
  <1>3. /\ Same(stack, room) /\ SizeOK(room) /\ Fits(room) /\ Live(room)
        /\ room.err \in {"ok", "overflow", "errerr"}
        /\ room.err = "ok" => stack.top.at + 1 <= stack_last(room)
        /\ room.size > LUAI_MAXSTACK => stack.size > LUAI_MAXSTACK \/ room.err = "overflow"
    <2>1. CASE stack_last(stack) - stack.top.at > 1
      <3>1. room = stack
        BY <2>1
      <3>2. stack.top.at + 1 <= stack_last(stack)
        BY <1>1, <2>1 DEF stack_last
      <3> HIDE DEF room
      <3> QED BY <1>1, <3>1, <3>2, SameSelf
    <2>2. CASE ~(stack_last(stack) - stack.top.at > 1)
      <3>1. room = luaD_growstack(stack, 1)
        BY <2>2
      <3> HIDE DEF room
      <3> QED BY <1>1, <3>1, GrowStack
    <2> QED BY <2>1, <2>2
  <1> HIDE DEF room
  <1>4. /\ room \in StackT /\ ~room.outside /\ room.top.at = stack.top.at /\ Depth(room) = Depth(stack)
        /\ SameFrames(stack, room) /\ Sound(room) /\ room.size \in Nat /\ room.top.at >= stack.top.at
    BY <1>1, <1>3 DEF Same, SameFrames, Sound, StackT
  <1>5. Shape(room) /\ Pcalls(room, pcalls)
    BY <1>1, <1>4, Kept
  <1>6. \A u \in room.openupval : u.at < stack.top.at
    BY <1>4 DEF SameFrames, SameUpvalues
  <1>7. CASE room.err # "ok"
    <2>1. Do(room)
      BY <1>2, <1>7 DEF luaG_runerror
    <2> QED BY <1>1, <1>3, <1>4, <1>5, <1>6, <1>7, <2>1, DoInv
  <1>8. CASE room.err = "ok"
    <2>1. room.top.at < room.size /\ room.top.at + 2 <= room.size
      BY <1>1, <1>3, <1>4, <1>8 DEF stack_last
    <2>2. Put(room, room.top.at) = room
      BY <1>1, <1>4, <2>1, PutInside
    <2>3. r = Push(room, 1)
      BY <1>8, <2>2
    <2>4. room.top.at + 1 <= room.size
      BY <1>1, <1>4, <2>1
    <2>5. SameCore(room, r) /\ r.top.at = stack.top.at + 1 /\ r.err = "ok"
      BY <1>4, <1>5, <1>8, <2>3, <2>4, Pushed
    <2>6. luaG_errormsg(r)
      BY <1>2, <2>5 DEF luaG_runerror
    <2> HIDE DEF r
    <2>7. Sound(r) /\ SameFrames(room, r) /\ Depth(r) = Depth(room) /\ ci(r) = ci(room)
      BY <1>5, <2>5, CoreKept
    <2>8. Shape(r) /\ Pcalls(r, pcalls)
      <3>1. r.top.at >= room.top.at
        BY <1>1, <1>4, <2>5
      <3> QED BY <1>5, <2>7, <3>1, Kept
    <2>9. ci(r).func.at < r.top.at - 1
      <3>1. SameFrame(ci(stack), ci(room))
        BY <1>1, <1>4 DEF SameFrames, ci
      <3>2. ci(r).func.at = ci(stack).func.at
        BY <2>7, <3>1 DEF SameFrame
      <3> QED BY <1>1, <2>5, <3>2
    <2>10. \A u \in r.openupval : u.at < r.top.at - 1
      <3>1. r.openupval = room.openupval /\ r.top.at - 1 = stack.top.at
        BY <1>1, <2>5 DEF SameCore
      <3> QED BY <1>6, <3>1
    <2>11. \A i \in 1..Len(pcalls) : pcalls[i].ci = Depth(r) => pcalls[i].old_top <= r.top.at - 1
      <3> TAKE i \in 1..Len(pcalls)
      <3>1. PcallOK(stack, pcalls[i]) /\ pcalls[i] \in PcallT
        BY <1>1 DEF Pcalls
      <3>2. pcalls[i].old_top \in Nat /\ (pcalls[i].ci = Depth(stack) => pcalls[i].old_top < stack.top.at)
        BY <3>1 DEF PcallOK, PcallT
      <3> QED BY <1>1, <1>4, <2>5, <2>7, <3>2
    <2>12. /\ r.top.at + 1 <= r.size /\ Depth(r) <= MaxFrames + 1
           /\ r.size > LUAI_MAXSTACK => stack.size > LUAI_MAXSTACK
      BY <1>1, <1>3, <1>4, <1>8, <2>1, <2>5, <2>7 DEF SameCore
    <2> QED BY <2>5, <2>6, <2>8, <2>9, <2>10, <2>11, <2>12, ErrorMsg
  <1> QED BY <1>7, <1>8

LEMMA Errors ==
    ASSUME Sizes, SpaceInv, Error PROVE SpaceInv'
  <1>1. thrown = "ok" /\ pcalls # <<>> /\ UNCHANGED <<pcalls, errfunc>>
    BY DEF Error
  <1>2. CASE ci(stack).lua /\ luaG_runerror(stack)
    BY <1>1, <1>2, InLuaFunction, RunError
  <1>3. CASE ~ci(stack).lua /\ stack.top.at > ci(stack).func.at + 1 /\ luaG_errormsg(stack)
    <2>1. /\ Shape(stack) /\ stack.err = "ok" /\ Pcalls(stack, pcalls) /\ Depth(stack) <= MaxFrames + 1
          /\ Running(stack, pcalls)
          /\ stack.top.at \in Nat /\ stack.size \in Nat /\ EXTRA_STACK \in Nat /\ EXTRA_STACK >= 2
          /\ ci(stack).func.at \in Nat /\ ci(stack).top.at \in Nat /\ Depth(stack) \in Nat
          /\ ci(stack).top.at <= stack.size - EXTRA_STACK /\ stack.top.at <= ci(stack).top.at
      BY <1>1, <1>3, TopFrame DEF SpaceInv, Sizes, stack_last, Running
    <2>2. stack.top.at + 1 <= stack.size /\ ci(stack).func.at < stack.top.at - 1
      BY <1>3, <2>1
    <2>3. \A u \in stack.openupval : u.at < stack.top.at - 1
      <3> TAKE u \in stack.openupval
      <3>1. u.at \in Nat /\ u.at < ci(stack).func.at
        BY <1>3, <2>1, UpvaluesUnder
      <3> QED BY <2>1, <2>2, <3>1
    <2>4. \A i \in 1..Len(pcalls) : pcalls[i].ci # Depth(stack)
      BY <2>1 DEF Running
    <2> QED BY <1>1, <1>3, <2>1, <2>2, <2>3, <2>4, ErrorMsg
  <1> QED BY <1>2, <1>3 DEF Error

LEMMA Overflows ==
    ASSUME Sizes, SpaceInv, Overflow PROVE SpaceInv'
  <1>1. pcalls # <<>> /\ \A u \in stack.openupval : u.at < stack.top.at
    BY DEF Overflow, SpaceInv
  <1> QED BY <1>1, RunError DEF Overflow

-----------------------------------------------------------------------------
(***************************************************************************)
(* Frames end: where a function returns, and where an error is caught.     *)
(***************************************************************************)
LEMMA Popped ==
    ASSUME NEW s, Shape(s), NEW d \in 1..Depth(s), NEW r \in StackT, r.cis = SubSeq(s.cis, 1, d),
           r.openupval \subseteq s.openupval, r.size = s.size, ~r.outside, r.top.live, r.top.at <= r.size,
           \A u \in r.openupval : \A j \in d + 1..Depth(s) : s.cis[j].lua => u.at < s.cis[j].base.at,
           s.cis[d].func.at < r.top.at
    PROVE  /\ Shape(r) /\ Depth(r) = d /\ ci(r) = s.cis[d]
           /\ \A k \in 1..d : r.cis[k] = s.cis[k]
  <1>1. /\ s \in StackT /\ Depth(s) \in Nat /\ Depth(s) = Len(s.cis) /\ s.cis \in Seq(FrameT)
        /\ d \in Nat /\ 1 \in 1..d
    BY TopFrame DEF StackT, Depth
  <1>2. Len(r.cis) = d /\ \A k \in 1..d : r.cis[k] = s.cis[k]
    BY <1>1
  <1>3. Depth(r) = d /\ ci(r) = s.cis[d] /\ \A k \in 1..d : k \in 1..Depth(s)
    BY <1>1, <1>2 DEF Depth, ci
  <1>4. Sound(r)
    <2>1. Live(r)
      BY <1>2, <1>3 DEF Shape, Sound, Live
    <2>2. Fits(r)
      BY <1>2, <1>3 DEF Shape, Sound, Fits, stack_last
    <2> QED BY <1>1, <1>3, <2>1, <2>2 DEF Shape, Sound, SizeOK
  <1>5. Ordered(r)
    <2>1. \A k \in 1..d - 1 : k \in 1..d /\ k + 1 \in 1..d /\ k \in 1..Depth(s) - 1
      BY <1>1
    <2> QED BY <1>1, <1>2, <1>3, <2>1 DEF Shape, Ordered
  <1>6. Owners(r)
    <2> SUFFICES ASSUME NEW u \in r.openupval PROVE \E j \in 1..d : OwnedBy(r, u, j)
      BY <1>3 DEF Owners
    <2>1. PICK j \in 1..Depth(s) : OwnedBy(s, u, j)
      BY DEF Shape, Owners
    <2>2. j \in 1..d
      <3> SUFFICES ASSUME j \notin 1..d PROVE FALSE
        OBVIOUS
      <3>1. j \in d + 1..Depth(s)
        BY <1>1
      <3>2. u.at < s.cis[j].base.at /\ s.cis[j].base.at <= u.at
        BY <2>1, <3>1 DEF OwnedBy
      <3>3. u.at \in Nat /\ s.cis[j].base.at \in Nat
        BY <1>1, FrameTyped DEF StackT, PtrT
      <3> QED BY <3>2, <3>3
    <2>3. \A k \in j + 1..d : k \in 1..d /\ k \in j + 1..Depth(s)
      BY <1>1, <2>2
    <2>4. OwnedBy(r, u, j)
      BY <1>2, <1>3, <2>1, <2>2, <2>3 DEF OwnedBy
    <2> QED BY <2>2, <2>4
  <1>7. Shape(r)
    BY <1>3, <1>4, <1>5, <1>6 DEF Shape
  <1> QED BY <1>2, <1>3, <1>7

(* The innermost protected call ends.                                      *)
LEMMA FrontPcalls ==
    ASSUME NEW s, NEW q, Pcalls(s, q), q # <<>>
    PROVE  LET n == Len(q)
               f == SubSeq(q, 1, n - 1)
           IN  /\ n \in Nat /\ n >= 1 /\ PcallOK(s, q[n]) /\ q[n] \in PcallT
               /\ f \in Seq(PcallT) /\ Len(f) = n - 1 /\ \A i \in 1..n - 1 : f[i] = q[i]
               /\ Pcalls(s, f)
               /\ \A i \in 1..n - 1 : q[i].ci \in Nat /\ q[i].ci < q[n].ci
               /\ f = <<>> => q[n].ci = 1
  <1> DEFINE n == Len(q)
             f == SubSeq(q, 1, n - 1)
  <1>1. q \in Seq(PcallT) /\ n \in Nat /\ n >= 1 /\ n \in 1..n
    BY DEF Pcalls
  <1>2. q[n] \in PcallT /\ PcallOK(s, q[n])
    BY <1>1 DEF Pcalls
  <1>3. f \in Seq(PcallT) /\ Len(f) = n - 1 /\ \A i \in 1..n - 1 : f[i] = q[i]
    <2> DEFINE m == n - 1
    <2>1. m \in Nat /\ m \in 0..Len(q) /\ 1..m \subseteq 1..Len(q)
      BY <1>1
    <2>2. \A i \in 1..m : q[i] \in PcallT
      BY <1>1, <2>1
    <2>3. SubSeq(q, 1, m) = [i \in 1..m |-> q[i]]
      BY <1>1, <2>1
    <2> HIDE DEF m
    <2>4. SubSeq(q, 1, m) \in Seq(PcallT) /\ Len(SubSeq(q, 1, m)) = m /\ \A i \in 1..m : SubSeq(q, 1, m)[i] = q[i]
      BY <2>1, <2>2, <2>3
    <2> QED BY <2>4 DEF m
  <1> HIDE DEF f
  <1>4. \A i \in 1..n - 1 : q[i].ci \in Nat /\ q[i].ci < q[n].ci
    <2> TAKE i \in 1..n - 1
    <2>1. i \in 1..n /\ i < n
      BY <1>1
    <2>2. q[i] \in PcallT
      BY <1>1, <2>1
    <2> QED BY <1>1, <2>1, <2>2 DEF Pcalls, PcallT
  <1>5. \A i \in 1..n - 1 : i \in 1..n
    BY <1>1
  <1>6. Pcalls(s, f)
    <2>1. f # <<>> => 1 \in 1..n - 1
      BY <1>1, <1>3
    <2> QED BY <1>3, <1>5, <2>1 DEF Pcalls
  <1>7. f = <<>> => q[n].ci = 1
    <2>1. f = <<>> => n = 1
      BY <1>1, <1>3
    <2> QED BY <2>1 DEF Pcalls
  <1> QED BY <1>1, <1>2, <1>3, <1>4, <1>6, <1>7 DEF f

LEMMA Closed ==
    ASSUME NEW s \in StackT, NEW level
    PROVE  LET r == luaF_close(s, level)
           IN  /\ r \in StackT /\ r.cis = s.cis /\ r.top = s.top /\ r.size = s.size /\ r.outside = s.outside
               /\ r.err = s.err /\ r.openupval \subseteq s.openupval
               /\ \A u \in r.openupval : u.at < level
  BY DEF luaF_close, StackT

(* Where a function returns, its caller has one value more.                 *)
LEMMA Returned ==
    ASSUME Sizes, NEW s, Shape(s), Depth(s) > 1, NEW closed \in StackT,
           closed.cis = s.cis, closed.openupval \subseteq s.openupval, closed.size = s.size, ~closed.outside,
           ci(s).lua => \A u \in closed.openupval : u.at < ci(s).base.at
    PROVE  LET r == luaD_poscall(closed)
               k == Depth(s) - 1
           IN  /\ Shape(r) /\ Depth(r) = k /\ r.size = s.size /\ r.err = closed.err
               /\ \A l \in 1..k : SameFrame(s.cis[l], r.cis[l])
               /\ ci(r).lua => r.top.at = ci(r).top.at /\ ci(r).local = ci(r).base
               /\ ~ci(r).lua => r.top.at = ci(s).func.at + 1
  <1> DEFINE k == Depth(s) - 1
             res == ci(s).func
             p == Put(closed, res.at)
             caller == [p EXCEPT !.cis = SubSeq(@, 1, k), !.top = Up(res, 1)]
  <1>1. /\ s \in StackT /\ Depth(s) \in Nat /\ k \in Nat /\ k >= 1 /\ k \in 1..Depth(s) /\ k < Depth(s)
        /\ Depth(s) \in 1..Depth(s) /\ s.size \in Nat /\ ci(s) = s.cis[Depth(s)]
        /\ ci(s) \in FrameT /\ res.at \in Nat /\ ci(s).top.at \in Nat
        /\ res.at < s.top.at /\ s.top.at <= s.size /\ s.top.at \in Nat
        /\ Depth(closed) = Depth(s) /\ ci(closed) = ci(s)
    BY TopFrame DEF Depth, ci
  <1>2. res \in PtrT /\ res.live
    BY <1>1 DEF FrameT, Shape, Sound, Live, FrameLive
  <1>3. Up(res, 1) \in PtrT /\ Up(res, 1).live /\ Up(res, 1).at = res.at + 1
    BY <1>2 DEF PtrT, Up
  <1>4. p = closed
    BY <1>1, PutInside
  <1>5. luaD_poscall(closed) = IF ci(caller).lua THEN [Protect(caller) EXCEPT !.top = ci(caller).top] ELSE caller
    BY <1>1 DEF luaD_poscall
  <1>6. /\ caller \in StackT /\ caller.cis = SubSeq(s.cis, 1, k) /\ caller.top = Up(res, 1)
        /\ caller.openupval = closed.openupval /\ caller.size = s.size /\ ~caller.outside
        /\ caller.err = closed.err
    <2>1. closed.cis \in Seq(FrameT) /\ SubSeq(s.cis, 1, k) \in Seq(FrameT)
      BY <1>1 DEF StackT, Depth
    <2>2. caller = [closed EXCEPT !.cis = SubSeq(s.cis, 1, k), !.top = Up(res, 1)]
      BY <1>4
    <2> HIDE DEF caller, k, res, p
    <2> QED BY <1>3, <2>1, <2>2 DEF StackT
  <1> HIDE DEF caller, p
  <1>7. /\ Shape(caller) /\ Depth(caller) = k /\ ci(caller) = s.cis[k]
        /\ \A l \in 1..k : caller.cis[l] = s.cis[l]
    <2>1. \A u \in caller.openupval : \A j \in k + 1..Depth(s) : s.cis[j].lua => u.at < s.cis[j].base.at
      <3>1. \A j \in k + 1..Depth(s) : j = Depth(s)
        BY <1>1
      <3> QED BY <1>1, <1>6, <3>1
    <2>2. s.cis[k].func.at < caller.top.at
      <3>1. s.cis[k].func.at \in Nat /\ s.cis[k].func.at <= res.at
        BY <1>1, Rising
      <3> QED BY <1>1, <1>3, <1>6, <3>1
    <2>3. caller.top.live /\ caller.top.at <= caller.size
      BY <1>1, <1>3, <1>6
    <2> HIDE DEF k, res
    <2> QED BY <1>1, <1>6, <2>1, <2>2, <2>3, Popped
  <1>8. CASE ~ci(caller).lua
    <2>1. luaD_poscall(closed) = caller
      BY <1>5, <1>8
    <2>2. \A l \in 1..k : SameFrame(s.cis[l], caller.cis[l])
      BY <1>7 DEF SameFrame
    <2> QED BY <1>3, <1>6, <1>7, <1>8, <2>1, <2>2
  <1>9. CASE ci(caller).lua
    <2> DEFINE m == Protect(caller)
               r == [m EXCEPT !.top = ci(caller).top]
    <2>1. luaD_poscall(closed) = r
      BY <1>5, <1>9
    <2>2. /\ Sound(m) /\ SameFrames(caller, m) /\ ci(m).local = ci(m).base /\ SameFrame(ci(caller), ci(m))
          /\ ci(m).top = ci(caller).top /\ ci(m).lua = ci(caller).lua
          /\ m.top = caller.top /\ m.size = caller.size /\ m.err = caller.err /\ m.openupval = caller.openupval
      BY <1>7, Protected DEF Shape
    <2> HIDE DEF m
    <2>3. m.top.at >= caller.top.at
      BY <1>1, <1>3, <1>6, <2>2
    <2>4. Shape(m) /\ m \in StackT /\ ~m.outside
      BY <1>7, <2>2, <2>3, Kept DEF Sound
    <2>5. /\ ci(caller).top \in PtrT /\ ci(caller).top.live /\ ci(caller).top.at <= s.size
          /\ ci(caller).func.at < ci(caller).top.at
      <3>1. /\ ci(caller) \in FrameT /\ ci(caller).top.at \in Nat /\ ci(caller).top.at <= stack_last(caller)
            /\ ci(caller).func.at < ci(caller).top.at
            /\ Depth(caller) \in 1..Depth(caller) /\ ci(caller) = caller.cis[Depth(caller)]
            /\ caller.top.at <= caller.size /\ caller.size \in Nat
        BY <1>7, TopFrame
      <3>2. ci(caller).top \in PtrT /\ ci(caller).top.live
        BY <1>7, <3>1 DEF FrameT, Shape, Sound, Live, FrameLive
      <3>3. ci(caller).top.at <= caller.size
        BY <3>1 DEF stack_last, Sizes
      <3> QED BY <1>6, <3>1, <3>2, <3>3
    <2>6. /\ r \in StackT /\ r.cis = m.cis /\ r.top = ci(caller).top /\ r.openupval = m.openupval
          /\ r.size = m.size /\ r.outside = m.outside /\ r.err = m.err
      BY <2>4, <2>5 DEF StackT
    <2> HIDE DEF r
    <2>7. SameCore(m, r)
      BY <1>6, <2>2, <2>4, <2>5, <2>6 DEF SameCore
    <2>8. Sound(r) /\ Ordered(r) /\ Owners(r) /\ Depth(r) = Depth(m) /\ ci(r) = ci(m)
      BY <2>4, <2>7, CoreKept
    <2>9. Shape(r)
      BY <2>2, <2>5, <2>6, <2>8 DEF Shape, SameFrame
    <2>10. \A l \in 1..k : SameFrame(s.cis[l], r.cis[l])
      BY <1>7, <2>2, <2>6 DEF SameFrames, SameFrame
    <2>11. Depth(r) = k /\ r.size = s.size /\ r.err = closed.err
           /\ ci(r).lua /\ r.top.at = ci(r).top.at /\ ci(r).local = ci(r).base
      BY <1>6, <1>7, <1>9, <2>2, <2>6, <2>8 DEF SameFrames
    <2> QED BY <2>1, <2>9, <2>10, <2>11
  <1> QED BY <1>8, <1>9

LEMMA Returns ==
    ASSUME Sizes, SpaceInv, Return PROVE SpaceInv'
  <1> DEFINE closed == IF ci(stack).lua THEN luaF_close(stack, ci(stack).base.at) ELSE stack
             caller == luaD_poscall(closed)
             k == Depth(stack) - 1
             n == Len(pcalls)
             protected == pcalls # <<>> /\ pcalls[Len(pcalls)].ci = Depth(caller) /\ ~ci(stack).handler
             r == IF ci(stack).handler THEN [caller EXCEPT !.err = "errrun"] ELSE caller
  <1>1. /\ thrown = "ok" /\ Depth(stack) > 1 /\ Do(r)
        /\ pcalls' = IF protected THEN SubSeq(pcalls, 1, Len(pcalls) - 1) ELSE pcalls
        /\ errfunc' = IF protected THEN pcalls[Len(pcalls)].errfunc ELSE errfunc
    BY DEF Return
  <1>2. /\ Shape(stack) /\ stack.err = "ok" /\ Pcalls(stack, pcalls) /\ Running(stack, pcalls) /\ pcalls # <<>>
        /\ stack \in StackT /\ ~stack.outside /\ Depth(stack) \in Nat /\ Depth(stack) <= MaxFrames + 1
        /\ ci(stack) = stack.cis[Depth(stack)] /\ Depth(stack) \in 1..Depth(stack)
        /\ ci(stack) \in FrameT /\ ci(stack).func.at \in Nat /\ MaxFrames \in Nat
    BY <1>1, TopFrame DEF SpaceInv, Running, Shape, Sound, Sizes
  <1>3. /\ closed \in StackT /\ closed.cis = stack.cis /\ closed.openupval \subseteq stack.openupval
        /\ closed.size = stack.size /\ ~closed.outside /\ closed.err = "ok"
        /\ ci(stack).lua => \A u \in closed.openupval : u.at < ci(stack).base.at
    BY <1>2, Closed
  <1> HIDE DEF closed
  <1>4. /\ Shape(caller) /\ Depth(caller) = k /\ caller.size = stack.size /\ caller.err = "ok"
        /\ \A l \in 1..k : SameFrame(stack.cis[l], caller.cis[l])
        /\ ci(caller).lua => caller.top.at = ci(caller).top.at /\ ci(caller).local = ci(caller).base
        /\ ~ci(caller).lua => caller.top.at = ci(stack).func.at + 1
    BY <1>1, <1>2, <1>3, Returned
  <1> HIDE DEF caller
  <1>5. /\ k \in Nat /\ k >= 1 /\ k \in 1..k /\ k + 1 = Depth(stack) /\ k \in 1..Depth(stack) - 1
        /\ k \in 1..Depth(stack)
    BY <1>1, <1>2
  <1>6. ci(caller) = caller.cis[k] /\ SameFrame(stack.cis[k], ci(caller))
    BY <1>4, <1>5 DEF ci
  <1>7. \A i \in 1..n : pcalls[i] \in PcallT /\ PcallOK(stack, pcalls[i]) /\ pcalls[i].ci \in 1..k
                        /\ pcalls[i].old_top \in Nat
    <2> TAKE i \in 1..n
    <2>1. pcalls[i] \in PcallT /\ PcallOK(stack, pcalls[i]) /\ pcalls[i].ci < Depth(stack)
      BY <1>2 DEF Pcalls, Running
    <2> QED BY <1>2, <2>1 DEF PcallT, PcallOK
  <1>8. Pcalls(caller, pcalls)
    <2>1. ASSUME NEW i \in 1..n PROVE PcallOK(caller, pcalls[i])
      <3> DEFINE c == pcalls[i]
      <3>1. c.ci \in 1..k /\ c.old_top \in Nat /\ PcallOK(stack, c)
        BY <1>7
      <3> HIDE DEF c
      <3>2. \A l \in c.ci + 1..k : l \in 1..k /\ l \in c.ci + 1..Depth(stack)
        BY <1>5, <3>1
      <3>3. c.ci = k => c.old_top < caller.top.at
        <4>1. Depth(stack) \in c.ci + 1..Depth(stack)
          BY <1>5, <3>1
        <4>2. c.old_top <= ci(stack).func.at
          BY <1>2, <3>1, <4>1 DEF PcallOK
        <4>3. c.ci = k => ~ci(caller).lua
          BY <1>6, <3>1 DEF PcallOK, SameFrame
        <4> QED BY <1>2, <1>4, <3>1, <4>2, <4>3
      <3>4. PcallOK(caller, c)
        BY <1>4, <3>1, <3>2, <3>3 DEF PcallOK, SameFrame
      <3> QED BY <3>4 DEF c
    <2> QED BY <1>2, <2>1 DEF Pcalls
  <1>9. n \in Nat /\ n >= 1 /\ n \in 1..n /\ pcalls[n].errfunc \in BOOLEAN
    <2>1. pcalls \in Seq(PcallT)
      BY <1>2 DEF Pcalls
    <2>2. n \in Nat /\ n >= 1 /\ n \in 1..n
      BY <1>2, <2>1
    <2> QED BY <1>7, <2>2 DEF PcallT
  <1>10. errfunc' \in BOOLEAN
    BY <1>1, <1>9 DEF SpaceInv
  <1>11. CASE ci(stack).handler
    <2>1. r = [caller EXCEPT !.err = "errrun"] /\ pcalls' = pcalls
      BY <1>1, <1>11
    <2> HIDE DEF r
    <2>2. caller \in StackT /\ caller.top.at \in Nat
      BY <1>4, TopFrame
    <2>3. /\ r \in StackT /\ r.cis = caller.cis /\ r.top = caller.top /\ r.openupval = caller.openupval
          /\ r.size = caller.size /\ r.outside = caller.outside /\ r.err = "errrun"
      BY <2>1, <2>2 DEF StackT
    <2>4. SameCore(caller, r)
      BY <1>4, <2>3 DEF SameCore, Shape, Sound, Live, Fits
    <2>5. Sound(r) /\ SameFrames(caller, r) /\ Depth(r) = k /\ r.top.at >= caller.top.at
      BY <1>4, <2>2, <2>3, <2>4, CoreKept
    <2>6. Shape(r) /\ Pcalls(r, pcalls)
      BY <1>4, <1>8, <2>5, Kept
    <2>7. Depth(r) <= MaxFrames + 1
      BY <1>2, <1>5, <2>5
    <2> QED BY <1>1, <1>2, <1>4, <1>10, <2>1, <2>3, <2>6, <2>7, DoInv
  <1>12. CASE ~ci(stack).handler
    <2>1. r = caller
      BY <1>12
    <2> HIDE DEF r
    <2>2. ~ci(caller).lua => caller.top.at <= ci(caller).top.at
      <3>1. ~ci(caller).lua => ci(stack).func.at < ci(caller).top.at
        <4>1. ~stack.cis[k].lua => stack.cis[k + 1].func.at < stack.cis[k].top.at
          BY <1>2, <1>5, <1>12 DEF Shape, Ordered
        <4> QED BY <1>2, <1>5, <1>6, <4>1 DEF SameFrame
      <3>2. ci(caller).top.at \in Nat
        BY <1>4, TopFrame
      <3> QED BY <1>2, <1>4, <3>1, <3>2
    <2>3. Pcalls(caller, pcalls') /\ (\A i \in 1..Len(pcalls') : pcalls'[i].ci < k) /\ (k > 1 => pcalls' # <<>>)
      <3> DEFINE f == SubSeq(pcalls, 1, n - 1)
      <3>1. /\ f \in Seq(PcallT) /\ Len(f) = n - 1 /\ \A i \in 1..n - 1 : f[i] = pcalls[i]
            /\ Pcalls(caller, f)
            /\ \A i \in 1..n - 1 : pcalls[i].ci \in Nat /\ pcalls[i].ci < pcalls[n].ci
            /\ f = <<>> => pcalls[n].ci = 1
        BY <1>2, <1>8, FrontPcalls
      <3> HIDE DEF f
      <3>2. pcalls[n].ci \in 1..k
        BY <1>7, <1>9
      <3>3. CASE pcalls[n].ci = k
        <4>1. pcalls' = f
          BY <1>1, <1>2, <1>4, <1>12, <3>3 DEF f
        <4> QED BY <1>5, <3>1, <3>3, <4>1
      <3>4. CASE pcalls[n].ci # k
        <4>1. pcalls' = pcalls
          BY <1>1, <1>4, <3>4
        <4>2. ASSUME NEW i \in 1..n PROVE pcalls[i].ci < k
          <5>1. CASE i = n
            BY <1>5, <3>2, <3>4, <5>1
          <5>2. CASE i # n
            <6>1. i \in 1..n - 1
              BY <1>9, <5>2
            <6> QED BY <1>5, <3>1, <3>2, <6>1
          <5> QED BY <5>1, <5>2
        <4> QED BY <1>2, <1>8, <4>1, <4>2
      <3> QED BY <3>3, <3>4
    <2>4. Running(caller, pcalls')
      BY <1>4, <2>2, <2>3 DEF Running
    <2>5. Depth(caller) <= MaxFrames + 1
      BY <1>2, <1>4, <1>5
    <2> QED BY <1>1, <1>4, <1>10, <2>1, <2>3, <2>4, <2>5, DoInv
  <1> QED BY <1>11, <1>12

(* An error is caught: what lies above the protected call is gone, and the  *)
(* memory is below the limit again if that leaves enough room.              *)
LEMMA Catches ==
    ASSUME Sizes, SpaceInv, Catch PROVE SpaceInv'
  <1> DEFINE n == Len(pcalls)
             c == pcalls[n]
             closed == luaF_close(stack, c.old_top)
             p == Put(closed, c.old_top)
             s == [p EXCEPT !.top = Ptr(c.old_top + 1), !.cis = SubSeq(@, 1, c.ci)]
             r == luaD_shrinkstack(s)
             f == SubSeq(pcalls, 1, n - 1)
  <1>1. /\ thrown \in {"errrun", "errerr"} /\ thrown' = "ok" /\ stack' = r /\ errfunc' = c.errfunc /\ pcalls' = f
        /\ crowded' = (crowded /\ stackinuse(stack') > LUAI_MAXSTACK - EXTRA_STACK)
    BY DEF Catch, Caught
  <1>2. /\ Shape(stack) /\ stack.err = "ok" /\ Pcalls(stack, pcalls) /\ pcalls # <<>>
        /\ stack \in StackT /\ ~stack.outside /\ Depth(stack) \in Nat /\ Depth(stack) <= MaxFrames + 1
        /\ stack.size \in Nat /\ MaxFrames \in Nat /\ EXTRA_STACK \in Nat
    BY <1>1, TopFrame DEF SpaceInv, Shape, Sound, Sizes
  <1>3. /\ n \in Nat /\ n >= 1 /\ PcallOK(stack, c) /\ c \in PcallT
        /\ f \in Seq(PcallT) /\ Len(f) = n - 1 /\ \A i \in 1..n - 1 : f[i] = pcalls[i]
        /\ Pcalls(stack, f)
        /\ \A i \in 1..n - 1 : pcalls[i].ci \in Nat /\ pcalls[i].ci < c.ci
        /\ f = <<>> => c.ci = 1
    BY <1>2, FrontPcalls
  <1> HIDE DEF f
  <1>4. /\ c.ci \in Nat /\ c.old_top \in Nat /\ c.errfunc \in BOOLEAN /\ c.ci \in 1..Depth(stack)
        /\ ~stack.cis[c.ci].lua /\ stack.cis[c.ci].func.at < c.old_top
        /\ c.old_top < stack.cis[c.ci].top.at
        /\ \A k \in c.ci + 1..Depth(stack) : c.old_top <= stack.cis[k].func.at
    BY <1>3 DEF PcallT, PcallOK
  <1> HIDE DEF c
  <1>5. /\ closed \in StackT /\ closed.cis = stack.cis /\ closed.openupval \subseteq stack.openupval
        /\ closed.size = stack.size /\ ~closed.outside /\ closed.err = "ok"
        /\ \A u \in closed.openupval : u.at < c.old_top
    BY <1>2, Closed
  <1> HIDE DEF closed
  <1>6. stack.cis[c.ci].top.at \in Nat /\ stack.cis[c.ci].func.at \in Nat /\ c.old_top + 1 <= stack.size
    <2>1. stack.cis[c.ci].top.at <= stack.size - EXTRA_STACK
      BY <1>2, <1>4 DEF Shape, Sound, Fits, stack_last
    <2>2. stack.cis[c.ci].top.at \in Nat /\ stack.cis[c.ci].func.at \in Nat
      BY <1>2, <1>4, FrameTyped
    <2> QED BY <1>2, <1>4, <2>1, <2>2
  <1>7. p = closed
    BY <1>2, <1>4, <1>5, <1>6, PutInside
  <1> DEFINE top == Ptr(c.old_top + 1)
  <1>8. top \in PtrT /\ top.at = c.old_top + 1 /\ top.live
    BY <1>4 DEF PtrT, Ptr
  <1>9. /\ s \in StackT /\ s.cis = SubSeq(stack.cis, 1, c.ci) /\ s.top = top
        /\ s.openupval = closed.openupval /\ s.size = stack.size /\ ~s.outside /\ s.err = "ok"
    <2>1. SubSeq(stack.cis, 1, c.ci) \in Seq(FrameT)
      BY <1>2, <1>4 DEF StackT, Depth
    <2>2. s = [closed EXCEPT !.top = top, !.cis = SubSeq(stack.cis, 1, c.ci)]
      BY <1>5, <1>7
    <2> HIDE DEF s, p, top
    <2> QED BY <1>5, <1>8, <2>1, <2>2 DEF StackT
  <1> HIDE DEF s, p, top
  <1>10. /\ Shape(s) /\ Depth(s) = c.ci /\ ci(s) = stack.cis[c.ci]
         /\ \A k \in 1..c.ci : s.cis[k] = stack.cis[k]
    <2>1. \A u \in s.openupval : \A j \in c.ci + 1..Depth(stack) : stack.cis[j].lua => u.at < stack.cis[j].base.at
      <3> SUFFICES ASSUME NEW u \in s.openupval, NEW j \in c.ci + 1..Depth(stack), stack.cis[j].lua
                   PROVE  u.at < stack.cis[j].base.at
        OBVIOUS
      <3>1. j \in 1..Depth(stack)
        BY <1>2, <1>4
      <3>2. u.at < c.old_top /\ c.old_top <= stack.cis[j].func.at
        BY <1>4, <1>5, <1>9
      <3>3. stack.cis[j].func.at < stack.cis[j].base.at
        BY <1>2, <3>1 DEF Shape, Ordered, FrameOrder
      <3>4. u.at \in Nat /\ stack.cis[j].func.at \in Nat /\ stack.cis[j].base.at \in Nat
        <4>1. u \in PtrT
          BY <1>9 DEF StackT
        <4> QED BY <1>2, <3>1, <4>1, FrameTyped DEF PtrT
      <3> QED BY <1>4, <3>2, <3>3, <3>4
    <2>2. stack.cis[c.ci].func.at < s.top.at /\ s.top.live /\ s.top.at <= s.size
      BY <1>4, <1>6, <1>8, <1>9
    <2>3. s.openupval \subseteq stack.openupval
      BY <1>5, <1>9
    <2> DEFINE d == c.ci
    <2>4. /\ d \in 1..Depth(stack) /\ s.cis = SubSeq(stack.cis, 1, d)
          /\ \A u \in s.openupval : \A j \in d + 1..Depth(stack) : stack.cis[j].lua => u.at < stack.cis[j].base.at
          /\ stack.cis[d].func.at < s.top.at
      BY <1>4, <1>9, <2>1, <2>2
    <2>5. Shape(stack) /\ s \in StackT /\ s.size = stack.size /\ ~s.outside /\ s.top.live /\ s.top.at <= s.size
      BY <1>2, <1>9, <2>2
    <2> HIDE DEF d
    <2>6. /\ Shape(s) /\ Depth(s) = d /\ ci(s) = stack.cis[d]
          /\ \A k \in 1..d : s.cis[k] = stack.cis[k]
      BY <2>3, <2>4, <2>5, Popped
    <2> QED BY <2>6 DEF d
  <1>11. /\ Same(s, r) /\ SizeOK(r) /\ Fits(r) /\ Live(r) /\ r.err = "ok"
         /\ r.size > LUAI_MAXSTACK => s.size > LUAI_MAXSTACK /\ stackinuse(s) > LUAI_MAXSTACK - EXTRA_STACK
    BY <1>9, <1>10, ShrinkStack DEF Shape, Sound
  <1> HIDE DEF r
  <1>12. /\ Sound(r) /\ SameFrames(s, r) /\ Depth(r) = c.ci /\ r.top.at = c.old_top + 1 /\ r.top.at >= s.top.at
         /\ stackinuse(r) = stackinuse(s)
    <2>1. Depth(r) = Depth(s) /\ r.top.at = s.top.at /\ r.outside = s.outside /\ r \in StackT
      BY <1>11 DEF Same
    <2>2. Sound(r) /\ SameFrames(s, r)
      BY <1>9, <1>10, <1>11, <2>1 DEF Same, SameFrames, Shape, Sound
    <2> QED BY <1>4, <1>8, <1>9, <1>10, <1>11, <2>1, <2>2, SameInUse
  <1>13. Pcalls(s, f)
    <2>1. ASSUME NEW i \in 1..Len(f) PROVE PcallOK(s, f[i])
      <3>1. f[i] = pcalls[i] /\ PcallOK(stack, f[i]) /\ f[i].ci \in Nat /\ f[i].ci < c.ci
        BY <1>3 DEF Pcalls
      <3>2. f[i].ci \in 1..c.ci /\ f[i].ci # Depth(s)
            /\ \A k \in f[i].ci + 1..c.ci : k \in 1..c.ci /\ k \in f[i].ci + 1..Depth(stack)
        BY <1>2, <1>4, <1>10, <3>1 DEF PcallOK
      <3> QED BY <1>10, <3>1, <3>2 DEF PcallOK
    <2> QED BY <1>3, <2>1 DEF Pcalls
  <1>14. Shape(r) /\ Pcalls(r, f)
    BY <1>10, <1>12, <1>13, Kept
  <1>15. Running(r, f)
    <2>1. SameFrame(ci(s), ci(r))
      BY <1>4, <1>10, <1>12 DEF SameFrames, ci
    <2>2. ~ci(r).lua /\ r.top.at <= ci(r).top.at
      BY <1>4, <1>6, <1>10, <1>12, <2>1 DEF SameFrame
    <2>3. \A i \in 1..Len(f) : f[i].ci < Depth(r)
      BY <1>3, <1>12
    <2> QED BY <1>3, <1>12, <2>2, <2>3 DEF Running
  <1>16. Depth(r) <= MaxFrames + 1
    BY <1>2, <1>4, <1>12
  <1>17. crowded' \in BOOLEAN /\ (r.size > LUAI_MAXSTACK => crowded')
    BY <1>1, <1>9, <1>11, <1>12 DEF SpaceInv
  <1> QED BY <1>1, <1>4, <1>11, <1>14, <1>15, <1>16, <1>17 DEF SpaceInv

-----------------------------------------------------------------------------
LEMMA SpaceStarts ==
    ASSUME Sizes, SpaceInit PROVE SpaceInv
  <1> DEFINE c == Frame(Ptr(0), Ptr(0), Ptr(1 + LUA_MINSTACK), FALSE)
  <1>1. /\ LUA_MINSTACK \in Nat /\ EXTRA_STACK \in Nat /\ EXTRA_STACK >= 2 /\ LUAI_MAXSTACK \in Nat
        /\ 2 * LUA_MINSTACK >= 1 + LUA_MINSTACK + EXTRA_STACK /\ 2 * LUA_MINSTACK <= LUAI_MAXSTACK
        /\ LUAI_MAXSTACK < ERRORSTACKSIZE /\ MaxFrames \in Nat
    BY DEF Sizes
  <1>2. /\ stack.size = 2 * LUA_MINSTACK /\ stack.top = Ptr(1) /\ stack.openupval = {} /\ stack.outside = FALSE
        /\ stack.cis = <<c>> /\ stack.err = "ok" /\ stack.p = Ptr(0) /\ pcalls = <<>> /\ errfunc = FALSE
        /\ thrown = "ok" /\ crowded = FALSE
        /\ stack = [size |-> 2 * LUA_MINSTACK, top |-> Ptr(1), openupval |-> {}, outside |-> FALSE,
                    cis |-> <<c>>, err |-> "ok", p |-> Ptr(0)]
    BY DEF SpaceInit
  <1>3. /\ c \in FrameT /\ FrameLive(c) /\ FrameOrder(c) /\ ~c.lua /\ c.top.at = 1 + LUA_MINSTACK
        /\ c.func.at = 0 /\ Ptr(0) \in PtrT /\ Ptr(1) \in PtrT /\ Ptr(1).at = 1 /\ Ptr(1).live
    BY <1>1 DEF Frame, FrameT, PtrT, Ptr, FrameLive, FrameOrder
  <1> HIDE DEF c
  <1>4. stack \in StackT
    <2>1. <<c>> \in Seq(FrameT) /\ 2 * LUA_MINSTACK \in Nat
      BY <1>1, <1>3
    <2> QED BY <1>2, <1>3, <2>1 DEF StackT
  <1>5. Depth(stack) = 1 /\ ci(stack) = c /\ stack.cis[1] = c /\ \A k \in 1..Depth(stack) : k = 1
    BY <1>2 DEF Depth, ci
  <1>6. Live(stack) /\ Fits(stack) /\ SizeOK(stack)
    <2>1. Live(stack)
      BY <1>2, <1>3, <1>5 DEF Live
    <2>2. SizeOK(stack)
      BY <1>1, <1>2 DEF SizeOK
    <2>3. 1 <= stack.size /\ 1 + LUA_MINSTACK <= stack.size - EXTRA_STACK
      BY <1>1, <1>2
    <2>4. Fits(stack)
      BY <1>2, <1>3, <1>5, <2>3 DEF Fits, stack_last
    <2> QED BY <2>1, <2>2, <2>4
  <1>7. Ordered(stack)
    <2>1. \A k \in 1..Depth(stack) - 1 : FALSE
      BY <1>5
    <2>2. \A k, l \in 1..Depth(stack) : ~(k < l)
      BY <1>5
    <2> QED BY <1>3, <1>5, <2>1, <2>2 DEF Ordered
  <1>8. Shape(stack)
    BY <1>2, <1>3, <1>4, <1>5, <1>6, <1>7 DEF Shape, Sound, Owners
  <1>9. Pcalls(stack, pcalls)
    <2>1. <<>> \in Seq(PcallT) /\ \A i \in 1..Len(<<>>) : FALSE
      OBVIOUS
    <2> QED BY <1>2, <2>1 DEF Pcalls
  <1>10. Running(stack, pcalls)
    <2>1. \A i \in 1..Len(<<>>) : FALSE
      OBVIOUS
    <2> QED BY <1>1, <1>2, <1>3, <1>5, <2>1 DEF Running
  <1>11. Depth(stack) <= MaxFrames + 1 /\ ~(stack.size > LUAI_MAXSTACK)
    BY <1>1, <1>2, <1>5
  <1> QED BY <1>2, <1>8, <1>9, <1>10, <1>11 DEF SpaceInv

LEMMA SpaceSteps ==
    ASSUME Sizes, SpaceInv, [SpaceNext]_spaceVars PROVE SpaceInv'
  <1>1. CASE lua_pcall \/ op_call \/ luaT_callTM
    BY <1>1, CallOfC, CallOfLua, CallOfMetamethod
  <1>2. CASE lua_push \/ lua_checkstack \/ luaF_findupval \/ collect
    BY <1>2, Pushes, Checks, FindsUpvalue, Collects
  <1>3. CASE Return
    BY <1>3, Returns
  <1>4. CASE Error \/ Overflow \/ Catch
    BY <1>4, Errors, Overflows, Catches
  <1>5. CASE UNCHANGED spaceVars
    BY <1>5 DEF spaceVars, SpaceInv, Shape, Sound, Ordered, Owners, Pcalls, Running
  <1> QED BY <1>1, <1>2, <1>3, <1>4, <1>5 DEF SpaceNext

LEMMA SpaceSuffices ==
    ASSUME Sizes, SpaceInv PROVE StackKept
  <1>1. /\ Shape(stack) /\ stack \in StackT /\ Depth(stack) \in Nat /\ Depth(stack) >= 1
        /\ stack.top.at \in Nat /\ stack.size \in Nat /\ stack.top.at <= stack.size
        /\ ci(stack).func.at \in Nat /\ ci(stack).func.at < stack.top.at /\ ci(stack).top.at \in Nat
        /\ Sound(stack)
    BY TopFrame DEF SpaceInv, Shape
  <1>2. LUAI_MAXSTACK \in Nat /\ ERRORSTACKSIZE \in Nat /\ LUAI_MAXSTACK < ERRORSTACKSIZE /\ MaxFrames \in Nat
    BY DEF Sizes
  <1>3. TypeInv
    <2>1. stack.size <= ERRORSTACKSIZE
      BY <1>1, <1>2 DEF Sound, SizeOK
    <2> QED BY <1>1, <1>2, <2>1 DEF SpaceInv, TypeInv
  <1>4. PointersCurrent
    <2>1. InLua => ci(stack).local = ci(stack).base
      BY DEF SpaceInv, Running, InLua
    <2> QED BY <1>1, <2>1 DEF PointersCurrent, Sound, Live, FrameLive
  <1>5. InBounds /\ ErrorZone
    BY <1>1 DEF SpaceInv, InBounds, ErrorZone, Sound, Fits
  <1>6. UpvaluesBelow
    <2> SUFFICES ASSUME thrown = "ok", NEW u \in stack.openupval
                 PROVE  u.at < (IF stack.top.at < ci(stack).top.at THEN ci(stack).top.at ELSE stack.top.at)
      BY DEF UpvaluesBelow
    <2>1. /\ u.at \in Nat /\ (~ci(stack).lua => u.at < ci(stack).func.at)
          /\ (ci(stack).lua => u.at < ci(stack).top.at)
      BY <1>1, UpvaluesUnder
    <2> QED BY <1>1, <2>1
  <1> QED BY <1>3, <1>4, <1>5, <1>6 DEF StackKept

(* In every run: no pointer is left behind where the memory moves, no slot  *)
(* beyond it is written, only the handler of an overflow runs above the     *)
(* limit, and no upvalue is left open above the top (ldo.c:158-245,         *)
(* luaF_close).                                                            *)
THEOREM StackIsKept == ASSUME Sizes PROVE SpaceSpec => []StackKept
  <1>1. SpaceInit => SpaceInv
    BY SpaceStarts
  <1>2. SpaceInv /\ [SpaceNext]_spaceVars => SpaceInv'
    BY SpaceSteps
  <1>3. SpaceInv => StackKept
    BY SpaceSuffices
  <1> QED BY <1>1, <1>2, <1>3, PTL DEF SpaceSpec
=============================================================================

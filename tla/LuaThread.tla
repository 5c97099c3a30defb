------------------------------ MODULE LuaThread -----------------------------
(***************************************************************************)
(* Threads, protected calls and errors (ldo.c, lcorolib.c, pcall and xpcall *)
(* of lbaselib.c): longjmp over a C stack, the counters nCcalls and nny,    *)
(* the saved error functions, and coroutines that are unrolled without the  *)
(* C frames that a yield threw away.  What the Lua functions do is chosen   *)
(* freely.                                                                 *)
(***************************************************************************)
EXTENDS Integers, Sequences, FiniteSets

CONSTANTS
    Threads, Main,
    MAXCCALLS,      \* LUAI_MAXCCALLS
    MaxFrames(_)    \* bound: frames of a thread when a function calls

VARIABLES
    th,     \* per thread: status ("OK", "YIELD" or an error), nny, nCcalls, errfunc,
            \* start (a function waits on the stack), ci (frames [f, ypcall, old_errfunc])
    cs,     \* the C stack: [f, t, base, nny, nCcalls, errfunc], the last three
            \* what the C function saved
    m,      \* what goes on: [k, e] as in LuaCoroutines
    seen    \* what the function that runs saw last

vars == <<th, cs, m, seen>>
TopOf(s) == s.cs[Len(s.cs)]
Frame(f) == [f |-> f, ypcall |-> FALSE, old_errfunc |-> 0]
Depth(s, t) == Len(s.th[t].ci)
CFrame(s, f, t) == [f |-> f, t |-> t, base |-> Depth(s, t), nny |-> s.th[t].nny,
                    nCcalls |-> s.th[t].nCcalls, errfunc |-> s.th[t].errfunc]
\* Operations work on all of the state at once.
State == [th |-> th, cs |-> cs, m |-> m, seen |-> seen]
Mode(s, k, e) == [s EXCEPT !.m = [k |-> k, e |-> e]]
next_ci(s, t, f) == [s EXCEPT !.th[t].ci = Append(@, Frame(f))]
Truncated(s, t, n) == [s EXCEPT !.th[t].ci = SubSeq(@, 1, n)]
InC(s, f, t) == [s EXCEPT !.cs = Append(@, CFrame(s, f, t))]
OutC(s, n) == [s EXCEPT !.cs = SubSeq(@, 1, n)]
Out(s) == OutC(s, Len(s.cs) - 1)
Run == TopOf(State).t
Room == Len(th[Run].ci) < MaxFrames(Run)
Running == m.k = "lua" /\ Room

-----------------------------------------------------------------------------
\* A Lua function is entered from C: luaD_precall and luaV_execute.
luaV_execute(s, t) == Mode(InC(s, "luaV_execute", t), "lua", "")
\* unroll: the interpreter takes up a frame that a yield or an error cut off.
unroll(s) ==
    LET t == TopOf(s).t
    IN  IF /\ s.m.k = "back" /\ TopOf(s).f = "lua_resume" /\ Depth(s, t) > 0
           /\ s.th[t].ci[Depth(s, t)].f \in {"lua", "handler"}
        THEN luaV_execute(s, t) ELSE s
Becomes(r) == LET s == unroll(r) IN th' = s.th /\ cs' = s.cs /\ m' = s.m /\ seen' = s.seen

luaD_call(r, t, f) ==
    LET s == [r EXCEPT !.th[t].nCcalls = @ + 1]
        n == s.th[t].nCcalls
    IN  IF n = MAXCCALLS THEN Mode(s, "error", "overflow")
        ELSE IF n >= MAXCCALLS + MAXCCALLS \div 8 THEN Mode(s, "throw", "errerr")
        ELSE luaV_execute(next_ci(s, t, f), t)
luaD_callnoyield(s, t, f) == luaD_call([s EXCEPT !.th[t].nny = @ + 1], t, f)

\* A C function of thread t is done (luaD_poscall): the interpreter goes on,
\* or unroll where it was cut off.
Poscall(s, t) ==
    LET r == Truncated(s, t, Depth(s, t) - 1)
    IN  Mode(r, IF TopOf(r).f = "luaV_execute" THEN "lua" ELSE "back", "")

LuaCall == Running /\ Becomes(next_ci(State, Run, "lua"))

\* lua_pcallk: in a coroutine that can yield there is no setjmp.
lua_pcallk(kind) ==
    LET t == Run
        s == next_ci(State, t, kind)
        d == Depth(s, t)
        errfunc == IF kind = "xpcall" THEN d ELSE 0
        y == [s EXCEPT !.th[t].ci[d].ypcall = TRUE, !.th[t].ci[d].old_errfunc = th[t].errfunc]
    IN  /\ Running
        /\ Becomes(IF th[t].nny > 0
                   THEN luaD_callnoyield([InC(s, "luaD_pcall", t) EXCEPT !.th[t].errfunc = errfunc], t, "lua")
                   ELSE luaD_call([InC(y, "lua_pcallk", t) EXCEPT !.th[t].errfunc = errfunc], t, "lua"))
\* lua_callk without a continuation, from a C function such as table.sort.
lua_callk ==
    LET s == next_ci(State, Run, "sort")
    IN  Running /\ Becomes(luaD_callnoyield(InC(s, "lua_callk", Run), Run, "lua"))

\* OP_RETURN: out of the interpreter when the frame is the one it began with.
\* What a message handler returns is thrown by luaG_errormsg.
OP_RETURN ==
    LET t == Run
        d == Depth(State, t)
        s == Truncated(State, t, d - 1)
        handled == [OutC(s, Len(cs) - 2) EXCEPT !.th[t].nny = @ - 1, !.th[t].nCcalls = @ - 1]
    IN  /\ m.k = "lua"
        /\ Becomes(IF th[t].ci[d].f = "handler" THEN Mode(handled, "throw", "handled")
                   ELSE IF TopOf(State).base = d THEN Mode(Out(s), "back", "") ELSE s)

luaB_error == m.k = "lua" /\ Becomes(Mode(State, "error", "user"))
luaG_errormsg ==
    /\ m.k = "error"
    /\ Becomes(IF th[Run].errfunc = 0 THEN Mode(State, "throw", m.e)
               ELSE luaD_callnoyield(InC(State, "luaG_errormsg", Run), Run, "handler"))

-----------------------------------------------------------------------------
\* The end of lua_resume, for the thread that its frame is of, on top of cs.
ResumeEnds(s, t, status, what) ==
    LET u == TopOf(Out(s)).t
        r == [Out(s) EXCEPT !.th[t].nny = TopOf(s).nny, !.th[t].nCcalls = @ - 1, !.th[t].status = status]
        wrap == r.th[u].ci[Depth(r, u)].f = "wrap"
    IN  IF wrap /\ status \notin {"OK", "YIELD"} THEN Mode(r, "error", what)
        ELSE [Poscall(r, u) EXCEPT !.seen = what]

\* Mutant: the error function stays the one of the pcall that is over.
finishCcall_errfunc(s, t, what) ==
    LET d == Depth(s, t) IN [Poscall([s EXCEPT !.th[t].ci[d].ypcall = FALSE], t) EXCEPT !.seen = what]

\* finishCcall for the continuation of pcall and xpcall.
finishCcall(s, t, what) ==
    LET d == Depth(s, t)
        c == s.th[t].ci[d]
        r == [s EXCEPT !.th[t].ci[d].ypcall = FALSE, !.th[t].errfunc = IF c.ypcall THEN c.old_errfunc ELSE @]
    IN  [Poscall(r, t) EXCEPT !.seen = what]

\* What follows in C when what it called has returned.
Back ==
    LET c == TopOf(State)
        t == c.t
        s == Out(State)
        d == Depth(State, t)
    IN  /\ m.k = "back"
        /\ \/ /\ c.f = "lua_callk"
              /\ Becomes(Poscall([s EXCEPT !.th[t].nny = @ - 1, !.th[t].nCcalls = @ - 1], t))
           \/ /\ c.f = "lua_pcallk"
              /\ Becomes([Poscall([s EXCEPT !.th[t].nCcalls = @ - 1, !.th[t].errfunc = th[t].ci[d].old_errfunc], t)
                            EXCEPT !.seen = "ok"])
           \/ /\ c.f = "luaD_pcall"
              /\ LET r == [s EXCEPT !.th[t].nny = @ - 1, !.th[t].nCcalls = c.nCcalls, !.th[t].errfunc = c.errfunc,
                                    !.seen = "ok"]
                 IN  Becomes(IF c.base = 0 THEN Mode(r, "host", "") ELSE Poscall(r, t))
           \/ /\ c.f = "lua_resume" /\ d = 0 /\ Becomes(ResumeEnds(State, t, "OK", "returned"))
           \/ /\ c.f = "lua_resume" /\ d # 0 /\ th[t].ci[d].f \notin {"lua", "handler"}
              /\ Becomes(finishCcall(State, t, "ok"))

\* Mutant: who catches an error of a coroutine does not set nny.
recover_nny(s, t, j) ==
    Truncated([s EXCEPT !.th[t].errfunc = s.th[t].ci[j].old_errfunc], t, j)
\* recover: the pcall at ci[j] gets the error.
recover(s, t, j) ==
    Truncated([s EXCEPT !.th[t].nny = 0, !.th[t].errfunc = s.th[t].ci[j].old_errfunc], t, j)

\* luaD_rawrunprotected, after a longjmp to it.
luaD_rawrunprotected(s, t, c) == [s EXCEPT !.th[t].nCcalls = c.nCcalls]
\* luaD_pcall, after an error.
luaD_pcall(s, t, c) == Truncated([s EXCEPT !.th[t].nny = c.nny, !.th[t].errfunc = c.errfunc], t, c.base)

\* luaD_throw: longjmp to the last setjmp of the thread.
luaD_throw ==
    LET t == Run
        i == CHOOSE i \in DOMAIN cs :
               /\ cs[i].t = t /\ cs[i].f \in {"luaD_pcall", "lua_resume"}
               /\ \A j \in DOMAIN cs : (cs[j].t = t /\ cs[j].f \in {"luaD_pcall", "lua_resume"}) => j <= i
        c == cs[i]
        s == luaD_rawrunprotected(OutC(State, i), t, c)
        p == [luaD_pcall(Out(s), t, c) EXCEPT !.seen = m.e]
        at == {j \in DOMAIN th[t].ci : th[t].ci[j].ypcall}
        j == CHOOSE j \in at : \A k \in at : k <= j
    IN  /\ m.k = "throw"
        /\ \/ c.f = "luaD_pcall" /\ Becomes(IF c.base = 0 THEN Mode(p, "host", "") ELSE Poscall(p, t))
           \/ c.f = "lua_resume" /\ at # {} /\ Becomes(finishCcall(recover(s, t, j), t, m.e))
           \/ c.f = "lua_resume" /\ at = {} /\ Becomes(ResumeEnds(s, t, m.e, m.e))

-----------------------------------------------------------------------------
\* coroutine.resume, and a call of what coroutine.wrap made.
lua_resume(co, kind) ==
    LET t == Run
        s == next_ci(State, t, kind)
        n == th[t].nCcalls + 1
        x == th[co]
        resumable == x.start \/ x.status = "YIELD"
        refused == IF kind = "wrap" THEN Mode(s, "error", "refused")
                   ELSE [Poscall(s, t) EXCEPT !.seen = "refused"]
        r == [s EXCEPT !.th[co].nCcalls = n]
        c == [r EXCEPT !.cs = Append(@, CFrame(r, "lua_resume", co)),
                       !.th[co].nny = 0, !.th[co].status = "OK", !.th[co].start = FALSE]
        yielded == Truncated(c, co, Depth(c, co) - 1)
    IN  /\ Running
        /\ Becomes(IF ~resumable THEN refused
                   ELSE IF n >= MAXCCALLS THEN [refused EXCEPT !.th[co].nCcalls = n]
                   ELSE IF x.start THEN luaV_execute(next_ci(c, co, "lua"), co)
                   ELSE Mode(yielded, "back", ""))

\* lua_yieldk, and the longjmp to lua_resume.
lua_yieldk ==
    LET t == Run
        s == next_ci(State, t, "yield")
        i == CHOOSE i \in DOMAIN cs : cs[i].t = t /\ cs[i].f = "lua_resume" /\ \A j \in i + 1..Len(cs) : cs[j].f # "lua_resume"
        r == luaD_rawrunprotected(OutC(s, i), t, cs[i])
    IN  /\ Running
        /\ Becomes(IF th[t].nny > 0 THEN Mode(s, "error", "noyield") ELSE ResumeEnds(r, t, "YIELD", "yielded"))

\* The host calls a function of the main thread, as ailua_call does.
Host ==
    /\ m.k = "host"
    /\ Becomes([luaD_callnoyield([State EXCEPT !.cs = <<CFrame(State, "luaD_pcall", Main)>>], Main, "lua")
                  EXCEPT !.seen = "start"])

NewThread(t) == [status |-> "OK", nny |-> 1, nCcalls |-> 0, errfunc |-> 0, start |-> t # Main, ci |-> <<>>]
Init ==
    LET s == [th |-> [t \in Threads |-> NewThread(t)], cs |-> <<>>, m |-> [k |-> "host", e |-> ""], seen |-> "start"]
        r == luaD_callnoyield([s EXCEPT !.cs = <<CFrame(s, "luaD_pcall", Main)>>], Main, "lua")
    IN  th = r.th /\ cs = r.cs /\ m = r.m /\ seen = r.seen

Next ==
    \/ LuaCall \/ (\E kind \in {"pcall", "xpcall"} : lua_pcallk(kind)) \/ lua_callk \/ OP_RETURN
    \/ luaB_error \/ luaG_errormsg \/ Back \/ luaD_throw
    \/ (\E co \in Threads \ {Main}, kind \in {"resume", "wrap"} : lua_resume(co, kind))
    \/ lua_yieldk \/ Host
Spec == Init /\ [][Next]_vars

-----------------------------------------------------------------------------
Chain == <<Main>> \o [i \in 1..Len(SelectSeq(cs, LAMBDA c : c.f = "lua_resume")) |->
                         SelectSeq(cs, LAMBDA c : c.f = "lua_resume")[i].t]
Active == {Chain[i] : i \in DOMAIN Chain}
Status(t) ==
    IF t \in Active THEN "active"
    ELSE IF th[t].start THEN "new" ELSE IF th[t].status = "YIELD" THEN "suspended" ELSE "dead"
Frames(t) == IF Status(t) = "dead" THEN <<>> ELSE [i \in DOMAIN th[t].ci |-> th[t].ci[i].f]
Abstract == INSTANCE LuaCoroutines WITH
    fr <- [t \in Threads |-> Frames(t)], st <- [t \in Threads |-> Status(t)], chain <- Chain

(* The C stack, the counters and the saved values do what the abstract      *)
(* specification says: an error reaches the nearest protected call of its   *)
(* thread, whether a setjmp or only a mark in its frame is left of it, with *)
(* the handler of that call; a yield succeeds exactly when no C function    *)
(* that cannot be continued is in between; other threads are not disturbed. *)
ImplementsCoroutines == Abstract!Spec

(* nCcalls is the number of C calls on the C stack, after every longjmp     *)
(* too: what limits the depth of the C stack measures it.                  *)
CountsCalls ==
    m.k = "lua" => th[Run].nCcalls =
        Cardinality({i \in DOMAIN cs : cs[i].f # "luaV_execute"})

(* A thread that is suspended has only frames that can be continued: no C   *)
(* function without a continuation lies in it, and its error function is    *)
(* the one of its innermost pcall, which lua_resume finds again.           *)
Continuable ==
    \A t \in Threads : Status(t) = "suspended" =>
        LET ci == th[t].ci
            at == {i \in DOMAIN ci : ci[i].f \in {"pcall", "xpcall"}}
            i == CHOOSE i \in at : \A j \in at : j <= i
        IN  /\ \A k \in DOMAIN ci : ci[k].f \in {"lua", "pcall", "xpcall"} \/ (k = Len(ci) /\ ci[k].f = "yield")
            /\ \A k \in at : ci[k].ypcall
            /\ th[t].errfunc = IF at = {} THEN 0 ELSE IF ci[i].f = "xpcall" THEN i ELSE 0

(* Between two calls of the host the main thread is as it was made.         *)
BackToStart ==
    m.k = "host" => cs = <<>> /\ th[Main] = NewThread(Main)
=============================================================================

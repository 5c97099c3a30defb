---------------------------- MODULE LuaCoroutines ---------------------------
(***************************************************************************)
(* What coroutines and protected calls promise to a program: the abstract   *)
(* specification that LuaThread implements.  There is no C stack, no        *)
(* counter and no saved value: whether a coroutine can yield, who catches   *)
(* an error and which handler sees it follow from the functions that are    *)
(* active.  A frame is "lua", "handler" (of an xpcall), or the C function   *)
(* pcall, xpcall, resume, wrap, yield, or sort (one that calls back without *)
(* a continuation, as table.sort does).                                    *)
(***************************************************************************)
EXTENDS Integers, Sequences, FiniteSets

CONSTANTS Threads, Main, MAXCCALLS

VARIABLES
    fr,     \* the frames of every thread, <<>> when it is dead or not started
    st,     \* "new", "active" (running or normal), "suspended", "dead"
    chain,  \* the active threads: each resumed the next, the last one runs
    m,      \* "lua", "back" (to a C function), <<"error", e>>, <<"throw", e>>, "host"
    seen    \* what the function that runs saw last

avars == <<fr, st, chain, m, seen>>
Run == chain[Len(chain)]
Mode(k, e) == [k |-> k, e |-> e]
Kind(t) == fr[t][Len(fr[t])]
Push(t, kinds) == [fr EXCEPT ![t] = @ \o kinds]
Cut(t, n) == [fr EXCEPT ![t] = SubSeq(@, 1, n)]
Protected == {"pcall", "xpcall"}
Barriers == {"sort", "handler"}
Nearest(t) ==
    LET at == {i \in DOMAIN fr[t] : fr[t][i] \in Protected}
    IN  IF at = {} THEN 0 ELSE CHOOSE i \in at : \A j \in at : j <= i
CanYield(t) == t # Main /\ \A i \in DOMAIN fr[t] : fr[t][i] \notin Barriers
Handled(t) == Nearest(t) # 0 /\ fr[t][Nearest(t)] = "xpcall"
\* The calls of C functions to Lua functions that are not over.
Counted == {"pcall", "xpcall", "sort", "handler", "resume", "wrap"}
Depth == 1 + Cardinality({p \in {<<t, i>> : t \in {chain[j] : j \in DOMAIN chain}, i \in 1..20} :
                             p[2] \in DOMAIN fr[p[1]] /\ fr[p[1]][p[2]] \in Counted})

Init ==
    /\ fr = [t \in Threads |-> IF t = Main THEN <<"lua">> ELSE <<>>]
    /\ st = [t \in Threads |-> IF t = Main THEN "active" ELSE "new"]
    /\ chain = <<Main>> /\ m = Mode("lua", "") /\ seen = "start"

\* A C function calls a Lua function: too deep it is an error.
Enter(kind) ==
    /\ m.k = "lua"
    /\ \/ fr' = Push(Run, <<kind, "lua">>) /\ m' = Mode("lua", "")
       \/ fr' = Push(Run, <<kind>>) /\ Depth + 1 >= MAXCCALLS /\ m' = Mode("error", "overflow")
       \/ fr' = Push(Run, <<kind>>) /\ Depth + 1 > MAXCCALLS /\ m' = Mode("throw", "errerr")
    /\ UNCHANGED <<st, chain, seen>>
LuaCall == m.k = "lua" /\ fr' = Push(Run, <<"lua">>) /\ UNCHANGED <<st, chain, m, seen>>
Calls == \E kind \in {"pcall", "xpcall", "sort"} : Enter(kind)

\* A Lua function returns, to a Lua function or to a C function.
Return ==
    LET n == Len(fr[Run]) - 1
    IN  /\ m.k = "lua" /\ fr' = Cut(Run, n) /\ UNCHANGED <<st, chain, seen>>
        /\ m' = IF Kind(Run) = "handler" THEN Mode("throw", "handled")
                ELSE IF n > 0 /\ fr[Run][n] \in {"lua", "handler"} THEN m ELSE Mode("back", "")

\* What a C function does with the results, or the end of a coroutine.
ToLua(t, f) == IF f[t] # <<>> /\ f[t][Len(f[t])] \in {"lua", "handler"} THEN Mode("lua", "") ELSE Mode("back", "")
Deliver(f, status, what) ==
    LET u == chain[Len(chain) - 1]
        failed == status = "dead" /\ what # "returned"
        raises == failed /\ f[u][Len(f[u])] = "wrap"
    IN  /\ st' = [st EXCEPT ![Run] = status]
        /\ chain' = SubSeq(chain, 1, Len(chain) - 1)
        /\ fr' = IF raises THEN f ELSE [f EXCEPT ![u] = SubSeq(@, 1, Len(@) - 1)]
        /\ m' = IF raises THEN Mode("error", what) ELSE Mode("lua", "")
        /\ seen' = IF raises THEN seen ELSE what
Back ==
    /\ m.k = "back"
    /\ \/ /\ fr[Run] # <<>>
          /\ fr' = Cut(Run, Len(fr[Run]) - 1) /\ m' = ToLua(Run, fr')
          /\ seen' = IF Kind(Run) \in Protected THEN "ok" ELSE seen
          /\ UNCHANGED <<st, chain>>
       \/ fr[Run] = <<>> /\ Run # Main /\ Deliver(fr, "dead", "returned")
       \/ fr[Run] = <<>> /\ Run = Main /\ m' = Mode("host", "") /\ seen' = "ok" /\ UNCHANGED <<fr, st, chain>>

Error == m.k = "lua" /\ m' = Mode("error", "user") /\ UNCHANGED <<fr, st, chain, seen>>
\* An error meets the handler of the nearest protected call.
ErrorMsg ==
    /\ m.k = "error" /\ UNCHANGED <<st, chain, seen>>
    /\ IF ~Handled(Run) THEN m' = Mode("throw", m.e) /\ UNCHANGED fr
       ELSE \/ fr' = Push(Run, <<"handler">>) /\ m' = Mode("lua", "")
            \/ Depth + 1 >= MAXCCALLS /\ m' = Mode("error", "overflow") /\ UNCHANGED fr
            \/ /\ Depth + (IF m.e = "overflow" THEN 2 ELSE 1) > MAXCCALLS
               /\ m' = Mode("throw", "errerr") /\ UNCHANGED fr
\* The nearest protected call catches it; without one the coroutine dies.
Throw ==
    LET n == Nearest(Run)
    IN  /\ m.k = "throw"
        /\ \/ n # 0 /\ fr' = Cut(Run, n - 1) /\ m' = ToLua(Run, fr') /\ seen' = m.e /\ UNCHANGED <<st, chain>>
           \/ n = 0 /\ Run # Main /\ Deliver([fr EXCEPT ![Run] = <<>>], "dead", m.e)
           \/ n = 0 /\ Run = Main /\ fr' = Cut(Main, 0) /\ m' = Mode("host", "") /\ seen' = m.e /\ UNCHANGED <<st, chain>>

\* A coroutine is resumed, or it cannot be: it is dead or it is active, or
\* the calls are too deep.
Resume(co, kind) ==
    /\ m.k = "lua"
    /\ \/ /\ st[co] \in {"new", "suspended"}
          /\ st' = [st EXCEPT ![co] = "active"] /\ chain' = Append(chain, co) /\ UNCHANGED seen
          /\ LET f == Push(Run, <<kind>>)
             IN  IF st[co] = "new" THEN fr' = [f EXCEPT ![co] = <<"lua">>] /\ m' = Mode("lua", "")
                 ELSE /\ fr' = [f EXCEPT ![co] = SubSeq(@, 1, Len(@) - 1)] /\ m' = ToLua(co, fr')
       \/ /\ st[co] \in {"dead", "active"} \/ Depth + 1 >= MAXCCALLS
          /\ UNCHANGED <<st, chain>>
          /\ IF kind = "wrap" THEN fr' = Push(Run, <<kind>>) /\ m' = Mode("error", "refused") /\ UNCHANGED seen
             ELSE seen' = "refused" /\ UNCHANGED <<fr, m>>
Resumes == \E co \in Threads \ {Main}, kind \in {"resume", "wrap"} : Resume(co, kind)

\* A yield suspends the coroutine, unless a C function that cannot be left
\* is in between.
Yield ==
    /\ m.k = "lua"
    /\ \/ /\ CanYield(Run)
          /\ Deliver(Push(Run, <<"yield">>), "suspended", "yielded")
       \/ ~CanYield(Run) /\ fr' = Push(Run, <<"yield">>) /\ m' = Mode("error", "noyield") /\ UNCHANGED <<st, chain, seen>>

\* The host calls the main thread again.
Host ==
    /\ m.k = "host"
    /\ fr' = Push(Main, <<"lua">>) /\ m' = Mode("lua", "") /\ seen' = "start" /\ UNCHANGED <<st, chain>>

Next == LuaCall \/ Calls \/ Return \/ Back \/ Error \/ ErrorMsg \/ Throw \/ Resumes \/ Yield \/ Host
Spec == Init /\ [][Next]_avars
=============================================================================

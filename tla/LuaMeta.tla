------------------------------- MODULE LuaMeta ------------------------------
(***************************************************************************)
(* Tables and strings with metatables: the accesses that go on along        *)
(* __index and __newindex (lvm.c:149-234), __eq and __len, and the bits of  *)
(* a metatable that remember which events it lacks (ltm.c:54-84).  What a   *)
(* metamethod that is a function does is left open: an access ends in the   *)
(* call.                                                                    *)
(***************************************************************************)
EXTENDS Naturals, Sequences, FiniteSets

CONSTANTS
    Tables,
    Keys,         \* the string keys that are used, names of events among them
    ValuesOf(_),  \* the values a key is given, besides nil
    Fun, Str,     \* a function; a string
    NIL,
    MAXTAGLOOP    \* bound: steps along a chain

ChainsFit == MAXTAGLOOP >= Cardinality(Tables) + 1

VARIABLES
    raw,    \* [table -> [key -> value]]
    mt,     \* the metatable of each table, and of all strings; or NIL
    flags   \* the events each table is known to lack

vars == <<raw, mt, flags>>

FastEvents == {"__index", "__newindex", "__gc", "__mode", "__len", "__eq"}
Objects == Tables \cup {Str}
heap == [raw |-> raw, mt |-> mt, flags |-> flags]

(***************************************************************************)
(* A heap after it, and what was found.                                     *)
(***************************************************************************)
gfasttm(h, m, e) ==
    IF m = NIL \/ e \in h.flags[m] THEN [h |-> h, tm |-> NIL]
    ELSE [tm |-> h.raw[m][e],
          h |-> IF h.raw[m][e] = NIL THEN [h EXCEPT !.flags[m] = @ \cup {e}] ELSE h]

luaT_gettmbyobj(h, o, e) == IF h.mt[o] = NIL THEN NIL ELSE h.raw[h.mt[o]][e]

\* The handler of an object for an access, and the heap with the bits it left.
handler(h, o, e) ==
    IF o \in Tables THEN gfasttm(h, h.mt[o], e) ELSE [h |-> h, tm |-> luaT_gettmbyobj(h, o, e)]

Done(h, k, v) == [h |-> h, out |-> [k |-> k, v |-> v]]
luaV_fastget(h, o, k) == o \in Tables /\ h.raw[o][k] # NIL

RECURSIVE luaV_finishget(_, _, _, _)
luaV_finishget(h, o, k, loop) ==
    LET g == handler(h, o, "__index") IN
    IF loop = MAXTAGLOOP THEN Done(h, "loop", NIL)
    ELSE IF g.tm = NIL THEN IF o \in Tables THEN Done(g.h, "value", NIL) ELSE Done(g.h, "typeerror", o)
    ELSE IF g.tm = Fun THEN Done(g.h, "call", <<o, k>>)
    ELSE IF luaV_fastget(g.h, g.tm, k) THEN Done(g.h, "value", g.h.raw[g.tm][k])
    ELSE luaV_finishget(g.h, g.tm, k, loop + 1)

luaV_gettable(h, o, k) ==
    IF luaV_fastget(h, o, k) THEN Done(h, "value", h.raw[o][k]) ELSE luaV_finishget(h, o, k, 0)

Written(h, o, k, v) == [h EXCEPT !.raw[o][k] = v]
invalidateTMcache(h, o) == [h EXCEPT !.flags[o] = {}]

\* Mutant: a new entry leaves the bits.
RECURSIVE luaV_finishset_keeps(_, _, _, _, _)
luaV_finishset_keeps(h, o, k, v, loop) ==
    LET g == handler(h, o, "__newindex") IN
    IF loop = MAXTAGLOOP THEN Done(h, "loop", NIL)
    ELSE IF g.tm = NIL THEN
        IF o \in Tables THEN Done(Written(g.h, o, k, v), "set", o) ELSE Done(g.h, "typeerror", o)
    ELSE IF g.tm = Fun THEN Done(g.h, "call", <<o, k, v>>)
    ELSE IF luaV_fastget(g.h, g.tm, k) THEN Done(Written(g.h, g.tm, k, v), "set", g.tm)
    ELSE luaV_finishset_keeps(g.h, g.tm, k, v, loop + 1)

RECURSIVE luaV_finishset(_, _, _, _, _)
luaV_finishset(h, o, k, v, loop) ==
    LET g == handler(h, o, "__newindex") IN
    IF loop = MAXTAGLOOP THEN Done(h, "loop", NIL)
    ELSE IF g.tm = NIL THEN
        IF o \in Tables THEN Done(invalidateTMcache(Written(g.h, o, k, v), o), "set", o)
        ELSE Done(g.h, "typeerror", o)
    ELSE IF g.tm = Fun THEN Done(g.h, "call", <<o, k, v>>)
    ELSE IF luaV_fastget(g.h, g.tm, k) THEN Done(Written(g.h, g.tm, k, v), "set", g.tm)
    ELSE luaV_finishset(g.h, g.tm, k, v, loop + 1)

luaV_settable(h, o, k, v) ==
    IF luaV_fastget(h, o, k) THEN Done(Written(h, o, k, v), "set", o)
    ELSE luaV_finishset(h, o, k, v, 0)

\* Of two different tables, or a table and a string.
luaV_equalobj(h, a, b) ==
    IF a = b \/ a \notin Tables \/ b \notin Tables THEN Done(h, "value", a = b)
    ELSE LET g1 == gfasttm(h, h.mt[a], "__eq")
             g == IF g1.tm = NIL THEN gfasttm(g1.h, h.mt[b], "__eq") ELSE g1
         IN  IF g.tm = NIL THEN Done(g.h, "value", FALSE) ELSE Done(g.h, "callof", <<g.tm, a, b>>)

luaV_objlen(h, o) ==
    LET g == gfasttm(h, h.mt[o], "__len") IN
    IF o = Str \/ g.tm = NIL THEN Done(IF o = Str THEN h ELSE g.h, "primitive", o)
    ELSE Done(g.h, "callof", <<g.tm, o, o>>)

(***************************************************************************)
(* The program.                                                             *)
(***************************************************************************)
Init ==
    /\ raw = [t \in Tables |-> [k \in Keys |-> NIL]]
    /\ mt = [o \in Objects |-> NIL]
    /\ flags = [t \in Tables |-> {}]

Becomes(h) == raw' = h.raw /\ mt' = h.mt /\ flags' = h.flags

lua_gettable(o, k) == Becomes(luaV_gettable(heap, o, k).h)
lua_settable(o, k, v) == Becomes(luaV_settable(heap, o, k, v).h)
\* Mutant: the bits stay.
lua_rawset_keeps(t, k, v) == Becomes(Written(heap, t, k, v))

lua_rawset(t, k, v) == Becomes(invalidateTMcache(Written(heap, t, k, v), t))
lua_setmetatable(o, m) == mt' = [mt EXCEPT ![o] = m] /\ UNCHANGED <<raw, flags>>
lua_compare(a, b) == "__eq" \in Keys /\ Becomes(luaV_equalobj(heap, a, b).h)
lua_len(o) == "__len" \in Keys /\ Becomes(luaV_objlen(heap, o).h)

Next ==
    \/ \E o \in Objects, k \in Keys : "__index" \in Keys /\ lua_gettable(o, k)
    \/ \E o \in Objects, k \in Keys :
        /\ "__newindex" \in Keys
        /\ \E v \in ValuesOf(k) \cup {NIL} : lua_settable(o, k, v)
    \/ \E t \in Tables, k \in Keys : \E v \in ValuesOf(k) \cup {NIL} : lua_rawset(t, k, v)
    \/ \E o \in Objects, m \in Tables \cup {NIL} : lua_setmetatable(o, m)
    \/ \E a, b \in Objects : lua_compare(a, b)
    \/ \E o \in Objects : lua_len(o)

Spec == Init /\ [][Next]_vars

(***************************************************************************)
(* What an access means, without bits that remember and without a limit:    *)
(* it walks from an object to its handler, and the walk ends or comes back. *)
(***************************************************************************)
Meta(o, e) == IF mt[o] = NIL THEN NIL ELSE raw[mt[o]][e]
Has(o, k) == o \in Tables /\ raw[o][k] # NIL
Ends(o, k, e) == Has(o, k) \/ Meta(o, e) \in {NIL, Fun}
Walk(o, k, e) ==
    LET w[n \in Nat] == IF n = 0 THEN o
                        ELSE IF Ends(w[n - 1], k, e) THEN w[n - 1] ELSE Meta(w[n - 1], e)
    IN  w
\* After as many steps as there are objects a walk is at its end, or in a circle.
Last(o, k, e) == Walk(o, k, e)[Cardinality(Objects)]
Circles(o, k, e) == ~Ends(Last(o, k, e), k, e)

MeansGet(o, k) ==
    LET l == Last(o, k, "__index") IN
    CASE Circles(o, k, "__index") -> [k |-> "loop", v |-> NIL]
      [] Has(l, k) -> [k |-> "value", v |-> raw[l][k]]
      [] ~Has(l, k) /\ Meta(l, "__index") = Fun -> [k |-> "call", v |-> <<l, k>>]
      [] OTHER -> IF l \in Tables THEN [k |-> "value", v |-> NIL] ELSE [k |-> "typeerror", v |-> l]

MeansSet(o, k, v) ==
    LET l == Last(o, k, "__newindex") IN
    CASE Circles(o, k, "__newindex") -> [raw |-> raw, out |-> [k |-> "loop", v |-> NIL]]
      [] ~Has(l, k) /\ Meta(l, "__newindex") = Fun ->
            [raw |-> raw, out |-> [k |-> "call", v |-> <<l, k, v>>]]
      [] ~Has(l, k) /\ Meta(l, "__newindex") = NIL /\ l \notin Tables ->
            [raw |-> raw, out |-> [k |-> "typeerror", v |-> l]]
      [] OTHER -> [raw |-> [raw EXCEPT ![l][k] = v], out |-> [k |-> "set", v |-> l]]

(***************************************************************************)
(* An indexed access gives what the chain of handlers means, whatever was   *)
(* remembered of metatables that changed since; and "possible loop" is      *)
(* raised for the chains that come back to an object, and for no other.     *)
(***************************************************************************)
IndexIsChain ==
    "__index" \in Keys => \A o \in Objects, k \in Keys : luaV_gettable(heap, o, k).out = MeansGet(o, k)

\* An assignment stores where the chain of __newindex ends, and nowhere else.
AssignIsChain ==
    "__newindex" \in Keys =>
        \A o \in Objects, k \in Keys : \A v \in ValuesOf(k) \cup {NIL} :
            LET s == luaV_settable(heap, o, k, v) IN
            s.out = MeansSet(o, k, v).out /\ s.h.raw = MeansSet(o, k, v).raw

(***************************************************************************)
(* Two tables are compared by the __eq of the first, or else of the second, *)
(* as they are now; the length by the __len as it is now.                   *)
(***************************************************************************)
EqualAndLength ==
    /\ \A a, b \in Tables : a # b =>
        LET f == IF Meta(a, "__eq") # NIL THEN Meta(a, "__eq") ELSE Meta(b, "__eq") IN
        luaV_equalobj(heap, a, b).out =
            IF f = NIL THEN [k |-> "value", v |-> FALSE] ELSE [k |-> "callof", v |-> <<f, a, b>>]
    /\ \A t \in Tables :
        luaV_objlen(heap, t).out =
            IF Meta(t, "__len") = NIL THEN [k |-> "primitive", v |-> t]
            ELSE [k |-> "callof", v |-> <<Meta(t, "__len"), t, t>>]
=============================================================================

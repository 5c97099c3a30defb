---------------------------- MODULE LuaOperators ----------------------------
(***************************************************************************)
(* Operators that may call metamethods, which may yield: concatenation,     *)
(* comparison and addition (lvm.c:343-512, ltm.c:102-165).  An operator is  *)
(* finished where it was called from, or, when the coroutine has yielded in *)
(* between and its C stack is gone, by luaV_finishOp (lvm.c:656-714).       *)
(***************************************************************************)
EXTENDS Naturals, Sequences, SequencesExt

CONSTANTS
    Objects,     \* values with metatables
    Events,      \* the events that they may have metamethods for
    Strings, Numbers, \* sequences of characters; numbers, written so
    Answers,     \* what metamethods return
    MaxOperands, \* bound: operands of a concatenation
    MAX_SIZE     \* bound: no string is this long

VARIABLES
    has,      \* the events that each object has a metamethod for
    inst,     \* the instruction: [op, a, args]; a is the outcome that jumps
    stack,    \* a local variable, the operands of a concatenation, and a result
    leq,      \* CIST_LEQ
    pending,  \* the call that runs: [ev, tm, args]; or <<>>
    log,      \* the calls that were made, and their results
    outcome   \* [k, v]: "ready", "run", "done", "error"

vars == <<has, inst, stack, leq, pending, log, outcome>>

Obj(o) == <<"o", o>>
String(s) == <<"s", s>>
Number(n) == <<"n", n>>
NIL == <<"nil", "">>
Operands == {Obj(o) : o \in Objects} \cup {String(s) : s \in Strings} \cup {Number(n) : n \in Numbers}

IsNumber(v) == v[1] = "n"
IsString(v) == v[1] = "s"
cvt2str(v) == IsString(v) \/ IsNumber(v)
tostring(v) == IF IsNumber(v) THEN String(v[2]) ELSE v
l_isfalse(v) == v = NIL

luaT_gettmbyobj(v, ev) == IF v[1] = "o" /\ ev \in has[v[2]] THEN v ELSE NIL

\* The metamethod of the first operand, or else of the second; NIL for none.
luaT_callbinTM(p1, p2, ev) ==
    IF luaT_gettmbyobj(p1, ev) # NIL THEN luaT_gettmbyobj(p1, ev) ELSE luaT_gettmbyobj(p2, ev)

Ready(v) == [k |-> "done", v |-> v]
Failed == [k |-> "error", v |-> NIL]
Running == [k |-> "run", v |-> NIL]
Call(p1, p2, ev) ==
    LET tm == luaT_callbinTM(p1, p2, ev) IN
    IF tm = NIL THEN <<>> ELSE <<[ev |-> ev, tm |-> tm, args |-> <<p1, p2>>]>>

(***************************************************************************)
(* luaV_concat: the stack after it, and how it ended.                       *)
(***************************************************************************)
Length(vs) == FoldLeft(LAMBDA n, v : n + Len(tostring(v)[2]), 0, vs)
Glued(vs) == String(FlattenSeq([i \in DOMAIN vs |-> tostring(vs[i])[2]]))

RECURSIVE luaV_concat(_, _)
luaV_concat(st, total) ==
    LET top == Len(st)
        a == st[top - 1]
        b == st[top]
        ns == {n \in 2 .. total : \A i \in top - n + 1 .. top : cvt2str(st[i])}
        n == CHOOSE x \in ns : \A y \in ns : y <= x
        got == SubSeq(st, top - n + 1, top)
    IN  IF total = 1 THEN [st |-> st, call |-> <<>>, end |-> "done"]
        ELSE IF ~cvt2str(a) \/ ~cvt2str(b) THEN
            [st |-> st, call |-> Call(a, b, "__concat"),
             end |-> IF Call(a, b, "__concat") = <<>> THEN "error" ELSE "run"]
        ELSE IF tostring(b) = String(<<>>) THEN
            luaV_concat(Append(SubSeq(st, 1, top - 2), tostring(a)), total - 1)
        ELSE IF a = String(<<>>) THEN
            luaV_concat(Append(SubSeq(st, 1, top - 2), tostring(b)), total - 1)
        ELSE IF Length(got) >= MAX_SIZE THEN [st |-> st, call |-> <<>>, end |-> "error"]
        ELSE luaV_concat(Append(SubSeq(st, 1, top - n), Glued(got)), total - n + 1)

\* The local variable comes first: operands are at B + 1, B + 2, ..
B == 1
Concat(st, total, lastslot) ==
    LET c == luaV_concat(st, total) IN
    /\ stack' = c.st
    /\ pending' = c.call
    /\ outcome' = CASE c.end = "done" -> Ready(c.st[IF lastslot THEN Len(c.st) ELSE B + 1])
                    [] c.end = "run" -> Running
                    [] c.end = "error" -> Failed

OP_CONCAT == inst'.op = "CONCAT" /\ Concat(<<NIL>> \o inst'.args, Len(inst'.args), FALSE) /\ UNCHANGED leq

Tries(p1, p2, ev) ==
    /\ pending' = Call(p1, p2, ev)
    /\ outcome' = IF pending' = <<>> THEN Failed ELSE Running

\* The condition holds as the instruction asks: the jump is taken.
Jumps(res) == Ready(res = inst'.a)
Compared(res) == outcome' = Jumps(res) /\ pending' = <<>> /\ UNCHANGED leq
IsLess(s, t) == \E i \in 0 .. Len(s) :
    /\ Len(t) > i /\ SubSeq(s, 1, i) = SubSeq(t, 1, i)
    /\ Len(s) > i => s[i + 1] = "1" /\ t[i + 1] = "x"

OP_LT ==
    LET l == inst'.args[1]
        r == inst'.args[2]
    IN  /\ inst'.op = "LT" /\ stack' = <<NIL>>
        /\ IF l[1] = r[1] /\ cvt2str(l) THEN Compared(IsLess(l[2], r[2]))
           ELSE Tries(l, r, "__lt") /\ UNCHANGED leq

OP_LE ==
    LET l == inst'.args[1]
        r == inst'.args[2]
    IN  /\ inst'.op = "LE" /\ stack' = <<NIL>>
        /\ IF l[1] = r[1] /\ cvt2str(l) THEN Compared(~IsLess(r[2], l[2]))
           ELSE IF Call(l, r, "__le") # <<>> THEN Tries(l, r, "__le") /\ UNCHANGED leq
           ELSE Tries(r, l, "__lt") /\ leq' = (Call(r, l, "__lt") # <<>>)

OP_EQ ==
    LET l == inst'.args[1]
        r == inst'.args[2]
    IN  /\ inst'.op = "EQ" /\ stack' = <<NIL>>
        /\ IF l = r \/ l[1] # "o" \/ r[1] # "o" \/ Call(l, r, "__eq") = <<>> THEN Compared(l = r)
           ELSE Tries(l, r, "__eq") /\ UNCHANGED leq

OP_ADD ==
    LET l == inst'.args[1]
        r == inst'.args[2]
    IN  /\ inst'.op = "ADD" /\ stack' = <<NIL>> /\ UNCHANGED leq
        /\ IF IsNumber(l) /\ IsNumber(r) THEN outcome' = Ready(Number(<<"+">>)) /\ pending' = <<>>
           ELSE Tries(l, r, "__add")

(***************************************************************************)
(* The metamethod returns, with the C stack as it was: the operator that    *)
(* called it goes on.                                                       *)
(***************************************************************************)
Logged(v) == log' = Append(log, [call |-> pending[1], res |-> v])

Returns(v) ==
    /\ outcome.k = "run" /\ Logged(v) /\ UNCHANGED <<has, inst>>
    /\ LET top == Len(stack)
           res == ~l_isfalse(v)
       IN  CASE inst.op = "CONCAT" ->
                    /\ Concat(Append(SubSeq(stack, 1, top - 2), v), top - 1 - B, FALSE)
                    /\ UNCHANGED leq
             [] inst.op = "ADD" ->
                    outcome' = Ready(v) /\ pending' = <<>> /\ UNCHANGED <<stack, leq>>
             [] OTHER ->
                    /\ outcome' = Ready((IF leq THEN ~res ELSE res) = inst.a)
                    /\ leq' = FALSE
                    /\ pending' = <<>> /\ UNCHANGED stack

(***************************************************************************)
(* The metamethod yields; when the coroutine is resumed its result is above *)
(* the stack, and the instruction is finished from what the frame keeps.    *)
(***************************************************************************)
\* Mutant: the result is not counted among what is left to concatenate.
luaV_finishOp_total(v) ==
    /\ outcome.k = "run" /\ Logged(v) /\ UNCHANGED <<has, inst>>
    /\ LET st == Append(stack, v)
           top == Len(st) - 1
           total == top - 2 - B
           put == [st EXCEPT ![top - 1] = v]
           res == ~l_isfalse(v)
       IN  CASE inst.op = "CONCAT" ->
                    /\ IF total > 1 THEN Concat(SubSeq(put, 1, top - 1), total, TRUE)
                       ELSE outcome' = Ready(put[top + 1]) /\ pending' = <<>> /\ stack' = put
                    /\ UNCHANGED leq
             [] inst.op = "ADD" ->
                    outcome' = Ready(v) /\ pending' = <<>> /\ UNCHANGED <<stack, leq>>
             [] OTHER ->
                    /\ outcome' = Ready((IF leq THEN ~res ELSE res) = inst.a)
                    /\ leq' = FALSE
                    /\ pending' = <<>> /\ UNCHANGED stack

luaV_finishOp(v) ==
    /\ outcome.k = "run" /\ Logged(v) /\ UNCHANGED <<has, inst>>
    /\ LET st == Append(stack, v)
           top == Len(st) - 1
           total == top - 1 - B
           put == [st EXCEPT ![top - 1] = v]
           res == ~l_isfalse(v)
       IN  CASE inst.op = "CONCAT" ->
                    /\ IF total > 1 THEN Concat(SubSeq(put, 1, top - 1), total, TRUE)
                       ELSE outcome' = Ready(put[top + 1]) /\ pending' = <<>> /\ stack' = put
                    /\ UNCHANGED leq
             [] inst.op = "ADD" ->
                    outcome' = Ready(v) /\ pending' = <<>> /\ UNCHANGED <<stack, leq>>
             [] OTHER ->
                    /\ outcome' = Ready((IF leq THEN ~res ELSE res) = inst.a)
                    /\ leq' = FALSE
                    /\ pending' = <<>> /\ UNCHANGED stack

Init ==
    /\ has \in [Objects -> SUBSET Events]
    /\ inst = [op |-> "NONE", a |-> TRUE, args |-> <<>>]
    /\ stack = <<NIL>> /\ leq = FALSE /\ pending = <<>> /\ log = <<>>
    /\ outcome = [k |-> "ready", v |-> NIL]

Execute(op, a, args) ==
    /\ outcome.k = "ready"
    /\ inst' = [op |-> op, a |-> a, args |-> args] /\ UNCHANGED <<has, log>>
    /\ OP_CONCAT \/ OP_LT \/ OP_LE \/ OP_EQ \/ OP_ADD

\* The next instruction of the frame; its mark stays as it is.
Fetch ==
    /\ outcome.k \in {"done", "error"}
    /\ inst' = [op |-> "NONE", a |-> TRUE, args |-> <<>>]
    /\ stack' = <<NIL>> /\ log' = <<>> /\ outcome' = [k |-> "ready", v |-> NIL]
    /\ UNCHANGED <<has, leq, pending>>

Next ==
    \/ \E n \in 2 .. MaxOperands : \E args \in [1 .. n -> Operands] : Execute("CONCAT", TRUE, args)
    \/ \E op \in {"LT", "LE", "EQ"}, a \in BOOLEAN, l, r \in Operands : Execute(op, a, <<l, r>>)
    \/ \E l, r \in Operands : Execute("ADD", TRUE, <<l, r>>)
    \/ \E v \in Answers : Returns(v) \/ luaV_finishOp(v)
    \/ Fetch

Spec == Init /\ [][Next]_vars

(***************************************************************************)
(* What an operator means, given what the metamethods returned, in order:   *)
(* k is "wrong" when the calls that were made are not the ones it makes.    *)
(***************************************************************************)
Asks(n, p1, p2, ev, Result(_)) ==
    IF Call(p1, p2, ev) = <<>> THEN [k |-> "error", v |-> NIL, n |-> n]
    ELSE IF n >= Len(log) \/ <<log[n + 1].call>> # Call(p1, p2, ev) THEN [k |-> "wrong", v |-> NIL, n |-> n]
    ELSE [k |-> "done", v |-> Result(log[n + 1].res), n |-> n + 1]

Join(a, acc) ==
    IF acc.k # "done" THEN acc
    ELSE IF ~cvt2str(a) \/ ~cvt2str(acc.v) THEN Asks(acc.n, a, acc.v, "__concat", LAMBDA r : r)
    ELSE IF Length(<<a, acc.v>>) >= MAX_SIZE THEN [acc EXCEPT !.k = "error"]
    ELSE [acc EXCEPT !.v = Glued(<<a, acc.v>>)]

Truth(r) == ~l_isfalse(r)
Lies(r) == l_isfalse(r)
Value(v) == [k |-> "done", v |-> v, n |-> 0]
SameKind(l, r) == l[1] = r[1] /\ cvt2str(l)

Means ==
    LET l == inst.args[1]
        r == inst.args[2]
        last == Len(inst.args)
    IN  CASE inst.op = "CONCAT" -> FoldRight(Join, SubSeq(inst.args, 1, last - 1), Value(inst.args[last]))
          [] inst.op = "LT" ->
                IF SameKind(l, r) THEN Value(IsLess(l[2], r[2])) ELSE Asks(0, l, r, "__lt", Truth)
          [] inst.op = "LE" ->
                IF SameKind(l, r) THEN Value(~IsLess(r[2], l[2]))
                ELSE IF Call(l, r, "__le") # <<>> THEN Asks(0, l, r, "__le", Truth)
                ELSE Asks(0, r, l, "__lt", Lies)
          [] inst.op = "EQ" ->
                IF l = r \/ l[1] # "o" \/ r[1] # "o" \/ Call(l, r, "__eq") = <<>> THEN Value(l = r)
                ELSE Asks(0, l, r, "__eq", Truth)
          [] inst.op = "ADD" ->
                IF IsNumber(l) /\ IsNumber(r) THEN Value(Number(<<"+">>))
                ELSE Asks(0, l, r, "__add", LAMBDA x : x)

(***************************************************************************)
(* However many of the metamethods yielded, and whatever operators ran      *)
(* before in the same frame, an operator calls the metamethods it means to, *)
(* with the operands it means, and its value or its jump is what follows.   *)
(***************************************************************************)
OperatorsMean ==
    outcome.k \in {"done", "error"} =>
        /\ Means.n = Len(log)
        /\ outcome.k = Means.k
        /\ outcome.k = "done" =>
            outcome.v = IF inst.op \in {"LT", "LE", "EQ"} THEN Means.v = inst.a ELSE Means.v
=============================================================================

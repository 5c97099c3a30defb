----------------------------- MODULE LuaMeaning -----------------------------
(***************************************************************************)
(* What a program means, without registers, jumps or stack: the reference   *)
(* that compiled programs are compared with.  A local variable is a cell    *)
(* of a store, and every execution of its declaration makes a new one.      *)
(* st = [cells, funs, tabs, log, err]; an environment is a sequence of      *)
(* <<name, cell>>; va are the values of "...".                              *)
(***************************************************************************)
EXTENDS LuaVM

RECURSIVE Multi(_, _, _, _), Exec(_, _, _, _, _, _)

OkSignal == <<"ok">>
Cell(env, x) ==
    LET at == {i \in DOMAIN env : env[i][1] = x} IN IF at = {} THEN 0 ELSE env[Highest(at)][2]
Adjusted(vs, n) == [i \in 1..n |-> IF i <= Len(vs) THEN vs[i] ELSE NIL]
Wrong(st) == [st EXCEPT !.err = TRUE]
Failed(st) == [st |-> Wrong(st), vs |-> <<NIL>>]
Bind(st, env, names, vs) ==
    LET n == Len(st.cells)
    IN  [st |-> [st EXCEPT !.cells = @ \o Adjusted(vs, Len(names))],
         env |-> env \o [i \in 1..Len(names) |-> <<names[i], n + i>>]]
Entry(st, t, key) == IF key \in DOMAIN st.tabs[t[2]] THEN st.tabs[t[2]][key] ELSE NIL

One(st, env, va, x) ==
    LET m == Multi(st, env, va, x) IN [st |-> m.st, v |-> IF m.vs = <<>> THEN NIL ELSE m.vs[1]]

\* A list of expressions; all the values of the last.
RECURSIVE List(_, _, _, _)
List(st, env, va, es) ==
    IF es = <<>> THEN [st |-> st, vs |-> <<>>]
    ELSE IF Len(es) = 1 THEN Multi(st, env, va, es[1])
    ELSE LET a == One(st, env, va, es[1]) r == List(a.st, env, va, Tail(es))
         IN  [st |-> r.st, vs |-> <<a.v>> \o r.vs]

Apply(st, v, args) ==
    IF st.err THEN [st |-> st, vs |-> <<>>]
    ELSE IF Is(v, 6) THEN [st |-> [st EXCEPT !.log = Append(@, args)], vs |-> ExtResults(v[2], args)]
    ELSE IF ~Is(v, 4) THEN Failed(st)
    ELSE LET f == st.funs[v[2]]
             b == Bind(st, f.env, f.params, args)
             r == Exec(b.st, b.env, SubSeq(args, Len(f.params) + 1, Len(args)), f.body, 1, <<>>)
         IN  [st |-> r.st, vs |-> IF r.sig[1] = "return" THEN r.sig[2] ELSE <<>>]

Operate(st, op, a, b) ==
    CASE op \in BinaryValueOps -> IF Defined(op, a, b) THEN [st |-> st, vs |-> <<Num(Arith(op, a[2], b[2]))>>] ELSE Failed(st)
      [] op = "CONCAT" -> IF Joinable(a) /\ Joinable(b) THEN [st |-> st, vs |-> <<Join(a, b)>>] ELSE Failed(st)
      [] op = "EQ" -> [st |-> st, vs |-> <<Bool(a = b)>>]
      [] op = "NE" -> [st |-> st, vs |-> <<Bool(a # b)>>]
      [] OTHER -> IF ~Ordered(a, b) THEN Failed(st)
                  ELSE [st |-> st, vs |-> <<Bool(CASE op = "LT" -> a[2] < b[2] [] op = "LE" -> a[2] <= b[2]
                                                   [] op = "GT" -> a[2] > b[2] [] op = "GE" -> a[2] >= b[2])>>]

RECURSIVE Items(_, _, _, _, _, _)
Items(st, env, va, items, t, n) ==
    IF items = <<>> THEN st
    ELSE IF items[1][1] = "field"
    THEN LET key == One(st, env, va, items[1][2]) v == One(key.st, env, va, items[1][3])
         IN  Items([v.st EXCEPT !.tabs[t] = WithEntry(@, key.v, v.v)], env, va, Tail(items), t, n)
    ELSE LET m == IF Len(items) = 1 THEN Multi(st, env, va, items[1][2])
                  ELSE LET o == One(st, env, va, items[1][2]) IN [st |-> o.st, vs |-> <<o.v>>]
             new == {i \in 1..Len(m.vs) : m.vs[i] # NIL}
         IN  Items([m.st EXCEPT !.tabs[t] = [x \in {Num(n + i) : i \in new} |-> m.vs[x[2] - n]] @@ @],
                   env, va, Tail(items), t, n + 1)

Multi(st, env, va, x) ==
    IF st.err THEN [st |-> st, vs |-> <<NIL>>] ELSE
    CASE x[1] = "const" -> [st |-> st, vs |-> <<x[2]>>]
      [] x[1] = "name" ->
           LET c == Cell(env, x[2])
           IN  [st |-> st, vs |-> <<IF c = 0 THEN Entry(st, Tab(1), Str(x[2])) ELSE st.cells[c]>>]
      [] x[1] = "paren" -> LET o == One(st, env, va, x[2]) IN [st |-> o.st, vs |-> <<o.v>>]
      [] x[1] = "vararg" -> [st |-> st, vs |-> va]
      [] x[1] = "un" ->
           LET a == One(st, env, va, x[3])
           IN  IF a.st.err THEN Failed(a.st)
               ELSE IF x[2] = "NOT" THEN [st |-> a.st, vs |-> <<Bool(IsFalse(a.v))>>]
               ELSE Operate(a.st, "SUB", Num(0), a.v)
      [] x[1] = "bin" ->
           LET a == One(st, env, va, x[3]) b == One(a.st, env, va, x[4])
           IN  IF (x[2] = "AND" /\ IsFalse(a.v)) \/ (x[2] = "OR" /\ ~IsFalse(a.v)) THEN [st |-> a.st, vs |-> <<a.v>>]
               ELSE IF b.st.err \/ x[2] \in {"AND", "OR"} THEN [st |-> b.st, vs |-> <<b.v>>]
               ELSE Operate(b.st, x[2], a.v, b.v)
      [] x[1] = "index" ->
           LET t == One(st, env, va, x[2]) key == One(t.st, env, va, x[3])
           IN  IF key.st.err \/ ~Is(t.v, 3) THEN Failed(key.st)
               ELSE [st |-> key.st, vs |-> <<Entry(key.st, t.v, key.v)>>]
      [] x[1] = "call" ->
           LET f == One(st, env, va, x[2]) as == List(f.st, env, va, x[3])
           IN  Apply(as.st, f.v, as.vs)
      [] x[1] = "method" ->
           LET o == One(st, env, va, x[2])
               as == List(o.st, env, va, x[4])
           IN  IF o.st.err \/ ~Is(o.v, 3) THEN Failed(o.st)
               ELSE Apply(as.st, Entry(o.st, o.v, Str(x[3])), <<o.v>> \o as.vs)
      [] x[1] = "table" ->
           LET t == Len(st.tabs) + 1
           IN  [st |-> Items([st EXCEPT !.tabs = Append(@, <<>>)], env, va, x[2], t, 0), vs |-> <<Tab(t)>>]
      [] x[1] = "function" ->
           [st |-> [st EXCEPT !.funs = Append(@, [params |-> x[2], body |-> x[4], env |-> env])],
            vs |-> <<Fun(Len(st.funs) + 1)>>]

-----------------------------------------------------------------------------
\* What is assigned to: <<cell>>, or a table and a key.
RECURSIVE Places(_, _, _, _)
Places(st, env, va, xs) ==
    IF xs = <<>> THEN [st |-> st, ps |-> <<>>]
    ELSE LET x == xs[1]
             t == IF x[1] = "index" THEN One(st, env, va, x[2]) ELSE [st |-> st, v |-> Tab(1)]
             key == IF x[1] = "index" THEN One(t.st, env, va, x[3]) ELSE [st |-> t.st, v |-> Str(x[2])]
             p == [cell |-> IF x[1] = "name" THEN Cell(env, x[2]) ELSE 0, t |-> t.v, key |-> key.v]
             r == Places(key.st, env, va, Tail(xs))
         IN  [st |-> r.st, ps |-> <<p>> \o r.ps]

RECURSIVE Assign(_, _, _)
Assign(st, ps, vs) ==
    IF ps = <<>> \/ st.err THEN st
    ELSE LET p == Last(ps) v == Last(vs)
             s == IF p.cell # 0 THEN [st EXCEPT !.cells[p.cell] = v]
                  ELSE IF ~Is(p.t, 3) \/ p.key = NIL THEN Wrong(st)
                  ELSE [st EXCEPT !.tabs[p.t[2]] = WithEntry(@, p.key, v)]
         IN  Assign(s, Front(ps), Front(vs))

Block(st, env, va, b) == LET r == Exec(st, env, va, b, 1, <<>>) IN [st |-> r.st, env |-> env, sig |-> r.sig]
Broken(r) == IF r.sig = <<"goto", "break">> THEN [r EXCEPT !.sig = OkSignal] ELSE r
Here(st, env, sig) == [st |-> st, env |-> env, sig |-> sig]

RECURSIVE Loop(_, _, _, _), Until(_, _, _, _), ForNum(_, _, _, _, _, _, _), ForIn(_, _, _, _, _, _, _), If(_, _, _, _, _)
Loop(st, env, va, s) ==
    LET c == One(st, env, va, s[2]) r == Block(c.st, env, va, s[3])
    IN  IF c.st.err \/ IsFalse(c.v) THEN Here(c.st, env, OkSignal)
        ELSE IF r.st.err \/ r.sig # OkSignal THEN Broken(r)
        ELSE Loop(r.st, env, va, s)
Until(st, env, va, s) ==
    LET r == Exec(st, env, va, s[2], 1, <<>>) c == One(r.st, r.env, va, s[3])
    IN  IF r.st.err \/ r.sig # OkSignal THEN Broken(Here(r.st, env, r.sig))
        ELSE IF c.st.err \/ ~IsFalse(c.v) THEN Here(c.st, env, OkSignal)
        ELSE Until(c.st, env, va, s)
ForNum(st, env, va, s, i, limit, step) ==
    LET b == Bind(st, env, <<s[2]>>, <<Num(i)>>) r == Block(b.st, b.env, va, s[6])
    IN  IF (step > 0 /\ i > limit) \/ (step <= 0 /\ i < limit) THEN Here(st, env, OkSignal)
        ELSE IF r.st.err \/ r.sig # OkSignal THEN Broken(Here(r.st, env, r.sig))
        ELSE ForNum(r.st, env, va, s, i + step, limit, step)
ForIn(st, env, va, s, f, state, control) ==
    LET a == Apply(st, f, <<state, control>>)
        vs == Adjusted(a.vs, Len(s[2]))
        b == Bind(a.st, env, s[2], vs)
        r == Block(b.st, b.env, va, s[4])
    IN  IF a.st.err \/ vs[1] = NIL THEN Here(a.st, env, OkSignal)
        ELSE IF r.st.err \/ r.sig # OkSignal THEN Broken(Here(r.st, env, r.sig))
        ELSE ForIn(r.st, env, va, s, f, state, vs[1])
If(st, env, va, clauses, els) ==
    LET c == One(st, env, va, clauses[1][1])
    IN  IF clauses = <<>> THEN Block(st, env, va, els)
        ELSE IF c.st.err THEN Here(c.st, env, OkSignal)
        ELSE IF ~IsFalse(c.v) THEN Block(c.st, env, va, clauses[1][2])
        ELSE If(c.st, env, va, Tail(clauses), els)

Do(st, env, va, s) ==
    CASE s[1] = "local" ->
           LET l == List(st, env, va, s[3]) b == Bind(l.st, env, s[2], l.vs) IN Here(b.st, b.env, OkSignal)
      [] s[1] = "localfunction" ->
           LET b == Bind(st, env, <<s[2]>>, <<NIL>>) f == One(b.st, b.env, va, s[3])
           IN  Here([f.st EXCEPT !.cells[Len(b.st.cells)] = f.v], b.env, OkSignal)
      [] s[1] = "function" ->
           LET p == Places(st, env, va, <<<<"name", s[2]>>>>) f == One(p.st, env, va, s[3])
           IN  Here(Assign(f.st, p.ps, <<f.v>>), env, OkSignal)
      [] s[1] = "assign" ->
           LET p == Places(st, env, va, s[2]) l == List(p.st, env, va, s[3])
           IN  Here(Assign(l.st, p.ps, Adjusted(l.vs, Len(s[2]))), env, OkSignal)
      [] s[1] \in {"call", "method"} -> Here(Multi(st, env, va, s).st, env, OkSignal)
      [] s[1] = "do" -> Block(st, env, va, s[2])
      [] s[1] = "while" -> Loop(st, env, va, s)
      [] s[1] = "repeat" -> Until(st, env, va, s)
      [] s[1] = "if" -> If(st, env, va, s[2], s[3])
      [] s[1] = "fornum" ->
           LET l == List(st, env, va, <<s[3], s[4]>> \o (IF s[5] = <<>> THEN <<>> ELSE <<s[5]>>))
               vs == IF s[5] = <<>> THEN Append(Adjusted(l.vs, 2), Num(1)) ELSE Adjusted(l.vs, 3)
           IN  IF l.st.err \/ \E i \in 1..3 : ~Is(vs[i], 2) THEN Here(Wrong(l.st), env, OkSignal)
               ELSE ForNum(l.st, env, va, s, vs[1][2], vs[2][2], vs[3][2])
      [] s[1] = "forin" ->
           LET l == List(st, env, va, s[3]) vs == Adjusted(l.vs, 3)
           IN  ForIn(l.st, env, va, s, vs[1], vs[2], vs[3])
      [] s[1] = "goto" -> Here(st, env, <<"goto", s[2]>>)
      [] s[1] = "label" -> Here(st, env, OkSignal)
      [] s[1] = "return" -> LET l == List(st, env, va, s[2]) IN Here(l.st, env, <<"return", l.vs>>)

\* The block b from its i-th statement on; lens[j] is the length of the
\* environment before the j-th.
Exec(st, env, va, b, i, lens) ==
    IF st.err \/ i > Len(b) THEN Here(st, env, OkSignal)
    ELSE LET r == Do(st, env, va, b[i])
             known == IF i <= Len(lens) THEN lens ELSE Append(lens, Len(env))
             at == {j \in 1..Len(b) : r.sig[1] = "goto" /\ b[j] = <<"label", r.sig[2]>>}
             j == Lowest(at)
             all == [k \in 1..j |-> IF k <= Len(known) THEN known[k] ELSE Len(r.env)]
         IN  IF r.sig = OkSignal THEN Exec(r.st, r.env, va, b, i + 1, known)
             ELSE IF r.st.err \/ at = {} THEN r
             ELSE Exec(r.st, SubSeq(r.env, 1, all[j]), va, b, j, SubSeq(all, 1, j))

\* What the whole program does.
Meaning(b) ==
    LET st == [cells |-> <<>>, funs |-> <<<<>>>>, log |-> <<>>, err |-> FALSE,
               tabs |-> <<[x \in {Str(g) : g \in Globals} |-> Ext(x[2])]>>]
        r == Exec(st, <<>>, Args, b, 1, <<>>)
    IN  [k |-> IF r.st.err THEN "error" ELSE "returned",
         vs |-> IF r.sig[1] = "return" /\ ~r.st.err THEN r.sig[2] ELSE <<>>,
         log |-> r.st.log, tabs |-> r.st.tabs]

-----------------------------------------------------------------------------
(* Which programs are accepted: [ok, out], out the labels that a statement   *)
(* jumps to and does not have.                                             *)
RECURSIVE Functions(_)
Functions(x) ==
    CASE x[1] = "function" -> {x}
      [] x[1] \in {"paren"} -> Functions(x[2])
      [] x[1] = "un" -> Functions(x[3])
      [] x[1] = "bin" -> Functions(x[3]) \cup Functions(x[4])
      [] x[1] = "call" -> Functions(x[2]) \cup UNION {Functions(x[3][i]) : i \in DOMAIN x[3]}
      [] x[1] = "table" -> UNION {Functions(Last(x[2][i])) : i \in DOMAIN x[2]}
      [] OTHER -> {}
\* Are the extra arguments of the function used, not only in one within?
RECURSIVE Dots(_)
Dots(x) ==
    CASE x[1] = "vararg" -> TRUE
      [] x[1] = "paren" -> Dots(x[2])
      [] x[1] = "un" -> Dots(x[3])
      [] x[1] = "bin" -> Dots(x[3]) \/ Dots(x[4])
      [] x[1] \in {"call", "method"} -> Dots(x[2]) \/ \E i \in DOMAIN Last(x) : Dots(Last(x)[i])
      [] x[1] = "table" -> \E i \in DOMAIN x[2] : Dots(Last(x[2][i]))
      [] OTHER -> FALSE
ExpressionsOf(s) ==
    CASE s[1] \in {"local", "assign"} -> {s[3][i] : i \in DOMAIN s[3]}
      [] s[1] \in {"localfunction", "function"} -> {s[3]}
      [] s[1] = "return" -> {s[2][i] : i \in DOMAIN s[2]}
      [] s[1] = "call" -> {s}
      [] s[1] = "while" -> {s[2]}
      [] s[1] = "repeat" -> {s[3]}
      [] OTHER -> {}

RECURSIVE BlockCheck(_, _, _)
StatCheck(s, vararg) ==
    LET inner == CASE s[1] = "do" -> {BlockCheck(s[2], FALSE, vararg)}
                   [] s[1] = "while" -> {BlockCheck(s[3], FALSE, vararg)}
                   [] s[1] = "repeat" -> {BlockCheck(s[2], TRUE, vararg)}
                   [] s[1] = "fornum" -> {BlockCheck(s[6], FALSE, vararg)}
                   [] s[1] = "forin" -> {BlockCheck(s[4], FALSE, vararg)}
                   [] s[1] = "if" -> {BlockCheck(s[2][i][2], FALSE, vararg) : i \in DOMAIN s[2]} \cup {BlockCheck(s[3], FALSE, vararg)}
                   [] OTHER -> {}
        bodies == {BlockCheck(f[4], FALSE, f[3]) : f \in UNION {Functions(x) : x \in ExpressionsOf(s)}}
        out == UNION {c.out : c \in inner} \cup (IF s[1] = "goto" THEN {s[2]} ELSE {})
    IN  [ok |-> (\A c \in inner : c.ok) /\ (\A c \in bodies : c.ok /\ c.out = {})
               /\ (vararg \/ \A x \in ExpressionsOf(s) : ~Dots(x)),
         out |-> IF s[1] \in {"while", "repeat", "fornum", "forin"} THEN out \ {"break"} ELSE out]
BlockCheck(b, isrepeat, vararg) ==
    LET check == [i \in 1..Len(b) |-> StatCheck(b[i], vararg)]
        labels == {b[j][2] : j \in {j \in 1..Len(b) : b[j][1] = "label"}}
        IsLabel(j) == b[j][1] = "label"
        Enters(i, j) == \* a jump from i to j enters the scope of a local
            /\ j > i /\ \E k \in i + 1..j - 1 : b[k][1] \in {"local", "localfunction"}
            /\ isrepeat \/ \E k \in j..Len(b) : ~IsLabel(k)
    IN  [ok |-> /\ \A i \in 1..Len(b) : check[i].ok
                /\ \A i, j \in 1..Len(b) : (IsLabel(i) /\ b[i] = b[j]) => i = j
                /\ \A i, j \in 1..Len(b) : (IsLabel(j) /\ b[j][2] \in check[i].out) => ~Enters(i, j),
         out |-> UNION {check[i].out : i \in 1..Len(b)} \ labels]
Accepted(b) == BlockCheck(b, FALSE, TRUE).ok /\ BlockCheck(b, FALSE, TRUE).out = {}

-----------------------------------------------------------------------------
Ended == outcome.k \in {"returned", "error"}

(* A compiled program does what it says: it returns what the reference      *)
(* returns, or fails where it fails, calls the same functions with the same *)
(* arguments in the same order, and leaves the same tables.                 *)
AsWritten ==
    [][Ended' => LET m == Meaning(prog')
                 IN  /\ outcome'.k = m.k /\ outcome'.vs = m.vs
                     /\ log' = m.log /\ heap'.tabs = m.tabs]_vars

(* A program is refused exactly when a goto has no label, enters the scope  *)
(* of a local, or leaves its function, when a break is in no loop, a block  *)
(* has a label twice, or a function that has no extra arguments uses them.  *)
RefusedIfWrong == (prog # <<>> /\ steps = 0) => ((outcome.k = "rejected") = ~Accepted(prog))

(* The assertions of the compiler hold: registers are freed in the order of *)
(* a stack, jumps go back only to what is there, blocks begin without       *)
(* temporaries (lcode.c:373, 320, 331; lparser.c:434, 1591).               *)
AssertionsHold == compiled.ok

\* The registers that an instruction writes or reads.
Used(J) ==
    LET Rk(i) == IF ISK(i) THEN {} ELSE {i}
    IN  CASE J.op \in {"MOVE", "NOT", "UNM", "TESTSET"} -> {J.a, J.b}
          [] J.op \in {"LOADK", "LOADBOOL", "GETUPVAL", "SETUPVAL", "NEWTABLE", "CLOSURE", "TEST"} -> {J.a}
          [] J.op = "LOADNIL" -> J.a..J.a + J.b
          [] J.op \in {"ADD", "SUB", "IDIV", "SETTABLE"} -> {J.a} \cup Rk(J.b) \cup Rk(J.c)
          [] J.op = "GETTABLE" -> {J.a, J.b} \cup Rk(J.c)
          [] J.op \in {"EQ", "LT", "LE", "SETTABUP"} -> Rk(J.b) \cup Rk(J.c)
          [] J.op = "SELF" -> {J.a, J.a + 1, J.b}
          [] J.op = "CONCAT" -> J.a..J.a \cup J.b..J.c
          [] J.op = "CALL" -> J.a..J.a + (IF J.b > 0 THEN J.b - 1 ELSE 0) \cup J.a..J.a + J.c - 2
          [] J.op = "FORLOOP" -> J.a..J.a + 3
          [] J.op = "TFORCALL" -> J.a..J.a + 2 + (IF J.c > 3 THEN J.c ELSE 3)
          [] OTHER -> {}
RECURSIVE Fits(_)
Fits(p) ==
    /\ \A i \in DOMAIN p.code : \A r \in Used(p.code[i]) : r < p.maxstacksize
    /\ \A i \in DOMAIN p.p : Fits(p.p[i])

(* The frame of a function has a slot for every register that its code      *)
(* names.                                                                  *)
FramesSuffice == (prog # <<>> /\ steps = 0 /\ ~compiled.err) => Fits(Proto(compiled, 0))
=============================================================================

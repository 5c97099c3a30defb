------------------------------ MODULE LuaParser -----------------------------
(***************************************************************************)
(* The parser (lparser.c), on a tree in place of the tokens, and the code  *)
(* generator (lcode.c) that it calls.  Expressions:                        *)
(*   <<"const", v>> <<"name", x>> <<"paren", e>> <<"vararg">>              *)
(*   <<"un", op, e>> <<"bin", op, e1, e2>> <<"index", e, key>>             *)
(*   <<"call", e, args>> <<"method", e, name, args>>                       *)
(*   <<"table", items>> (an item is <<"item", e>> or <<"field", key, e>>)   *)
(*   <<"function", params, isvararg, block>>                               *)
(* Statements:                                                             *)
(*   <<"local", names, es>> <<"localfunction", x, f>> <<"assign", targets, *)
(*   es>> <<"call", ...>> <<"do", b>> <<"while", e, b>> <<"repeat", b, e>>  *)
(*   <<"if", clauses, b>> (a clause is <<e, b>>, b is <<>> without an else) *)
(*   <<"fornum", x, e1, e2, e3>> with a block, e3 <<>> if there is none     *)
(*   <<"forin", names, es, b>> <<"return", es>> <<"goto", l>> <<"label", l>> *)
(* "break" is a goto to the label break.                                   *)
(* A FuncState has, too: vars (the names of its locals, nactvar of them in  *)
(* scope), ups ([name, instack, idx]), bl (the blocks around), gt and label *)
(* ([name, pc, nactvar]), p (its prototypes), vararg, prev (<<the one       *)
(* around>> or <<>>).                                                       *)
(***************************************************************************)
EXTENDS Integers, Sequences, FiniteSets

CONSTANTS
    MAXREGS,
    MAXINDEXRK,         \* the last constant that fits in an operand
    MAXARG_Bx,          \* the last constant that fits in LOADK
    LFIELDS_PER_FLUSH

-----------------------------------------------------------------------------
(***************************************************************************)
(* The code generator (lcode.c).  A FuncState is a record:                 *)
(*   code       instructions [op, a, b, c]; the pc of code[i] is i - 1, and *)
(*              b of a jump is its offset, NO_JUMP at the end of a list     *)
(*   jpc, lasttarget, freereg, maxstack, nactvar, k (the constants)        *)
(*   ok         no lua_assert failed        err   a compile error          *)
(* and what the parser keeps in it.  An expdesc is [k, info, t, f, tab,    *)
(* idx, vt]; an operation on an expression works on s = [fs, e].           *)
(***************************************************************************)
\* The values of the programs that are compiled (TValue, lobject.h), every one
\* a sequence: a string is told by a name, .. of two of them by what it joins,
\* and arithmetic is that of small integers.
NIL == <<>>
FALSE_ == <<0>>
TRUE_ == <<1>>
Num(n) == <<2, n>>
Tab(i) == <<3, i>>
Fun(i) == <<4, i>>  \* a Lua closure
Str(s) == <<5, s>>
Ext(f) == <<6, f>>  \* a function in C
Bool(p) == IF p THEN TRUE_ ELSE FALSE_
IsFalse(v) == v \in {NIL, FALSE_}
Is(v, tag) == Len(v) = 2 /\ v[1] = tag

Arith(op, x, y) ==
    CASE op = "ADD" -> x + y [] op = "SUB" -> x - y
      [] op = "IDIV" -> IF y < 0 THEN (-x) \div (-y) ELSE x \div y
\* What numbers an operation is defined for.
Defined(op, x, y) == Is(x, 2) /\ Is(y, 2) /\ (op = "IDIV" => y[2] # 0)
\* Whether two values can be compared by <.
Ordered(x, y) == Is(x, 2) /\ Is(y, 2)
Joinable(v) == Is(v, 2) \/ Is(v, 5) \/ Is(v, 7)
\* A string put together: the parts that were joined.
Parts(v) == IF Is(v, 7) THEN v[2] ELSE <<v>>
Join(v, w) == <<7, Parts(v) \o Parts(w)>>

-----------------------------------------------------------------------------
NO_JUMP == -1
NO_REG == 255
BITRK == 256
MULTRET == -1
ISK(r) == r >= BITRK
TestOps == {"EQ", "LT", "LE", "TEST", "TESTSET"}
Instruction(op, a, b, c) == [op |-> op, a |-> a, b |-> b, c |-> c]
init_exp(k, info) ==
    [k |-> k, info |-> info, t |-> NO_JUMP, f |-> NO_JUMP, tab |-> 0, idx |-> 0, vt |-> ""]
On(fs, e) == [fs |-> fs, e |-> e]
Pc(fs) == Len(fs.code)
hasjumps(e) == e.t # e.f
hasmultret(e) == e.k \in {"VCALL", "VVARARG"}
tonumeral(e) == e.k = "VKINT" /\ ~hasjumps(e)
Assert_(fs, p) == [fs EXCEPT !.ok = @ /\ p]
Fail(fs) == [fs EXCEPT !.err = TRUE]

-----------------------------------------------------------------------------
(* Lists of jumps *)
getjump(fs, pc) ==
    LET offset == fs.code[pc + 1].b IN IF offset = NO_JUMP THEN NO_JUMP ELSE pc + 1 + offset
fixjump(fs, pc, dest) == [fs EXCEPT !.code[pc + 1].b = dest - (pc + 1)]

\* The jumps of a list, in its order.
RECURSIVE Jumps(_, _)
Jumps(fs, list) ==
    IF list = NO_JUMP THEN <<>> ELSE <<list>> \o Jumps(fs, getjump(fs, list))

luaK_concat(fs, l1, l2) ==
    IF l2 = NO_JUMP \/ l1 = NO_JUMP THEN [fs |-> fs, l |-> IF l2 = NO_JUMP THEN l1 ELSE l2]
    ELSE LET js == Jumps(fs, l1) IN [fs |-> fixjump(fs, js[Len(js)], l2), l |-> l1]

luaK_getlabel(fs) == [fs EXCEPT !.lasttarget = Pc(fs)]
luaK_patchtohere(fs, list) ==
    LET c == luaK_concat(luaK_getlabel(fs), fs.jpc, list) IN [c.fs EXCEPT !.jpc = c.l]

\* The pc of the instruction that controls a jump.
getjumpcontrol(fs, pc) == IF pc >= 1 /\ fs.code[pc].op \in TestOps THEN pc - 1 ELSE pc
OpAt(fs, pc) == fs.code[pc + 1].op

patchtestreg(fs, node, reg) ==
    LET i == getjumpcontrol(fs, node)
        I == fs.code[i + 1]
    IN  IF I.op # "TESTSET" THEN fs
        ELSE IF reg # NO_REG /\ reg # I.b THEN [fs EXCEPT !.code[i + 1].a = reg]
        ELSE [fs EXCEPT !.code[i + 1] = Instruction("TEST", I.b, 0, I.c)]

RECURSIVE removevalues(_, _)
removevalues(fs, list) ==
    IF list = NO_JUMP THEN fs ELSE removevalues(patchtestreg(fs, list, NO_REG), getjump(fs, list))

RECURSIVE patchlistaux(_, _, _, _, _)
patchlistaux(fs, list, vtarget, reg, dtarget) ==
    IF list = NO_JUMP THEN fs
    ELSE LET isset == OpAt(fs, getjumpcontrol(fs, list)) = "TESTSET"
             g == fixjump(patchtestreg(fs, list, reg), list, IF isset THEN vtarget ELSE dtarget)
         IN  patchlistaux(g, getjump(fs, list), vtarget, reg, dtarget)

luaK_patchlist(fs, list, target) ==
    IF target = Pc(fs) THEN luaK_patchtohere(fs, list)
    ELSE patchlistaux(Assert_(fs, target < Pc(fs)), list, target, NO_REG, target)

RECURSIVE luaK_patchclose(_, _, _)
luaK_patchclose(fs, list, level) ==
    IF list = NO_JUMP THEN fs
    ELSE LET I == fs.code[list + 1]
             g == Assert_(fs, I.op = "JMP" /\ (I.a = 0 \/ I.a >= level + 1))
         IN  luaK_patchclose([g EXCEPT !.code[list + 1].a = level + 1], getjump(fs, list), level)

luaK_code(fs, I) ==
    LET g == patchlistaux(fs, fs.jpc, Pc(fs), NO_REG, Pc(fs))
    IN  [g EXCEPT !.jpc = NO_JUMP, !.code = Append(@, I)]
luaK_codeABC(fs, op, a, b, c) == luaK_code(fs, Instruction(op, a, b, c))

\* A jump to a place not known yet: [fs, l], l the list of it alone, and of
\* the jumps to here that it takes on.
luaK_jump(fs) ==
    LET g == luaK_codeABC([fs EXCEPT !.jpc = NO_JUMP], "JMP", 0, NO_JUMP, 0)
    IN  luaK_concat(g, Pc(fs), fs.jpc)
condjump(fs, op, a, b, c) == luaK_jump(luaK_codeABC(fs, op, a, b, c))

luaK_nil(fs, from, n) ==
    LET l == from + n - 1
        P == fs.code[Pc(fs)]
        pl == P.a + P.b
        first == IF P.a < from THEN P.a ELSE from
        last == IF pl > l THEN pl ELSE l
    IN  IF /\ Pc(fs) > fs.lasttarget /\ P.op = "LOADNIL"
           /\ (P.a <= from /\ from <= pl + 1) \/ (from <= P.a /\ P.a <= l + 1)
        THEN [fs EXCEPT !.code[Pc(fs)] = Instruction("LOADNIL", first, last - first, 0)]
        ELSE luaK_codeABC(fs, "LOADNIL", from, n - 1, 0)

luaK_ret(fs, first, nret) == luaK_codeABC(fs, "RETURN", first, nret + 1, 0)

-----------------------------------------------------------------------------
(* Registers and constants *)
luaK_checkstack(fs, n) ==
    LET newstack == fs.freereg + n
    IN  IF newstack <= fs.maxstack THEN fs
        ELSE IF newstack >= MAXREGS THEN Fail(fs)
        ELSE [fs EXCEPT !.maxstack = newstack]

luaK_reserveregs(fs, n) == [luaK_checkstack(fs, n) EXCEPT !.freereg = @ + n]
freereg(fs, r) ==
    IF ISK(r) \/ r < fs.nactvar THEN fs
    ELSE [Assert_(fs, r = fs.freereg - 1) EXCEPT !.freereg = @ - 1]
freeexp(fs, e) == IF e.k = "VNONRELOC" THEN freereg(fs, e.info) ELSE fs
\* Mutant: the first operand is freed first.
freeexps_asgiven(fs, e1, e2) == freeexp(freeexp(fs, e1), e2)

freeexps(fs, e1, e2) ==
    LET r1 == IF e1.k = "VNONRELOC" THEN e1.info ELSE -1
        r2 == IF e2.k = "VNONRELOC" THEN e2.info ELSE -1
        first == IF r1 > r2 THEN e1 ELSE e2
    IN  freeexp(freeexp(fs, first), IF r1 > r2 THEN e2 ELSE e1)

\* [fs, k]: the index of a constant, an old one if there is.
addk(fs, v) ==
    LET at == {i \in 1..Len(fs.k) : fs.k[i] = v}
    IN  IF at # {} THEN [fs |-> fs, k |-> (CHOOSE i \in at : TRUE) - 1]
        ELSE [fs |-> [fs EXCEPT !.k = Append(@, v)], k |-> Len(fs.k)]
luaK_codek(fs, reg, k) ==
    IF k <= MAXARG_Bx THEN luaK_codeABC(fs, "LOADK", reg, k, 0)
    ELSE luaK_codeABC(luaK_codeABC(fs, "LOADKX", reg, 0, 0), "EXTRAARG", 0, k, 0)
ConstantOf(e) ==
    CASE e.k = "VNIL" -> NIL [] e.k = "VTRUE" -> TRUE_ [] e.k = "VFALSE" -> FALSE_
      [] e.k = "VKINT" -> Num(e.info)
IsConstant(e) == e.k \in {"VNIL", "VTRUE", "VFALSE", "VKINT"}

-----------------------------------------------------------------------------
(* Expressions *)
Emitted(fs, e, op, a, b, c) ==
    On(luaK_codeABC(fs, op, a, b, c), [e EXCEPT !.k = "VRELOCABLE", !.info = Pc(fs)])
InRegister(fs, e, reg) == On(fs, [e EXCEPT !.k = "VNONRELOC", !.info = reg])

luaK_setreturns(s, nresults) ==
    LET fs == s.fs e == s.e
    IN  CASE e.k = "VCALL" -> On([fs EXCEPT !.code[e.info + 1].c = nresults + 1], e)
          [] e.k = "VVARARG" ->
               On(luaK_reserveregs([fs EXCEPT !.code[e.info + 1].b = nresults + 1,
                                              !.code[e.info + 1].a = fs.freereg], 1), e)
          [] OTHER -> On(Assert_(fs, nresults = MULTRET), e)

luaK_setoneret(s) ==
    LET fs == s.fs e == s.e
    IN  CASE e.k = "VCALL" -> InRegister(Assert_(fs, fs.code[e.info + 1].c = 2), e, fs.code[e.info + 1].a)
          [] e.k = "VVARARG" -> On([fs EXCEPT !.code[e.info + 1].b = 2], [e EXCEPT !.k = "VRELOCABLE"])
          [] OTHER -> s

luaK_dischargevars(s) ==
    LET fs == s.fs e == s.e
    IN  CASE e.k = "VLOCAL" -> InRegister(fs, e, e.info)
          [] e.k = "VUPVAL" -> Emitted(fs, e, "GETUPVAL", 0, e.info, 0)
          [] e.k = "VINDEXED" /\ e.vt = "VLOCAL" ->
               Emitted(freereg(freereg(fs, e.idx), e.tab), e, "GETTABLE", 0, e.tab, e.idx)
          [] e.k = "VINDEXED" /\ e.vt = "VUPVAL" ->
               Emitted(freereg(fs, e.idx), e, "GETTABUP", 0, e.tab, e.idx)
          [] OTHER -> luaK_setoneret(s)

discharge2reg(r, reg) ==
    LET s == luaK_dischargevars(r) fs == s.fs e == s.e
        g == CASE e.k = "VNIL" -> luaK_nil(fs, reg, 1)
               [] e.k \in {"VFALSE", "VTRUE"} ->
                    luaK_codeABC(fs, "LOADBOOL", reg, IF e.k = "VTRUE" THEN 1 ELSE 0, 0)
               [] e.k = "VK" -> luaK_codek(fs, reg, e.info)
               [] e.k = "VKINT" -> LET a == addk(fs, Num(e.info)) IN luaK_codek(a.fs, reg, a.k)
               [] e.k = "VRELOCABLE" -> [fs EXCEPT !.code[e.info + 1].a = reg]
               [] e.k = "VNONRELOC" /\ reg # e.info -> luaK_codeABC(fs, "MOVE", reg, e.info, 0)
               [] OTHER -> fs
    IN  IF e.k = "VJMP" THEN s ELSE InRegister(g, e, reg)

discharge2anyreg(s) ==
    IF s.e.k = "VNONRELOC" THEN s
    ELSE discharge2reg([s EXCEPT !.fs = luaK_reserveregs(@, 1)], s.fs.freereg)

\* need_value, of either list: a jump brings no value.
NeedsValue(fs, e) ==
    LET js == Jumps(fs, e.t) \o Jumps(fs, e.f)
    IN  \E i \in 1..Len(js) : OpAt(fs, getjumpcontrol(fs, js[i])) # "TESTSET"

\* The loads of true and false that jumps without a value go to.
Loads(fs, e, reg) ==
    LET j == IF e.k = "VJMP" THEN [fs |-> fs, l |-> NO_JUMP] ELSE luaK_jump(fs)
        false == luaK_codeABC(luaK_getlabel(j.fs), "LOADBOOL", reg, 0, 1)
        true == luaK_codeABC(luaK_getlabel(false), "LOADBOOL", reg, 1, 0)
    IN  [fs |-> luaK_patchtohere(true, j.l), p_f |-> Pc(j.fs), p_t |-> Pc(false)]

exp2reg(r, reg) ==
    LET s == discharge2reg(r, reg)
        c == luaK_concat(s.fs, s.e.t, IF s.e.k = "VJMP" THEN s.e.info ELSE NO_JUMP)
        e == [s.e EXCEPT !.t = c.l]
        ld == IF NeedsValue(c.fs, e) THEN Loads(c.fs, e, reg)
              ELSE [fs |-> c.fs, p_f |-> NO_JUMP, p_t |-> NO_JUMP]
        g == luaK_getlabel(ld.fs)
        f == patchlistaux(g, e.f, Pc(g), reg, ld.p_f)
    IN  InRegister(IF hasjumps(e) THEN patchlistaux(f, e.t, Pc(g), reg, ld.p_t) ELSE c.fs,
                   [e EXCEPT !.t = NO_JUMP, !.f = NO_JUMP], reg)

luaK_exp2nextreg(r) ==
    LET s == luaK_dischargevars(r)
        fs == luaK_reserveregs(freeexp(s.fs, s.e), 1)
    IN  exp2reg(On(fs, s.e), fs.freereg - 1)

luaK_exp2anyreg(r) ==
    LET s == luaK_dischargevars(r)
    IN  IF s.e.k = "VNONRELOC" /\ ~hasjumps(s.e) THEN s
        ELSE IF s.e.k = "VNONRELOC" /\ s.e.info >= s.fs.nactvar THEN exp2reg(s, s.e.info)
        ELSE luaK_exp2nextreg(s)

luaK_exp2anyregup(s) == IF s.e.k = "VUPVAL" /\ ~hasjumps(s.e) THEN s ELSE luaK_exp2anyreg(s)
luaK_exp2val(s) == IF hasjumps(s.e) THEN luaK_exp2anyreg(s) ELSE luaK_dischargevars(s)

\* [fs, e, rk]: the R/K index of an expression.
luaK_exp2RK(r) ==
    LET s == luaK_exp2val(r)
        a == IF IsConstant(s.e) THEN addk(s.fs, ConstantOf(s.e)) ELSE [fs |-> s.fs, k |-> s.e.info]
        c == [s EXCEPT !.fs = a.fs, !.e.k = "VK", !.e.info = a.k]
        reg == luaK_exp2anyreg(IF IsConstant(s.e) THEN c ELSE s)
    IN  IF (IsConstant(s.e) \/ s.e.k = "VK") /\ a.k <= MAXINDEXRK
        THEN [fs |-> c.fs, e |-> c.e, rk |-> a.k + BITRK]
        ELSE [fs |-> reg.fs, e |-> reg.e, rk |-> reg.e.info]

luaK_storevar(fs, var, ex) ==
    CASE var.k = "VLOCAL" -> exp2reg(On(freeexp(fs, ex), ex), var.info).fs
      [] var.k = "VUPVAL" ->
           LET s == luaK_exp2anyreg(On(fs, ex))
           IN  freeexp(luaK_codeABC(s.fs, "SETUPVAL", s.e.info, var.info, 0), s.e)
      [] var.k = "VINDEXED" ->
           LET s == luaK_exp2RK(On(fs, ex))
               op == IF var.vt = "VLOCAL" THEN "SETTABLE" ELSE "SETTABUP"
           IN  freeexp(luaK_codeABC(s.fs, op, var.tab, var.idx, s.rk), s.e)
      [] OTHER -> Assert_(fs, FALSE)

luaK_self(r, key) ==
    LET s == luaK_exp2anyreg(r)
        fs == freeexp(s.fs, s.e)
        base == fs.freereg
        k == luaK_exp2RK(On(luaK_reserveregs(fs, 2), key))
    IN  InRegister(freeexp(luaK_codeABC(k.fs, "SELF", base, s.e.info, k.rk), k.e), s.e, base)

luaK_indexed(fs, t, key) ==
    LET k == luaK_exp2RK(On(Assert_(fs, ~hasjumps(t) /\ t.k \in {"VNONRELOC", "VLOCAL", "VUPVAL"}), key))
    IN  On(k.fs, [t EXCEPT !.tab = t.info, !.idx = k.rk, !.k = "VINDEXED",
                           !.vt = IF t.k = "VUPVAL" THEN "VUPVAL" ELSE "VLOCAL"])

-----------------------------------------------------------------------------
(* Conditions *)
negatecondition(fs, e) ==
    LET i == getjumpcontrol(fs, e.info)
    IN  [Assert_(fs, OpAt(fs, i) \in {"EQ", "LT", "LE"}) EXCEPT !.code[i + 1].a = 1 - @]

\* A jump if the expression is cond: [fs, l].
jumponcond(s, cond) ==
    LET fs == s.fs e == s.e d == discharge2anyreg(s)
    IN  IF e.k = "VRELOCABLE" /\ OpAt(fs, e.info) = "NOT"
        THEN condjump([fs EXCEPT !.code = SubSeq(@, 1, Len(@) - 1)], "TEST",
                      fs.code[e.info + 1].b, 0, 1 - cond)
        ELSE condjump(freeexp(d.fs, d.e), "TESTSET", NO_REG, d.e.info, cond)

luaK_goiftrue(r) ==
    LET s == luaK_dischargevars(r)
        j == CASE s.e.k = "VJMP" -> [fs |-> negatecondition(s.fs, s.e), l |-> s.e.info]
               [] s.e.k \in {"VK", "VKINT", "VTRUE"} -> [fs |-> s.fs, l |-> NO_JUMP]
               [] OTHER -> jumponcond(s, 0)
        c == luaK_concat(j.fs, s.e.f, j.l)
    IN  On(luaK_patchtohere(c.fs, s.e.t), [s.e EXCEPT !.f = c.l, !.t = NO_JUMP])

luaK_goiffalse(r) ==
    LET s == luaK_dischargevars(r)
        j == CASE s.e.k = "VJMP" -> [fs |-> s.fs, l |-> s.e.info]
               [] s.e.k \in {"VNIL", "VFALSE"} -> [fs |-> s.fs, l |-> NO_JUMP]
               [] OTHER -> jumponcond(s, 1)
        c == luaK_concat(j.fs, s.e.t, j.l)
    IN  On(luaK_patchtohere(c.fs, s.e.f), [s.e EXCEPT !.t = c.l, !.f = NO_JUMP])

codenot(r) ==
    LET s == luaK_dischargevars(r) fs == s.fs e == s.e
        d == discharge2anyreg(s)
        n == CASE e.k \in {"VNIL", "VFALSE"} -> On(fs, [e EXCEPT !.k = "VTRUE"])
               [] e.k \in {"VK", "VKINT", "VTRUE"} -> On(fs, [e EXCEPT !.k = "VFALSE"])
               [] e.k = "VJMP" -> On(negatecondition(fs, e), e)
               [] OTHER -> Emitted(freeexp(d.fs, d.e), d.e, "NOT", 0, d.e.info, 0)
    IN  On(removevalues(removevalues(n.fs, e.t), e.f), [n.e EXCEPT !.t = e.f, !.f = e.t])

-----------------------------------------------------------------------------
(* Operators *)
BinaryValueOps == {"ADD", "SUB", "IDIV"}
Comparisons == {"EQ", "NE", "LT", "LE", "GT", "GE"}

constfolding(op, e1, e2) ==
    tonumeral(e1) /\ tonumeral(e2) /\ ~(op = "IDIV" /\ e2.info = 0)

codebinexpval(fs, op, e1, e2) ==
    LET b == luaK_exp2RK(On(fs, e2))
        a == luaK_exp2RK(On(b.fs, e1))
    IN  Emitted(freeexps(a.fs, a.e, b.e), a.e, op, 0, a.rk, b.rk)

codecomp(fs, opr, e1, e2) ==
    LET rk1 == IF e1.k = "VK" THEN e1.info + BITRK ELSE e1.info
        b == luaK_exp2RK(On(Assert_(fs, e1.k \in {"VK", "VNONRELOC"}), e2))
        g == freeexps(b.fs, e1, b.e)
        j == CASE opr = "NE" -> condjump(g, "EQ", 0, rk1, b.rk)
               [] opr = "GT" -> condjump(g, "LT", 1, b.rk, rk1)
               [] opr = "GE" -> condjump(g, "LE", 1, b.rk, rk1)
               [] OTHER -> condjump(g, opr, 1, rk1, b.rk)
    IN  On(j.fs, [e1 EXCEPT !.k = "VJMP", !.info = Pc(g) + 1])

luaK_prefix(op, s) ==
    CASE op = "NOT" -> codenot(s)
      [] op = "UNM" /\ tonumeral(s.e) -> On(s.fs, [s.e EXCEPT !.info = -@])
      [] OTHER -> LET r == luaK_exp2anyreg(s)
                  IN  Emitted(freeexp(r.fs, r.e), r.e, op, 0, r.e.info, 0)

luaK_infix(op, s) ==
    CASE op = "AND" -> luaK_goiftrue(s)
      [] op = "OR" -> luaK_goiffalse(s)
      [] op = "CONCAT" -> luaK_exp2nextreg(s)
      [] op \in BinaryValueOps /\ tonumeral(s.e) -> s
      [] OTHER -> LET r == luaK_exp2RK(s) IN On(r.fs, r.e)

luaK_posfix(op, e1, s2) ==
    CASE op = "AND" ->
           LET d == luaK_dischargevars([s2 EXCEPT !.fs = Assert_(@, e1.t = NO_JUMP)])
               c == luaK_concat(d.fs, d.e.f, e1.f)
           IN  On(c.fs, [d.e EXCEPT !.f = c.l])
      [] op = "OR" ->
           LET d == luaK_dischargevars([s2 EXCEPT !.fs = Assert_(@, e1.f = NO_JUMP)])
               c == luaK_concat(d.fs, d.e.t, e1.t)
           IN  On(c.fs, [d.e EXCEPT !.t = c.l])
      [] op = "CONCAT" ->
           LET d == luaK_exp2val(s2)
               n == luaK_exp2nextreg(d)
           IN  IF d.e.k = "VRELOCABLE" /\ OpAt(d.fs, d.e.info) = "CONCAT"
               THEN LET g == Assert_(d.fs, e1.info = d.fs.code[d.e.info + 1].b - 1)
                    IN  On([freeexp(g, e1) EXCEPT !.code[d.e.info + 1].b = e1.info],
                           [e1 EXCEPT !.k = "VRELOCABLE", !.info = d.e.info])
               ELSE codebinexpval(n.fs, "CONCAT", e1, n.e)
      [] op \in BinaryValueOps /\ constfolding(op, e1, s2.e) ->
           On(s2.fs, [e1 EXCEPT !.info = Arith(op, e1.info, s2.e.info)])
      [] op \in BinaryValueOps /\ ~constfolding(op, e1, s2.e) -> codebinexpval(s2.fs, op, e1, s2.e)
      [] op \in Comparisons -> codecomp(s2.fs, op, e1, s2.e)

luaK_setlist(fs, base, nelems, tostore) ==
    LET b == IF tostore = MULTRET THEN 0 ELSE tostore
        g == Assert_(fs, tostore # 0 /\ tostore <= LFIELDS_PER_FLUSH)
    IN  [luaK_codeABC(g, "SETLIST", base, b, (nelems - 1) \div LFIELDS_PER_FLUSH + 1)
           EXCEPT !.freereg = base + 1]

-----------------------------------------------------------------------------
(***************************************************************************)
(* The parser.                                                             *)
(***************************************************************************)

RECURSIVE expr(_, _), statlist(_, _, _, _)

Front(s) == SubSeq(s, 1, Len(s) - 1)
Last(s) == s[Len(s)]
Lowest(S) == CHOOSE i \in S : \A j \in S : i <= j
Highest(S) == CHOOSE i \in S : \A j \in S : i >= j
ENV == "_ENV"

-----------------------------------------------------------------------------
(* Variables *)
new_localvar(fs, name) == [fs EXCEPT !.vars = Append(@, name)]
adjustlocalvars(fs, n) == [fs EXCEPT !.nactvar = @ + n]
removevars(fs, tolevel) ==
    [fs EXCEPT !.vars = SubSeq(@, 1, Len(@) - (fs.nactvar - tolevel)), !.nactvar = tolevel]

\* The register of the last variable of that name, or -1.
searchvar(fs, name) ==
    LET at == {i \in 1..fs.nactvar : fs.vars[i] = name} IN IF at = {} THEN -1 ELSE Highest(at) - 1
searchupvalue(fs, name) ==
    LET at == {i \in 1..Len(fs.ups) : fs.ups[i].name = name} IN IF at = {} THEN -1 ELSE Lowest(at) - 1
newupvalue(fs, name, v) ==
    On([fs EXCEPT !.ups = Append(@, [name |-> name, instack |-> v.k = "VLOCAL", idx |-> v.info])],
       init_exp("VUPVAL", Len(fs.ups)))

markupval(fs, level) ==
    LET b == Highest({i \in 1..Len(fs.bl) : fs.bl[i].nactvar <= level})
    IN  [fs EXCEPT !.bl[b].upval = TRUE]

RECURSIVE singlevaraux(_, _, _)
singlevaraux(fs, name, base) ==
    LET v == searchvar(fs, name) u == searchupvalue(fs, name)
    IN  IF v >= 0 THEN On(IF base THEN fs ELSE markupval(fs, v), init_exp("VLOCAL", v))
        ELSE IF u >= 0 THEN On(fs, init_exp("VUPVAL", u))
        ELSE IF fs.prev = <<>> THEN On(fs, init_exp("VVOID", 0))
        ELSE LET s == singlevaraux(fs.prev[1], name, FALSE)
             IN  IF s.e.k = "VVOID" THEN On(fs, s.e)
                 ELSE newupvalue([fs EXCEPT !.prev = <<s.fs>>], name, s.e)

codestring(fs, x) == LET a == addk(fs, Str(x)) IN On(a.fs, init_exp("VK", a.k))

singlevar(fs, name) ==
    LET s == singlevaraux(fs, name, TRUE)
        env == singlevaraux(s.fs, ENV, TRUE)
        key == codestring(env.fs, name)
    IN  IF s.e.k # "VVOID" THEN s ELSE luaK_indexed(key.fs, env.e, key.e)

adjust_assign(fs, nvars, nexps, e) ==
    LET more == nvars - nexps + (IF hasmultret(e) THEN 1 ELSE 0)
        extra == IF hasmultret(e) /\ more < 0 THEN 0 ELSE more
        m == luaK_setreturns(On(fs, e), extra).fs
        one == IF e.k = "VVOID" THEN fs ELSE luaK_exp2nextreg(On(fs, e)).fs
        g == IF hasmultret(e) THEN (IF extra > 1 THEN luaK_reserveregs(m, extra - 1) ELSE m)
             ELSE IF extra > 0 THEN luaK_nil(luaK_reserveregs(one, extra), one.freereg, extra)
             ELSE one
    IN  IF nexps > nvars THEN [g EXCEPT !.freereg = @ - (nexps - nvars)] ELSE g

-----------------------------------------------------------------------------
(* Blocks, labels and gotos *)
enterblock(fs, isloop) ==
    [Assert_(fs, fs.freereg = fs.nactvar) EXCEPT
       !.bl = Append(@, [nactvar |-> fs.nactvar, firstlabel |-> Len(fs.label),
                         firstgoto |-> Len(fs.gt), upval |-> FALSE, isloop |-> isloop])]

\* Index g of the pending gotos (from 1) jumps to label lb.
closegoto(fs, g, lb) ==
    LET gt == fs.gt[g]
        f == IF gt.nactvar < lb.nactvar THEN Fail(fs) ELSE fs
    IN  [luaK_patchlist(f, gt.pc, lb.pc) EXCEPT
           !.gt = SubSeq(@, 1, g - 1) \o SubSeq(@, g + 1, Len(@))]

findlabel(fs, g) ==
    LET gt == fs.gt[g]
        bl == Last(fs.bl)
        at == {i \in bl.firstlabel + 1..Len(fs.label) : fs.label[i].name = gt.name}
        lb == fs.label[Lowest(at)]
        f == IF gt.nactvar > lb.nactvar /\ (bl.upval \/ Len(fs.label) > bl.firstlabel)
             THEN luaK_patchclose(fs, gt.pc, lb.nactvar) ELSE fs
    IN  IF at = {} THEN [fs |-> fs, found |-> FALSE]
        ELSE [fs |-> closegoto(f, g, lb), found |-> TRUE]

RECURSIVE findgotos(_, _, _)
findgotos(fs, lb, i) ==
    IF i > Len(fs.gt) THEN fs
    ELSE IF fs.gt[i].name = lb.name THEN findgotos(closegoto(fs, i, lb), lb, i)
    ELSE findgotos(fs, lb, i + 1)

RECURSIVE movegotosout(_, _, _)
movegotosout(fs, bl, i) ==
    LET gt == fs.gt[i]
        c == IF bl.upval THEN luaK_patchclose(fs, gt.pc, bl.nactvar) ELSE fs
        l == findlabel(IF gt.nactvar > bl.nactvar THEN [c EXCEPT !.gt[i].nactvar = bl.nactvar] ELSE fs, i)
    IN  IF i > Len(fs.gt) THEN fs ELSE movegotosout(l.fs, bl, IF l.found THEN i ELSE i + 1)

breaklabel(fs) ==
    LET lb == [name |-> "break", pc |-> Pc(fs), nactvar |-> fs.nactvar]
    IN  findgotos([fs EXCEPT !.label = Append(@, lb)], lb, Last(fs.bl).firstgoto + 1)

leaveblock(fs) ==
    LET bl == Last(fs.bl)
        inner == Len(fs.bl) > 1
        j == luaK_jump(fs)
        c == IF inner /\ bl.upval THEN luaK_patchtohere(luaK_patchclose(j.fs, j.l, bl.nactvar), j.l) ELSE fs
        b == IF bl.isloop THEN breaklabel(c) ELSE c
        r == removevars([b EXCEPT !.bl = Front(@)], bl.nactvar)
        f == [r EXCEPT !.freereg = r.nactvar, !.label = SubSeq(@, 1, bl.firstlabel)]
    IN  IF inner THEN movegotosout(f, bl, bl.firstgoto + 1)
        ELSE IF bl.firstgoto < Len(f.gt) THEN Fail(f) ELSE f

block(fs, b) == leaveblock(statlist(enterblock(fs, FALSE), b, 1, FALSE))

gotostat(fs, pc, l) ==
    findlabel([fs EXCEPT !.gt = Append(@, [name |-> l, pc |-> pc, nactvar |-> fs.nactvar])],
              Len(fs.gt) + 1).fs

\* A label; at the end of a block (with nothing but labels behind) it lies
\* outside of the scope of the locals of the block.
labelstat(fs, l, isend) ==
    LET bl == Last(fs.bl)
        repeated == \E i \in bl.firstlabel + 1..Len(fs.label) : fs.label[i].name = l
        g == luaK_getlabel(IF repeated THEN Fail(fs) ELSE fs)
        lb == [name |-> l, pc |-> Pc(g), nactvar |-> IF isend THEN bl.nactvar ELSE g.nactvar]
    IN  findgotos([g EXCEPT !.label = Append(@, lb)], lb, bl.firstgoto + 1)

-----------------------------------------------------------------------------
(* Functions *)
NewFuncState(prev, vararg) ==
    [code |-> <<>>, jpc |-> NO_JUMP, lasttarget |-> 0, freereg |-> 0, maxstack |-> 2,
     nactvar |-> 0, k |-> <<>>, ok |-> TRUE, err |-> FALSE, vars |-> <<>>, ups |-> <<>>,
     bl |-> <<>>, gt |-> <<>>, label |-> <<>>, p |-> <<>>, vararg |-> vararg, prev |-> prev]
Proto(fs, numparams) ==
    [code |-> fs.code, k |-> fs.k, p |-> fs.p, maxstacksize |-> fs.maxstack,
     upvalues |-> fs.ups, numparams |-> numparams, is_vararg |-> fs.vararg]
close_func(fs) == leaveblock(luaK_ret(fs, 0, 0))

RECURSIVE Declare(_, _)
Declare(fs, names) ==
    IF names = <<>> THEN fs ELSE Declare(new_localvar(fs, Head(names)), Tail(names))

\* body: the closure is fixed at the last register of the function around.
body(fs, f) ==
    LET n == Len(f[2])
        open == enterblock(NewFuncState(<<[fs EXCEPT !.p = Append(@, <<>>)]>>, f[3]), FALSE)
        params == luaK_reserveregs(adjustlocalvars(Declare(open, f[2]), n), n)
        new == close_func(statlist(params, f[4], 1, FALSE))
        prev == new.prev[1]
        here == [prev EXCEPT !.p[Len(prev.p)] = Proto(new, n),
                             !.ok = @ /\ new.ok, !.err = @ \/ new.err]
    IN  luaK_exp2nextreg(On(luaK_codeABC(here, "CLOSURE", 0, Len(here.p) - 1, 0),
                            init_exp("VRELOCABLE", Pc(here))))

-----------------------------------------------------------------------------
(* Expressions *)
\* explist: all but the last in the next registers.
RECURSIVE explist(_, _)
explist(fs, es) ==
    IF Len(es) = 1 THEN expr(fs, es[1])
    ELSE explist(luaK_exp2nextreg(expr(fs, es[1])).fs, Tail(es))

funcargs(fs, f, args) ==
    LET base == f.info
        s == IF args = <<>> THEN On(fs, init_exp("VVOID", 0)) ELSE explist(fs, args)
        open == hasmultret(s.e)
        g == IF open THEN luaK_setreturns(s, MULTRET).fs
             ELSE IF s.e.k = "VVOID" THEN s.fs ELSE luaK_exp2nextreg(s).fs
        nparams == IF open THEN MULTRET ELSE g.freereg - (base + 1)
        c == luaK_codeABC(Assert_(g, f.k = "VNONRELOC"), "CALL", base, nparams + 1, 2)
    IN  On([c EXCEPT !.freereg = base + 1], init_exp("VCALL", Pc(c) - 1))

\* cc = [fs, v, na, tostore]: v is the last item, not stored yet.
closelistfield(cc, t) ==
    LET fs == luaK_exp2nextreg(On(cc.fs, cc.v)).fs
    IN  IF cc.v.k = "VVOID" THEN cc
        ELSE IF cc.tostore = LFIELDS_PER_FLUSH
        THEN [cc EXCEPT !.fs = luaK_setlist(fs, t, cc.na, cc.tostore), !.v.k = "VVOID", !.tostore = 0]
        ELSE [cc EXCEPT !.fs = fs, !.v.k = "VVOID"]
lastlistfield(cc, t) ==
    IF cc.tostore = 0 THEN cc.fs
    ELSE IF hasmultret(cc.v)
    THEN luaK_setlist(luaK_setreturns(On(cc.fs, cc.v), MULTRET).fs, t, cc.na, MULTRET)
    ELSE luaK_setlist(IF cc.v.k = "VVOID" THEN cc.fs ELSE luaK_exp2nextreg(On(cc.fs, cc.v)).fs,
                      t, cc.na, cc.tostore)
listfield(cc, item) ==
    LET s == expr(cc.fs, item[2])
    IN  [fs |-> s.fs, v |-> s.e, na |-> cc.na + 1, tostore |-> cc.tostore + 1]
recfield(cc, item, t) ==
    LET key == luaK_exp2RK(luaK_exp2val(expr(cc.fs, item[2])))
        val == luaK_exp2RK(expr(key.fs, item[3]))
    IN  [cc EXCEPT !.fs = [luaK_codeABC(val.fs, "SETTABLE", t, key.rk, val.rk)
                             EXCEPT !.freereg = cc.fs.freereg]]
RECURSIVE fields(_, _, _)
fields(cc, items, t) ==
    IF items = <<>> THEN cc
    ELSE LET c == closelistfield(cc, t)
         IN  fields(IF items[1][1] = "item" THEN listfield(c, items[1]) ELSE recfield(c, items[1], t),
                    Tail(items), t)
constructor(fs, items) ==
    LET s == luaK_exp2nextreg(On(luaK_codeABC(fs, "NEWTABLE", 0, 0, 0), init_exp("VRELOCABLE", Pc(fs))))
        cc == [fs |-> s.fs, v |-> init_exp("VVOID", 0), na |-> 0, tostore |-> 0]
    IN  On(lastlistfield(fields(cc, items, s.e.info), s.e.info), s.e)

ConstExp(fs, v) ==
    CASE v = NIL -> On(fs, init_exp("VNIL", 0))
      [] v = TRUE_ -> On(fs, init_exp("VTRUE", 0))
      [] v = FALSE_ -> On(fs, init_exp("VFALSE", 0))
      [] Is(v, 2) -> On(fs, init_exp("VKINT", v[2]))
      [] Is(v, 5) -> codestring(fs, v[2])

expr(fs, x) ==
    CASE fs.err -> On(fs, init_exp("VVOID", 0))
      [] x[1] = "const" -> ConstExp(fs, x[2])
      [] x[1] = "name" -> singlevar(fs, x[2])
      [] x[1] = "paren" -> luaK_dischargevars(expr(fs, x[2]))
      [] x[1] = "vararg" -> On(luaK_codeABC(IF fs.vararg THEN fs ELSE Fail(fs), "VARARG", 0, 1, 0),
                               init_exp("VVARARG", Pc(fs)))
      [] x[1] = "un" -> luaK_prefix(x[2], expr(fs, x[3]))
      [] x[1] = "bin" ->
           LET s == luaK_infix(x[2], expr(fs, x[3]))
           IN  luaK_posfix(x[2], s.e, expr(s.fs, x[4]))
      [] x[1] = "index" ->
           LET t == luaK_exp2anyregup(expr(fs, x[2]))
               key == luaK_exp2val(expr(t.fs, x[3]))
           IN  luaK_indexed(key.fs, t.e, key.e)
      [] x[1] = "call" ->
           LET f == luaK_exp2nextreg(expr(fs, x[2])) IN funcargs(f.fs, f.e, x[3])
      [] x[1] = "method" ->
           LET o == expr(fs, x[2])
               key == codestring(o.fs, x[3])
               f == luaK_self(On(key.fs, o.e), key.e)
           IN  funcargs(f.fs, f.e, x[4])
      [] x[1] = "table" -> constructor(fs, x[2])
      [] x[1] = "function" -> body(fs, x)

-----------------------------------------------------------------------------
(* Assignments *)

check_conflict(fs, lhs, v) ==
    LET extra == fs.freereg
        HitTab(h) == h.k = "VINDEXED" /\ h.vt = v.k /\ h.tab = v.info
        HitIdx(h) == h.k = "VINDEXED" /\ v.k = "VLOCAL" /\ h.idx = v.info
        Safe(h) == [h EXCEPT !.tab = IF HitTab(h) THEN extra ELSE @, !.vt = IF HitTab(h) THEN "VLOCAL" ELSE @,
                             !.idx = IF HitIdx(h) THEN extra ELSE @]
        op == IF v.k = "VLOCAL" THEN "MOVE" ELSE "GETUPVAL"
    IN  IF \A i \in 1..Len(lhs) : ~HitTab(lhs[i]) /\ ~HitIdx(lhs[i]) THEN [fs |-> fs, lhs |-> lhs]
        ELSE [fs |-> luaK_reserveregs(luaK_codeABC(fs, op, extra, v.info, 0), 1),
              lhs |-> [i \in 1..Len(lhs) |-> Safe(lhs[i])]]

RECURSIVE Targets(_, _, _)
Targets(fs, lhs, xs) ==
    IF xs = <<>> THEN [fs |-> fs, lhs |-> lhs]
    ELSE LET s == expr(fs, xs[1])
             c == IF s.e.k # "VINDEXED" /\ lhs # <<>> THEN check_conflict(s.fs, lhs, s.e)
                  ELSE [fs |-> s.fs, lhs |-> lhs]
         IN  Targets(c.fs, Append(c.lhs, s.e), Tail(xs))

\* The last n targets get what is in the last registers.
RECURSIVE Stores(_, _, _)
Stores(fs, lhs, n) ==
    IF n = 0 THEN fs
    ELSE Stores(luaK_storevar(fs, lhs[n], init_exp("VNONRELOC", fs.freereg - 1)), lhs, n - 1)

assignment(fs, xs, es) ==
    LET t == Targets(fs, <<>>, xs)
        n == Len(xs)
        s == explist(t.fs, es)
        one == luaK_setoneret(s)
    IN  IF Len(es) # n THEN Stores(adjust_assign(s.fs, n, Len(es), s.e), t.lhs, n)
        ELSE Stores(luaK_storevar(one.fs, t.lhs[n], one.e), t.lhs, n - 1)

localstat(fs, names, es) ==
    LET d == Declare(fs, names)
        s == IF es = <<>> THEN On(d, init_exp("VVOID", 0)) ELSE explist(d, es)
    IN  adjustlocalvars(adjust_assign(s.fs, Len(names), Len(es), s.e), Len(names))

-----------------------------------------------------------------------------
(* Control structures *)
\* cond: the expression is left as [fs, e], its jumps when false in e.f.
cond(fs, x) ==
    LET s == expr(fs, x)
    IN  luaK_goiftrue(IF s.e.k = "VNIL" THEN [s EXCEPT !.e.k = "VFALSE"] ELSE s)

\* A jump back to a place known already.
luaK_jumpto(fs, target) == LET j == luaK_jump(fs) IN luaK_patchlist(j.fs, j.l, target)

whilestat(fs, x, b) ==
    LET c == cond(luaK_getlabel(fs), x)
        d == luaK_jumpto(block(enterblock(c.fs, TRUE), b), Pc(fs))
    IN  luaK_patchtohere(leaveblock(d), c.e.f)

repeatstat(fs, b, x) ==
    LET c == cond(statlist(enterblock(enterblock(luaK_getlabel(fs), TRUE), FALSE), b, 1, TRUE), x)
        bl2 == Last(c.fs.bl)
        g == IF bl2.upval THEN luaK_patchclose(c.fs, c.e.f, bl2.nactvar) ELSE c.fs
    IN  leaveblock(luaK_patchlist(leaveblock(g), c.e.f, Pc(fs)))

forbody(fs, base, nvars, isnum, b) ==
    LET a == adjustlocalvars(fs, 3)
        j == IF isnum THEN [fs |-> luaK_codeABC(a, "FORPREP", base, NO_JUMP, 0), l |-> Pc(a)] ELSE luaK_jump(a)
        vars == luaK_reserveregs(adjustlocalvars(enterblock(j.fs, FALSE), nvars), nvars)
        c == luaK_patchtohere(leaveblock(block(vars, b)), j.l)
        e == IF isnum THEN luaK_codeABC(c, "FORLOOP", base, NO_JUMP, 0)
             ELSE luaK_codeABC(luaK_codeABC(c, "TFORCALL", base, 0, nvars), "TFORLOOP", base + 2, NO_JUMP, 0)
    IN  luaK_patchlist(e, Pc(e) - 1, Pc(a) + 1)

exp1(fs, x) == luaK_exp2nextreg(expr(fs, x)).fs
fornum(fs, st) ==
    LET f == enterblock(fs, TRUE)
        d == Declare(f, <<"(for index)", "(for limit)", "(for step)", st[2]>>)
        l == exp1(exp1(d, st[3]), st[4])
        k == addk(l, Num(1))
        s == IF st[5] # <<>> THEN exp1(l, st[5])
             ELSE luaK_reserveregs(luaK_codek(k.fs, k.fs.freereg, k.k), 1)
    IN  leaveblock(forbody(s, f.freereg, 1, TRUE, st[6]))
forlist(fs, st) ==
    LET f == enterblock(fs, TRUE)
        d == Declare(f, <<"(for generator)", "(for state)", "(for control)">> \o st[2])
        s == explist(d, st[3])
        a == luaK_checkstack(adjust_assign(s.fs, 3, Len(st[3]), s.e), 3)
    IN  leaveblock(forbody(a, f.freereg, Len(st[2]), FALSE, st[4]))

\* [fs, l]: l are the jumps of the clauses that are done, to the end.
test_then_block(fs, escapelist, clause, islast) ==
    LET x == expr(fs, clause[1])
        b == clause[2]
        jumps == b # <<>> /\ b[1][1] = "goto"
        \* the goto alone
        f == luaK_goiffalse(x)
        gt == gotostat(enterblock(f.fs, FALSE), f.e.t, b[1][2])
        \* what is behind it, or the whole block
        j == luaK_jump(gt)
        t == luaK_goiftrue(x)
        jf == IF jumps THEN j.l ELSE t.e.f
        then == leaveblock(statlist(IF jumps THEN j.fs ELSE enterblock(t.fs, FALSE),
                                    b, IF jumps THEN 2 ELSE 1, FALSE))
        over == luaK_jump(then)
        esc == luaK_concat(over.fs, escapelist, over.l)
        r == IF islast THEN [fs |-> then, l |-> escapelist] ELSE esc
    IN  IF jumps /\ Len(b) = 1 THEN [fs |-> leaveblock(gt), l |-> escapelist]
        ELSE [r EXCEPT !.fs = luaK_patchtohere(@, jf)]

RECURSIVE Clauses(_, _, _, _)
Clauses(fs, escapelist, clauses, els) ==
    IF clauses = <<>> THEN [fs |-> fs, l |-> escapelist]
    ELSE LET r == test_then_block(fs, escapelist, clauses[1], Len(clauses) = 1 /\ els = <<>>)
         IN  Clauses(r.fs, r.l, Tail(clauses), els)
ifstat(fs, clauses, els) ==
    LET c == Clauses(fs, NO_JUMP, clauses, els)
    IN  luaK_patchtohere(IF els = <<>> THEN c.fs ELSE block(c.fs, els), c.l)

retstat(fs, es) ==
    LET s == explist(fs, es)
        m == luaK_setreturns(s, MULTRET)
        tail == s.e.k = "VCALL" /\ Len(es) = 1
        t == IF tail THEN [m.fs EXCEPT !.code[m.e.info + 1].op = "TAILCALL",
                                       !.ok = @ /\ m.fs.code[m.e.info + 1].a = fs.nactvar]
             ELSE m.fs
        any == luaK_exp2anyreg(s)
        next == luaK_exp2nextreg(s).fs
    IN  IF es = <<>> THEN luaK_ret(fs, 0, 0)
        ELSE IF hasmultret(s.e) THEN luaK_ret(t, fs.nactvar, MULTRET)
        ELSE IF Len(es) = 1 THEN luaK_ret(any.fs, any.e.info, 1)
        ELSE luaK_ret(Assert_(next, Len(es) = next.freereg - fs.nactvar), fs.nactvar, Len(es))

\* One statement; isend: nothing but labels behind it, in its block.
Statement(fs, st, isend) ==
    CASE st[1] = "local" -> localstat(fs, st[2], st[3])
      [] st[1] = "localfunction" -> body(adjustlocalvars(new_localvar(fs, st[2]), 1), st[3]).fs
      [] st[1] = "function" ->
           LET v == singlevar(fs, st[2]) b == body(v.fs, st[3]) IN luaK_storevar(b.fs, v.e, b.e)
      [] st[1] = "assign" -> assignment(fs, st[2], st[3])
      [] st[1] \in {"call", "method"} -> LET s == expr(fs, st) IN [s.fs EXCEPT !.code[s.e.info + 1].c = 1]
      [] st[1] = "do" -> block(fs, st[2])
      [] st[1] = "while" -> whilestat(fs, st[2], st[3])
      [] st[1] = "repeat" -> repeatstat(fs, st[2], st[3])
      [] st[1] = "if" -> ifstat(fs, st[2], st[3])
      [] st[1] = "fornum" -> fornum(fs, st)
      [] st[1] = "forin" -> forlist(fs, st)
      [] st[1] = "goto" -> LET j == luaK_jump(fs) IN gotostat(j.fs, j.l, st[2])
      [] st[1] = "label" -> labelstat(fs, st[2], isend)
      [] st[1] = "return" -> retstat(fs, st[2])

\* The statements of a block from the i-th on; whether until ends it.
statlist(fs, b, i, until) ==
    IF fs.err \/ i > Len(b) THEN fs
    ELSE LET s == Statement(fs, b[i], ~until /\ \A j \in i..Len(b) : b[j][1] = "label")
             g == Assert_(s, s.maxstack >= s.freereg /\ s.freereg >= s.nactvar)
         IN  statlist([g EXCEPT !.freereg = g.nactvar], b, i + 1, until)

\* luaY_parser: the main function, in a FuncState that is done.
mainfunc(b) ==
    LET f == enterblock(NewFuncState(<<>>, TRUE), FALSE)
        s == statlist(newupvalue(f, ENV, init_exp("VLOCAL", 0)).fs, b, 1, FALSE)
    IN  close_func(s)
=============================================================================

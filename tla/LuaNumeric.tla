------------------------------ MODULE LuaNumeric ----------------------------
(***************************************************************************)
(* Integers and floats together: comparison, conversion, division and the   *)
(* numeric for (lvm.c:98-153, 270-360, 545-612, 1190-1241; lobject.c:94-160;*)
(* llimits.h:255-283).  Words and mantissas are short (Floats), so that     *)
(* every number there is can be tried.                                      *)
(***************************************************************************)
EXTENDS Floats, Sequences

CONSTANTS
    Numbers,  \* operands and parameters of loops
    Steps     \* steps of loops

IntegersRound == Mantissa < Word - 1  \* as with doubles and 64 bits

VARIABLES
    asked,    \* [op, a, b]: an operation
    res,      \* its result
    loop,     \* [pc, idx, limit, step]: the registers of a for loop
    args,     \* what the loop was started with
    var       \* the variable of the loop that the manual writes with "while"

vars == <<asked, res, loop, args, var>>

Integer(n) == [t |-> "int", n |-> n]
Float(u) == [t |-> "flt", n |-> u]
NaN == [t |-> "nan", n |-> 0]
None == [t |-> "none", n |-> 0]
INFINITY == 2^(Word + Fraction + 4)
MAXINTEGER == 2^(Word - 1) - 1
MININTEGER == -(2^(Word - 1))
IsInt(v) == v.t = "int"
IsFlt(v) == v.t \in {"flt", "nan"}

Wrap(n) == ((n - MININTEGER) % 2^Word) + MININTEGER
AsUnsigned(n) == n % 2^Word
cast_num(n) == Float(Nearest(n * Unit))
tonumber(v) == IF IsInt(v) THEN cast_num(v.n) ELSE v
Trunc(u) == IF u < 0 THEN -((-u) \div Unit) ELSE u \div Unit
floor(u) == (u \div Unit) * Unit

luai_numlt(a, b) == a.t = "flt" /\ b.t = "flt" /\ a.n < b.n
luai_numle(a, b) == a.t = "flt" /\ b.t = "flt" /\ a.n <= b.n
Infinite(u) == u \in {INFINITY, -INFINITY}
luai_numadd(a, b) ==
    IF a = NaN \/ b = NaN \/ (Infinite(a.n) /\ b.n = -a.n) THEN NaN
    ELSE IF Infinite(a.n) THEN a
    ELSE IF Infinite(b.n) THEN b
    ELSE LET u == Nearest(a.n + b.n)
         IN  IF u >= INFINITY THEN Float(INFINITY) ELSE IF u <= -INFINITY THEN Float(-INFINITY) ELSE Float(u)
Negated(a) == IF a = NaN THEN NaN ELSE Float(-a.n)

lua_numbertointeger(u) ==
    IF u >= MININTEGER * Unit /\ u < -MININTEGER * Unit THEN Integer(u \div Unit) ELSE None

\* mode 0: integral values only; 1: the floor; 2: the ceiling
luaV_tointeger(v, mode) ==
    IF v.t = "flt" THEN
        IF v.n # floor(v.n) THEN
            IF mode = 0 THEN None ELSE lua_numbertointeger(floor(v.n) + (IF mode > 1 THEN Unit ELSE 0))
        ELSE lua_numbertointeger(v.n)
    ELSE IF IsInt(v) THEN v ELSE None

l_intfitsf(i) == -(2^Mantissa) <= i /\ i <= 2^Mantissa

LTintfloat(i, f) ==
    IF l_intfitsf(i) THEN luai_numlt(cast_num(i), f)
    ELSE f # NaN /\ (f.n >= -MININTEGER * Unit \/ (f.n > MININTEGER * Unit /\ i < Trunc(f.n)))

LEintfloat(i, f) ==
    IF l_intfitsf(i) THEN luai_numle(cast_num(i), f)
    ELSE f # NaN /\ (f.n >= -MININTEGER * Unit \/ (f.n >= MININTEGER * Unit /\ i <= Trunc(f.n)))

LTnum(l, r) ==
    CASE IsInt(l) /\ IsInt(r) -> l.n < r.n
      [] IsInt(l) /\ IsFlt(r) -> LTintfloat(l.n, r)
      [] IsFlt(l) /\ IsFlt(r) -> luai_numlt(l, r)
      [] IsFlt(l) /\ IsInt(r) -> l # NaN /\ ~LEintfloat(r.n, l)

LEnum(l, r) ==
    CASE IsInt(l) /\ IsInt(r) -> l.n <= r.n
      [] IsInt(l) /\ IsFlt(r) -> LEintfloat(l.n, r)
      [] IsFlt(l) /\ IsFlt(r) -> luai_numle(l, r)
      [] IsFlt(l) /\ IsInt(r) -> l # NaN /\ ~LTintfloat(r.n, l)

luaV_equalobj(l, r) ==
    IF IsInt(l) # IsInt(r)
    THEN luaV_tointeger(l, 0) # None /\ luaV_tointeger(l, 0) = luaV_tointeger(r, 0)
    ELSE l # NaN /\ l = r

(***************************************************************************)
(* Division.  C truncates.                                                  *)
(***************************************************************************)
CDiv(m, n) == IF (m < 0) # (n < 0) THEN -(Abs(m) \div Abs(n)) ELSE Abs(m) \div Abs(n)
CMod(m, n) == m - n * CDiv(m, n)
Special(n) == (AsUnsigned(n) + 1) % 2^Word <= 1

luaV_div(m, n) ==
    IF Special(n) THEN IF n = 0 THEN None ELSE Integer(Wrap(-m))
    ELSE Integer(IF (m < 0) # (n < 0) /\ CMod(m, n) # 0 THEN CDiv(m, n) - 1 ELSE CDiv(m, n))

luaV_mod(m, n) ==
    IF Special(n) THEN IF n = 0 THEN None ELSE Integer(0)
    ELSE Integer(IF CMod(m, n) # 0 /\ (m < 0) # (n < 0) THEN CMod(m, n) + n ELSE CMod(m, n))

luaV_shiftl(x, y) ==
    IF y < 0 THEN IF y <= -Word THEN Integer(0) ELSE Integer(Wrap(AsUnsigned(x) \div 2^(-y)))
    ELSE IF y >= Word THEN Integer(0) ELSE Integer(Wrap(AsUnsigned(x) * 2^y))

\* The product of two floats that are not zero is 0 when it is below half the smallest.
Underflows(a, b) == 2 * Abs(a.n) * Abs(b.n) <= Unit

luai_nummod(a, b) ==
    IF a = NaN \/ b = NaN \/ Infinite(a.n) \/ b.n = 0 THEN NaN
    ELSE LET m == Float(IF Infinite(b.n) THEN a.n ELSE CMod(a.n, b.n))
         IN  IF m.n # 0 /\ (m.n < 0) # (b.n < 0) /\ ~Underflows(m, b) THEN luai_numadd(m, b) ELSE m

luaO_arith(op, a, b) ==
    CASE op = "idiv" -> luaV_div(a.n, b.n)
      [] op = "shl" -> luaV_shiftl(a.n, b.n)
      [] op = "shr" -> luaV_shiftl(a.n, Wrap(-b.n))
      [] op = "mod" -> IF IsInt(a) /\ IsInt(b) THEN luaV_mod(a.n, b.n)
                       ELSE luai_nummod(tonumber(a), tonumber(b))

Operation(op, a, b) ==
    CASE op = "lt" -> LTnum(a, b)
      [] op = "le" -> LEnum(a, b)
      [] op = "eq" -> luaV_equalobj(a, b)
      [] OTHER -> luaO_arith(op, a, b)

(***************************************************************************)
(* The numeric for.                                                         *)
(***************************************************************************)
\* A limit as an integer for an integer loop, or None; and whether no round is run.
\* Mutant: a limit is always rounded down.
forlimit_floor(limit, step) ==
    LET n == luaV_tointeger(limit, 1) IN
    IF n # None THEN [p |-> n, stopnow |-> FALSE]
    ELSE IF limit = None THEN [p |-> None, stopnow |-> FALSE]
    ELSE IF luai_numlt(Float(0), limit) THEN [p |-> Integer(MAXINTEGER), stopnow |-> step < 0]
    ELSE [p |-> Integer(MININTEGER), stopnow |-> step >= 0]

forlimit(limit, step) ==
    LET n == luaV_tointeger(limit, IF step < 0 THEN 2 ELSE 1) IN
    IF n # None THEN [p |-> n, stopnow |-> FALSE]
    ELSE IF limit = None THEN [p |-> None, stopnow |-> FALSE]
    ELSE IF luai_numlt(Float(0), limit) THEN [p |-> Integer(MAXINTEGER), stopnow |-> step < 0]
    ELSE [p |-> Integer(MININTEGER), stopnow |-> step >= 0]

Registers(pc, idx, limit, step) == [pc |-> pc, idx |-> idx, limit |-> limit, step |-> step]
Integral(init, step) == IsInt(init) /\ IsInt(step)
Plus(a, b) == IF IsInt(a) THEN Integer(Wrap(a.n + b.n)) ELSE luai_numadd(a, b)
Minus(a, b) == IF IsInt(a) THEN Integer(Wrap(a.n - b.n)) ELSE luai_numadd(a, Negated(b))

OP_FORPREP(init, limit, step) ==
    LET fl == forlimit(limit, step.n) IN
    /\ loop' = IF Integral(init, step) /\ fl.p # None
               THEN Registers("test", Minus(IF fl.stopnow THEN Integer(0) ELSE init, step), fl.p, step)
               ELSE IF limit = None THEN Registers("error", None, None, None)
               ELSE Registers("test", Minus(tonumber(init), tonumber(step)), tonumber(limit), tonumber(step))
    /\ args' = [init |-> init, limit |-> limit, step |-> step]
    /\ var' = IF Integral(init, step) THEN Minus(init, step)
              ELSE Minus(tonumber(init), tonumber(step))

OP_FORLOOP ==
    LET idx == Plus(loop.idx, loop.step)
        runs == IF IsInt(idx) THEN IF 0 < loop.step.n THEN idx.n <= loop.limit.n ELSE loop.limit.n <= idx.n
                ELSE IF luai_numlt(Float(0), loop.step) THEN luai_numle(idx, loop.limit)
                ELSE luai_numle(loop.limit, idx)
    IN  /\ loop.pc \in {"test", "body"}
        /\ loop' = IF runs THEN [loop EXCEPT !.pc = "body", !.idx = idx] ELSE [loop EXCEPT !.pc = "done"]
        /\ var' = Plus(var, loop.step)
        /\ UNCHANGED <<asked, res, args>>

Init ==
    /\ asked = None /\ res = None /\ args = None /\ var = None
    /\ loop = Registers("none", None, None, None)

Fresh == asked = None /\ args = None

Ask(op, a, b) ==
    /\ Fresh
    /\ op \in {"idiv", "shl", "shr"} => IsInt(a) /\ IsInt(b)
    /\ op \in {"lt", "le", "eq", "mod"} => a # None /\ b # None
    /\ asked' = [op |-> op, a |-> a, b |-> b] /\ res' = Operation(op, a, b)
    /\ UNCHANGED <<loop, args, var>>

For(init, limit, step) == Fresh /\ OP_FORPREP(init, limit, step) /\ UNCHANGED <<asked, res>>

\* Start again when an operation or a loop is over.
Over ==
    /\ asked # None \/ loop.pc \in {"done", "error"}
    /\ asked' = None /\ res' = None /\ args' = None /\ var' = None
    /\ loop' = Registers("none", None, None, None)

Next ==
    \/ /\ Fresh
       /\ \E op \in {"lt", "le", "eq", "mod", "idiv", "shl", "shr"}, a, b \in Numbers : Ask(op, a, b)
    \/ Fresh /\ \E init \in Numbers \ {None}, limit \in Numbers, step \in Steps : For(init, limit, step)
    \/ OP_FORLOOP
    \/ Over

Spec == Init /\ [][Next]_vars

(***************************************************************************)
(* The numbers themselves, whatever holds them.                             *)
(***************************************************************************)
Exact(v) == IF IsInt(v) THEN v.n * Unit ELSE v.n
Less(a, b) == a # NaN /\ b # NaN /\ Exact(a) < Exact(b)
Same(a, b) == a # NaN /\ b # NaN /\ Exact(a) = Exact(b)

(***************************************************************************)
(* Comparison is of the numbers, with no rounding, for an integer and a     *)
(* float too; with NaN nothing is less, equal or greater.                   *)
(***************************************************************************)
ComparesExactly ==
    asked # None =>
        /\ asked.op = "lt" => res = Less(asked.a, asked.b)
        /\ asked.op = "le" => res = (Less(asked.a, asked.b) \/ Same(asked.a, asked.b))
        /\ asked.op = "eq" => res = Same(asked.a, asked.b)

(***************************************************************************)
(* Integer division and modulus round down and wrap, with no exception but  *)
(* for zero; shifts by any integer drop what leaves the word.               *)
(***************************************************************************)
IntegersWrap ==
    asked # None /\ IsInt(asked.a) /\ IsInt(asked.b) =>
        LET a == asked.a.n
            b == asked.b.n
            q == IF b > 0 THEN a \div b ELSE (-a) \div (-b)
            left == IF b >= Word THEN 0 ELSE (AsUnsigned(a) * 2^b) % 2^Word
            right == IF b <= -Word THEN 0 ELSE AsUnsigned(a) \div 2^(-b)
        IN  /\ asked.op \in {"idiv", "mod"} /\ b = 0 => res = None
            /\ asked.op = "idiv" /\ b # 0 => res = Integer(Wrap(q))
            /\ asked.op = "mod" /\ b # 0 => res = Integer(a - b * q)
            /\ asked.op = "shl" => AsUnsigned(res.n) = IF b >= 0 THEN left ELSE right
            /\ asked.op = "shr" /\ b # MININTEGER =>
                    AsUnsigned(res.n) = IF b > 0 THEN IF b >= Word THEN 0 ELSE AsUnsigned(a) \div 2^b
                                        ELSE IF -b >= Word THEN 0 ELSE (AsUnsigned(a) * 2^(-b)) % 2^Word

(***************************************************************************)
(* The modulus of floats is a - floor(a/b)*b, rounded once (llimits.h:275), *)
(* when the product that tests its sign does not underflow.                 *)
(***************************************************************************)
Modulus(a, b) == LET q == IF b > 0 THEN a \div b ELSE (-a) \div (-b) IN a - b * q
FloatAsked ==
    /\ asked # None /\ asked.op = "mod" /\ (IsFlt(asked.a) \/ IsFlt(asked.b))
    /\ \A v \in {tonumber(asked.a), tonumber(asked.b)} : v # NaN /\ ~Infinite(v.n)
    /\ tonumber(asked.b).n # 0
FloatModulus == res = Float(Nearest(Modulus(tonumber(asked.a).n, tonumber(asked.b).n)))
FloatModWhenNormal ==
    FloatAsked /\ Abs(tonumber(asked.b).n) * 2 > Unit => FloatModulus

(***************************************************************************)
(* A for loop runs with the values that the manual's "while" gives its      *)
(* variable, compared exactly with the limit as it was given, although the  *)
(* limit was cut to an integer.  Loops with step 0 or a NaN are left out.   *)
(***************************************************************************)
Usual == args # None => args.step.n # 0 /\ NaN \notin {args.init, args.limit, args.step}
Bound == IF IsInt(var) THEN args.limit ELSE tonumber(args.limit)
Within == IF args.step.n > 0 THEN ~Less(Bound, var) ELSE ~Less(var, Bound)
LoopIsWhile ==
    Usual =>
        /\ loop.pc = "body" => loop.idx = var /\ (var # NaN => Within)
        /\ loop.pc = "done" => var = NaN \/ ~Within
=============================================================================

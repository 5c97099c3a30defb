---------------------------- MODULE AiluaNumbers ----------------------------
(***************************************************************************)
(* Numbers between Erlang and Lua: the number branches of erlang_to_lua    *)
(* and lua_to_erlang in c_src/ailua_coder.c, with the widths of their C    *)
(* types scaled down.  A float is given by its number of units (Floats).   *)
(***************************************************************************)
EXTENDS Floats

CONSTANTS
    IntBits,  \* bits of unsigned int (32)
    Epsilon,  \* 0.0000001, in units
    Terms,    \* the Erlang numbers a client sends
    LuaNumbers \* the numbers a script makes

Widths == 1 < IntBits /\ IntBits < Mantissa /\ Mantissa < Word - 1

VARIABLES term, lua, back, trips

vars == <<term, lua, back, trips>>

Integer(n) == [t |-> "int", n |-> n]
Float(u) == [t |-> "flt", n |-> u]
NaN == [t |-> "nan"]
Inf == [t |-> "inf"]
None == [t |-> "none"]
Refused == [t |-> "refused"]
Exception == [t |-> "exception"]

AsFloat(n) == Float(Nearest(n * Unit))

(* Signed and unsigned readings of the same bits.                          *)
AsUnsigned(n, bits) == n % 2^bits

InInt(n) == n \in -(2^(IntBits - 1))..(2^(IntBits - 1) - 1)
InUInt(n) == n \in 0..(2^IntBits - 1)
InInt64(n) == n \in -(2^(Word - 1))..(2^(Word - 1) - 1)
InUInt64(n) == n \in 0..(2^Word - 1)

\* Mutant: 64-bit integers are pushed as their low 32 bits.
erlang_to_lua_low(e) ==
    IF e.t = "flt" THEN e ELSE Integer(AsUnsigned(e.n, IntBits))

\* enif_get_int stores into an unsigned int; enif_get_ulong and
\* enif_get_uint64 accept the same integers.
erlang_to_lua(e) ==
    CASE e.t = "flt" -> e
      [] e.t = "int" /\ (InInt(e.n) \/ InUInt(e.n)) -> Integer(AsUnsigned(e.n, IntBits))
      [] e.t = "int" /\ ~InInt(e.n) /\ ~InUInt(e.n) ->
           IF InInt64(e.n) \/ InUInt64(e.n) THEN AsFloat(e.n) ELSE Refused

\* lua_tointeger: 0 unless the float is an integer that fits.
lua_tointeger(v) ==
    CASE v.t = "int" -> v.n
      [] v.t = "flt" -> IF v.n % Unit = 0 /\ InInt64(v.n \div Unit) THEN v.n \div Unit ELSE 0
      [] OTHER -> 0

lua_tonumber(v) == IF v.t = "int" THEN AsFloat(v.n) ELSE v

\* Not 'fabs(fabs(nv) - ui64) > 0.0000001'; the comparison with NaN is false.
HasIntegerValue(nv, ui64) ==
    CASE nv.t = "nan" -> TRUE
      [] nv.t = "inf" -> FALSE
      [] OTHER -> Abs(Nearest(Abs(nv.n) - Nearest(ui64 * Unit))) <= Epsilon

\* enif_make_double answers an exception for what is not finite.
lua_to_erlang(v) ==
    LET nv == lua_tonumber(v)
        i64 == lua_tointeger(v)
        ui64 == AsUnsigned(lua_tointeger(v), Word)
    IN  IF ~HasIntegerValue(nv, ui64) THEN IF nv.t = "flt" THEN nv ELSE Exception
        ELSE IF nv.t = "flt" /\ nv.n < 0 THEN Integer(i64) ELSE Integer(ui64)

-----------------------------------------------------------------------------
Init == term = None /\ lua = None /\ back = None /\ trips = 0

Send(e) ==
    /\ lua = None
    /\ term' = e
    /\ lua' = erlang_to_lua(e)
    /\ UNCHANGED <<back, trips>>

Make(v) ==
    /\ lua = None
    /\ lua' = v
    /\ UNCHANGED <<term, back, trips>>

\* A function returns the number it was given, or made.
Answer ==
    /\ lua \notin {None, Refused} /\ back = None
    /\ back' = lua_to_erlang(lua)
    /\ trips' = trips + 1
    /\ UNCHANGED <<term, lua>>

\* The client sends back what it got.
Resend ==
    /\ back.t \in {"int", "flt"} /\ trips = 1
    /\ term' = back
    /\ lua' = erlang_to_lua(back)
    /\ back' = None
    /\ UNCHANGED trips

Next ==
    \/ \E e \in Terms : Send(e)
    \/ \E v \in LuaNumbers : Make(v)
    \/ Answer
    \/ Resend

Spec == Init /\ [][Next]_vars

-----------------------------------------------------------------------------
\* A number's value in units.
Value(v) == IF v.t = "int" THEN v.n * Unit ELSE v.n

\* Every number that crosses has its type, and each side gets only numbers
\* that it has: lua_Integers and floats, and no Erlang term but a number.
TypeOK ==
    /\ lua.t = "int" => InInt64(lua.n)
    /\ lua.t = "flt" => Nearest(lua.n) = lua.n
    /\ back.t \in {"none", "int", "flt", "exception"}
    /\ trips \in 0..2

(* A non-negative integer comes back with its own value as long as a float  *)
(* can hold it, and within half a step of a float's precision beyond; it   *)
(* stays an integer up to half the range of a word.                        *)
NonNegativeKept ==
    (back # None /\ term.t = "int" /\ term.n >= 0) =>
        /\ Value(back) = IF InUInt(term.n) THEN Value(term) ELSE Nearest(Value(term))
        /\ Value(back) < Unit * 2^(Word - 1) => back.t = "int"

(* What Lua holds as a finite number comes back with its value, but for     *)
(* fractions up to Epsilon, which become 0; only infinities raise.         *)
LuaNumbersKept ==
    /\ (back # None /\ lua.t = "int") => Value(back) = (IF back.t = "int" THEN Value(lua) ELSE Nearest(Value(lua)))
    /\ (back # None /\ lua.t = "flt") =>
          Value(back) = (IF Abs(lua.n) <= Epsilon THEN 0 ELSE lua.n)
    /\ back = Exception <=> (back # None /\ lua = Inf)

(* Once a number has made the trip it does not change any more if a float   *)
(* can hold it, and else is the nearest float from then on.                *)
SecondTripSame == (trips = 2 /\ back # None) => Value(back) = Nearest(Value(term))

(* README.md:74-75 and the ranges in ailua_coder.c:48-49: an integer within *)
(* the 64-bit range is passed as it is.                                    *)
NegativeKept ==
    (lua # None /\ term.t = "int" /\ InInt(term.n)) => Value(lua) = Value(term)
=============================================================================

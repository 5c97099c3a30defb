------------------------------- MODULE Floats -------------------------------
(***************************************************************************)
(* Finite binary floating-point numbers, scaled down: a float is a whole   *)
(* number of units of 2^-Fraction with at most Mantissa significant bits.  *)
(***************************************************************************)
EXTENDS Integers

CONSTANTS
    Mantissa, \* significant bits of a double (53)
    Word,     \* bits of a lua_Integer (64)
    Fraction  \* bits after the point of the smallest float

Unit == 2^Fraction
Abs(n) == IF n < 0 THEN -n ELSE n

(* The nearest float, ties to even.                                        *)
Nearest(u) ==
    LET bits == CHOOSE k \in 0..(Word + Fraction + 2) :
                  2^k > Abs(u) /\ (k > 0 => 2^(k - 1) <= Abs(u))
        step == IF bits <= Mantissa THEN 1 ELSE 2^(bits - Mantissa)
        down == Abs(u) \div step
        rest == 2 * (Abs(u) % step)
        near == IF rest > step \/ (rest = step /\ down % 2 = 1) THEN down + 1 ELSE down
    IN  IF u < 0 THEN -(near * step) ELSE near * step
=============================================================================

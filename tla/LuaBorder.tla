----------------------------- MODULE LuaBorder ------------------------------
(***************************************************************************)
(* The length of a Lua table (luaH_getn of c_src/3rd/lua/ltable.c): some   *)
(* border, an index that is present (or 0) whose successor is not.         *)
(***************************************************************************)
EXTENDS Naturals

CONSTANT MaxInteger \* LUA_MAXINTEGER

(* Halving between a present index (or 0) i and an absent index j.         *)
Between(present, lo, hi) ==
    LET between[i \in Nat, j \in Nat] ==
          IF j - i <= 1 THEN i
          ELSE IF (i + j) \div 2 \in present
               THEN between[(i + j) \div 2, j]
               ELSE between[i, (i + j) \div 2]
    IN  between[lo, hi]

\* 'i = 1; while (t[i] is not nil) i++; return i - 1'
Linear(present) ==
    LET linear[i \in Nat] == IF i \in present THEN linear[i + 1] ELSE i - 1
    IN  linear[1]

\* Doubling from a present index (or 0), until an index is absent.
UnboundSearch(present, start) ==
    LET search[i \in Nat, j \in Nat] ==
          IF j \notin present THEN Between(present, i, j)
          ELSE IF j > MaxInteger \div 2 THEN Linear(present)
          ELSE search[j, 2 * j]
    IN  search[start, start + 1]

(* present: the positive integer keys whose value is not nil; size: of the *)
(* array part; noHash: the hash part is the dummy node.                    *)
Border(present, size, noHash) ==
    IF size > 0 /\ size \notin present THEN Between(present, 0, size)
    ELSE IF noHash THEN size
    ELSE UnboundSearch(present, size)
=============================================================================

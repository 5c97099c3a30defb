------------------------------- MODULE LuaSort ------------------------------
(***************************************************************************)
(* table.sort (ltablib.c:224-425): quicksort with the median of three, a   *)
(* loop for the larger interval and a call for the smaller one.  A step is *)
(* one comparison, which may call an order function of the program: what   *)
(* it answers is any element of Answers, so that functions which are no    *)
(* order at all are covered.                                               *)
(***************************************************************************)
EXTENDS Integers, Sequences, FiniteSets

CONSTANTS
    Value,     \* what arrays hold
    Arrays,    \* bound: the arrays that are sorted
    Answers,   \* Answers[x, y] \subseteq BOOLEAN: what sort_comp may say to x < y
    RANLIMIT,  \* intervals from this size may have a random pivot
    IMBALANCE  \* the quotient of sizes that is too imbalanced, 128 in the code

SortAssumption ==
    /\ Arrays \subseteq Seq(Value)
    /\ Answers \in [Value \X Value -> (SUBSET BOOLEAN) \ {{}}]
    /\ RANLIMIT \in Nat /\ RANLIMIT >= 4 \* or choosePivot divides by zero
    /\ IMBALANCE \in Nat \ {0}

VARIABLES
    input,  \* the array that was given
    a,      \* the array
    lo, up, \* the interval of the running auxsort
    calls,  \* the intervals that callers of auxsort go on with
    pc,     \* the comparison to come
    p, i, j, P,
    random  \* rnd was drawn, and may still be 0

vars == <<input, a, lo, up, calls, pc, p, i, j, P, random>>

N == Len(input)
Elem == {input[k] : k \in 1..N} \* what this array holds
Swapped(x, y) == [a EXCEPT ![x] = a[y], ![y] = a[x]]

sort_comp(x, y, answer) == answer \in Answers[x, y]

-----------------------------------------------------------------------------
Init ==
    /\ input \in Arrays /\ a = input
    /\ lo = 1 /\ up = N /\ calls = <<>>
    /\ pc = IF N > 1 THEN "ends" ELSE "done"
    /\ p = 0 /\ i = 0 /\ j = 0 /\ P = IF N = 0 THEN 0 ELSE a[1]
    /\ random = FALSE

\* The interval is sorted: the loop of a caller goes on, of the last one
\* whose interval has more than one element.
Return ==
    \E k \in 0..Len(calls) :
      /\ \A m \in k + 1..Len(calls) : calls[m][1] >= calls[m][2]
      /\ \/ /\ k = 0
            /\ pc' = "done" /\ calls' = <<>> /\ UNCHANGED <<lo, up, random>>
         \/ /\ k > 0 /\ calls[k][1] < calls[k][2]
            /\ pc' = "ends" /\ lo' = calls[k][1] /\ up' = calls[k][2]
            /\ random' = calls[k][3]
            /\ calls' = SubSeq(calls, 1, k - 1)

choosePivot(r4) == lo + r4..lo + 3 * r4 - 1

\* a[up] < a[lo]
Ends ==
    /\ pc = "ends"
    /\ \E less \in BOOLEAN :
         /\ sort_comp(a[up], a[lo], less)
         /\ a' = IF less THEN Swapped(lo, up) ELSE a
    /\ IF up - lo = 1 THEN Return /\ p' = p
       ELSE /\ \/ p' = (lo + up) \div 2
               \/ up - lo >= RANLIMIT /\ random /\ p' \in choosePivot((up - lo) \div 4)
            /\ pc' = "low" /\ UNCHANGED <<lo, up, calls, random>>
    /\ UNCHANGED <<input, i, j, P>>

\* The pivot goes to up - 1, unless these are all elements.
StartPartition(b) ==
    IF up - lo = 2 THEN Return /\ a' = b /\ UNCHANGED <<i, j, P>>
    ELSE /\ P' = b[p] /\ a' = [b EXCEPT ![p] = b[up - 1], ![up - 1] = b[p]]
         /\ i' = lo /\ j' = up - 1
         /\ pc' = "up" /\ UNCHANGED <<lo, up, calls, random>>

\* a[p] < a[lo]
Low ==
    /\ pc = "low"
    /\ \/ sort_comp(a[p], a[lo], TRUE) /\ StartPartition(Swapped(p, lo))
       \/ /\ sort_comp(a[p], a[lo], FALSE)
          /\ pc' = "high" /\ UNCHANGED <<a, lo, up, calls, i, j, P, random>>
    /\ UNCHANGED <<input, p>>

\* Mutant: the pivot is not compared with the upper end.
High_skipped ==
    /\ pc = "high" /\ StartPartition(a)
    /\ UNCHANGED <<input, p>>

\* a[up] < a[p]
High ==
    /\ pc = "high"
    /\ \E less \in BOOLEAN :
         /\ sort_comp(a[up], a[p], less)
         /\ StartPartition(IF less THEN Swapped(p, up) ELSE a)
    /\ UNCHANGED <<input, p>>

\* Mutant: no check that the pivot stops the search.
Up_unchecked ==
    /\ pc = "up" /\ i' = i + 1
    /\ \/ sort_comp(a[i + 1], P, TRUE) /\ pc' = pc
       \/ sort_comp(a[i + 1], P, FALSE) /\ pc' = "down"
    /\ UNCHANGED <<input, a, lo, up, calls, p, j, P, random>>

\* partition, first search: a[++i] < P
Up ==
    /\ pc = "up" /\ i' = i + 1
    /\ \/ sort_comp(a[i + 1], P, TRUE) /\ pc' = IF i + 1 = up - 1 THEN "error" ELSE pc
       \/ sort_comp(a[i + 1], P, FALSE) /\ pc' = "down"
    /\ UNCHANGED <<input, a, lo, up, calls, p, j, P, random>>

\* The smaller interval is sorted by a call, with this rnd; then the loop
\* goes on with the larger one, with a new rnd if that is much larger.
Split(m) ==
    IF m - lo < up - m
    THEN /\ calls' = Append(calls, <<m + 1, up, random \/ (up - m - 1) \div IMBALANCE > m - lo>>)
         /\ lo' = lo /\ up' = m - 1
    ELSE /\ calls' = Append(calls, <<lo, m - 1, random \/ (m - 1 - lo) \div IMBALANCE > up - m>>)
         /\ lo' = m + 1 /\ up' = up

\* Second search: P < a[--j].  Where the two meet, the pivot is put.
Down ==
    /\ pc = "down" /\ j' = j - 1
    /\ \/ /\ sort_comp(P, a[j - 1], TRUE)
          /\ pc' = IF j - 1 < i THEN "error" ELSE pc
          /\ UNCHANGED <<a, lo, up, calls, p, random>>
       \/ /\ sort_comp(P, a[j - 1], FALSE) /\ j - 1 < i
          /\ a' = [a EXCEPT ![up - 1] = a[i], ![i] = P] /\ p' = i
          /\ Split(i) /\ pc' = "next" /\ random' = random
       \/ /\ sort_comp(P, a[j - 1], FALSE) /\ j - 1 >= i
          /\ a' = Swapped(i, j - 1)
          /\ pc' = "up" /\ UNCHANGED <<lo, up, calls, p, random>>
    /\ UNCHANGED <<input, i, P>>

\* The call of auxsort for the smaller interval.
Call ==
    /\ pc = "next"
    /\ IF lo < up THEN pc' = "ends" /\ UNCHANGED <<lo, up, calls, random>> ELSE Return
    /\ UNCHANGED <<input, a, p, i, j, P>>

Next == Ends \/ Low \/ High \/ Up \/ Down \/ Call
Spec == Init /\ [][Next]_vars

-----------------------------------------------------------------------------
\* The answers are those of a strict weak order of these elements.
Ordered ==
    /\ \A x, y \in Elem : Cardinality(Answers[x, y]) = 1
    /\ LET less(x, y) == Answers[x, y] = {TRUE}
       IN  \A x, y, z \in Elem :
             /\ less(x, y) => ~less(y, x)
             /\ less(x, y) => less(x, z) \/ less(z, y)
NotBefore(x, y) == Answers[x, y] = {FALSE}

TypeOK ==
    /\ input \in Arrays /\ a \in [1..N -> Elem]
    /\ lo \in 1..N + 1 /\ up \in 0..N
    /\ calls \in Seq((1..N + 1) \X (0..N) \X BOOLEAN)
    /\ pc \in {"ends", "low", "high", "up", "down", "next", "done", "error"}
    /\ p \in 0..N /\ (N > 0 => P \in Elem) /\ random \in BOOLEAN

(* Whatever the order function says, and at whatever comparison it raises   *)
(* an error: the array holds what it held before, in some order.           *)
StaysPermutation ==
    \A e \in Elem :
      Cardinality({k \in 1..N : a[k] = e}) = Cardinality({k \in 1..N : input[k] = e})

(* Whatever the order function says, only elements of the interval are read *)
(* and written, and the unsigned indices never go below it.                *)
InsideInterval ==
    /\ pc \in {"ends", "low", "high", "up", "down"} => 1 <= lo /\ lo < up /\ up <= N
    /\ pc \in {"low", "high"} => lo < p /\ p < up
    /\ pc = "up" => i + 1 \in lo + 1..up - 1 /\ a[up - 1] = P
    /\ pc = "down" => i \in lo + 1..up - 1 /\ j - 1 \in lo..up - 2 /\ a[up - 1] = P

(* ltablib.c:313: a[lo .. i] <= P <= a[j .. up], for an order.             *)
PartitionInvariant ==
    Ordered /\ pc \in {"up", "down"} =>
      /\ \A k \in lo..IF pc = "up" THEN i ELSE i - 1 : NotBefore(P, a[k])
      /\ \A k \in j..up : NotBefore(a[k], P)

(* An order function that is an order is never refused, and in the end the  *)
(* array is sorted.                                                        *)
SortsOrdered ==
    Ordered => /\ pc # "error"
               /\ pc = "done" => \A k \in 1..N - 1 : NotBefore(a[k + 1], a[k])

(* auxsort calls itself for the smaller part: all that the calls within an  *)
(* interval's call sort lies on one side of what the caller goes on with,   *)
(* in an interval that is not longer.  So the calls are log N deep at most. *)
Beside(c, l, u) ==
    LET size == c[2] - c[1]
    IN  \/ c[1] - 2 - size <= l /\ u <= c[1] - 2
        \/ c[2] + 2 <= l /\ u <= c[2] + 2 + size
SmallerIsCalled ==
    \A k \in 1..Len(calls) :
      /\ Beside(calls[k], lo, up)
      /\ \A m \in k + 1..Len(calls) : Beside(calls[k], calls[m][1], calls[m][2])

(* What sorting never does, whatever the order, the array and their sizes.  *)
SortsSafely ==
    StaysPermutation /\ InsideInterval /\ SmallerIsCalled /\ PartitionInvariant /\ SortsOrdered
=============================================================================

---------------------------- MODULE LuaSortProofs ---------------------------
(***************************************************************************)
(* Proofs about table.sort (LuaSort), for arrays of every length, elements *)
(* of every kind and order functions that answer anything: the array stays *)
(* a permutation, and no index leaves the interval.  For an order function *)
(* that is a strict weak order: it is never refused, and the array is      *)
(* sorted in the end.  The inductive invariant says of every two positions *)
(* that they are in order or wait together in an interval still to sort.   *)
(***************************************************************************)
EXTENDS LuaSort, TLAPS, FiniteSetTheorems, SequenceTheorems

Interval == (1..N + 1) \X (0..N) \X BOOLEAN

\* How many times e is in the first n elements of b.
Count(n, b, e) == Cardinality({k \in 1..n : b[k] = e})

\* Only l..u changed from b to c, and holds what it held.
Rearranged(n, b, c, l, u) ==
    /\ c \in [1..n -> Elem]
    /\ \A x \in 1..n : x < l \/ u < x => c[x] = b[x]
    /\ \A x \in l..u : \E y \in l..u : c[x] = b[y]
    /\ \A e \in Elem : Count(n, c, e) = Count(n, b, e)

Exchanged(b, x, y) == [b EXCEPT ![x] = b[y], ![y] = b[x]]

\* Two positions are in order, or in one interval that is still to be sorted.
Within(c, x, y) == c[1] <= x /\ y <= c[2]
SortedFor(n, b, cs, l, u) ==
    \A x, y \in 1..n : x < y =>
      \/ l <= x /\ y <= u
      \/ \E k \in 1..Len(cs) : Within(cs[k], x, y)
      \/ NotBefore(b[y], b[x])

\* No position is in two of these intervals.
DisjointFor(n, cs, l, u) ==
    /\ \A k \in 1..Len(cs) : \A x \in 1..n : ~(l <= x /\ x <= u /\ Within(cs[k], x, x))
    /\ \A k, m \in 1..Len(cs) : \A x \in 1..n :
         k # m => ~(Within(cs[k], x, x) /\ Within(cs[m], x, x))

-----------------------------------------------------------------------------
(* The inductive invariant: where the indices are, *)
IndexInv ==
    /\ TypeOK /\ InsideInterval
    /\ i \in Int /\ j \in Int
    /\ pc = "up" => j \in lo + 1..up - 1

(* and, with an order, what is sorted already.                              *)
OrderInv ==
    Ordered =>
      /\ pc # "error"
      /\ pc # "done" => SortedFor(N, a, calls, lo, up) /\ DisjointFor(N, calls, lo, up)
      /\ pc = "done" => \A x, y \in 1..N : x < y => NotBefore(a[y], a[x])
      /\ pc \in {"low", "high"} => NotBefore(a[up], a[lo])
      /\ pc = "high" => NotBefore(a[p], a[lo])
      /\ pc = "down" => NotBefore(a[i], P)

SortInv == IndexInv /\ StaysPermutation /\ SmallerIsCalled /\ OrderInv /\ PartitionInvariant

-----------------------------------------------------------------------------
(* An order that is one answers once, never x < y and y < x, and "not       *)
(* before" is reflexive and transitive.                                    *)
LEMMA OrderFacts ==
    ASSUME SortAssumption, Ordered, Elem \subseteq Value
    PROVE  /\ \A x \in Elem : NotBefore(x, x)
           /\ \A x, y \in Elem : sort_comp(x, y, TRUE) => NotBefore(y, x)
           /\ \A x, y \in Elem : sort_comp(x, y, FALSE) => NotBefore(x, y)
           /\ \A x, y \in Elem : ~(sort_comp(x, y, TRUE) /\ NotBefore(x, y))
           /\ \A x, y, z \in Elem : NotBefore(x, y) /\ NotBefore(y, z) => NotBefore(x, z)
<1> DEFINE less(x, y) == Answers[x, y] = {TRUE}
<1>1. ASSUME NEW x \in Elem, NEW y \in Elem
      PROVE  Answers[x, y] = {TRUE} \/ Answers[x, y] = {FALSE}
  <2>1. Answers[x, y] \in SUBSET BOOLEAN /\ Answers[x, y] # {}
    <3>1. x \in Value /\ y \in Value
      OBVIOUS
    <3> QED BY <3>1 DEF SortAssumption
  <2>2. Cardinality(Answers[x, y]) = 1
    BY DEF Ordered
  <2>3. IsFiniteSet({TRUE, FALSE})
    <3>1. IsFiniteSet({FALSE})
      BY FS_Singleton
    <3>2. IsFiniteSet({FALSE} \cup {TRUE})
      BY <3>1, FS_AddElement
    <3>3. {FALSE} \cup {TRUE} = {TRUE, FALSE}
      OBVIOUS
    <3> QED BY <3>2, <3>3
  <2>4. IsFiniteSet(Answers[x, y])
    BY <2>1, <2>3, FS_Subset, BOOLEAN = {TRUE, FALSE}
  <2>5. PICK z : Answers[x, y] = {z}
    BY <2>2, <2>4, FS_Singleton
  <2> QED BY <2>1, <2>5
<1>2. \A x, y, z \in Elem : (less(x, y) => ~less(y, x)) /\ (less(x, y) => less(x, z) \/ less(z, y))
  BY DEF Ordered
<1>3. TRUE # FALSE /\ {TRUE} # {FALSE}
  OBVIOUS
<1>4. \A x \in Elem : NotBefore(x, x)
  BY <1>1, <1>2 DEF NotBefore
<1>5. \A x, y \in Elem : sort_comp(x, y, TRUE) => less(x, y)
  BY <1>1 DEF sort_comp
<1>6. \A x, y \in Elem : sort_comp(x, y, FALSE) => NotBefore(x, y)
  BY <1>1 DEF sort_comp, NotBefore
<1>7. \A x, y \in Elem : less(x, y) \/ NotBefore(x, y)
  BY <1>1 DEF NotBefore
<1>8. \A x, y \in Elem : ~(less(x, y) /\ NotBefore(x, y))
  BY <1>3 DEF NotBefore
<1> HIDE DEF less
<1> QED BY <1>2, <1>4, <1>5, <1>6, <1>7, <1>8

(* What one answer says, without the transitivity of the order.             *)
LEMMA Answered ==
    ASSUME SortAssumption, Ordered, Elem \subseteq Value, NEW x \in Elem, NEW y \in Elem
    PROVE  /\ sort_comp(x, y, TRUE) => NotBefore(y, x) /\ ~NotBefore(x, y)
           /\ sort_comp(x, y, FALSE) => NotBefore(x, y)
           /\ NotBefore(x, x)
  BY OrderFacts

LEMMA Chained ==
    ASSUME SortAssumption, Ordered, Elem \subseteq Value,
           NEW x \in Elem, NEW y \in Elem, NEW z \in Elem, NotBefore(x, y), NotBefore(y, z)
    PROVE  NotBefore(x, z)
  BY OrderFacts

-----------------------------------------------------------------------------
(* Exchanging two elements changes how often nothing occurs.                *)
LEMMA Exchanges ==
    ASSUME NEW n \in Nat, NEW b \in [1..n -> Elem], NEW x \in 1..n, NEW y \in 1..n
    PROVE  /\ Exchanged(b, x, y) \in [1..n -> Elem]
           /\ \A k \in 1..n : Exchanged(b, x, y)[k] = IF k = x THEN b[y] ELSE IF k = y THEN b[x] ELSE b[k]
           /\ \A e \in Elem : Count(n, Exchanged(b, x, y), e) = Count(n, b, e)
<1> DEFINE c == Exchanged(b, x, y)
<1>1. c \in [1..n -> Elem]
  BY DEF Exchanged
<1>2. \A k \in 1..n : c[k] = IF k = x THEN b[y] ELSE IF k = y THEN b[x] ELSE b[k]
  BY DEF Exchanged
<1>3. ASSUME NEW e \in Elem
      PROVE  Count(n, c, e) = Count(n, b, e)
  <2> DEFINE S == {k \in 1..n : b[k] = e}
             T == {k \in 1..n : c[k] = e}
             g == [k \in S |-> IF k = x THEN y ELSE IF k = y THEN x ELSE k]
  <2> HIDE DEF c
  <2>1. IsFiniteSet(S)
    BY FS_Interval, FS_Subset, S \in SUBSET (1..n)
  <2>2. g \in [S -> T]
    BY <1>2
  <2>3. \A k, m \in S : g[k] = g[m] => k = m
    OBVIOUS
  <2>4. \A m \in T : \E k \in S : g[k] = m
    <3> TAKE m \in T
    <3> DEFINE k == IF m = x THEN y ELSE IF m = y THEN x ELSE m
    <3>1. k \in S /\ g[k] = m
      BY <1>2
    <3> QED BY <3>1
  <2>5. g \in Bijection(S, T)
    <3> HIDE DEF g, S, T
    <3>1. g \in Injection(S, T)
      BY <2>2, <2>3 DEF Injection, IsInjective
    <3>2. g \in Surjection(S, T)
      BY <2>2, <2>4 DEF Surjection
    <3> QED BY <3>1, <3>2 DEF Bijection
  <2>6. ExistsBijection(S, T)
    BY <2>5 DEF ExistsBijection
  <2>7. Cardinality(T) = Cardinality(S)
    BY ONLY <2>1, <2>6, FS_Bijection
  <2> QED BY <2>7 DEF Count
<1> QED BY <1>1, <1>2, <1>3 DEF c

(* An exchange rearranges an interval both are in; to rearrange is reflexive *)
(* and transitive.                                                          *)
LEMMA ExchangeRearranges ==
    ASSUME NEW n \in Nat, NEW b \in [1..n -> Elem], NEW l \in 1..n, NEW u \in 1..n,
           NEW x \in l..u, NEW y \in l..u
    PROVE  Rearranged(n, b, Exchanged(b, x, y), l, u)
<1>1. x \in 1..n /\ y \in 1..n /\ l..u \subseteq 1..n
  OBVIOUS
<1> DEFINE c == Exchanged(b, x, y)
<1>2. /\ c \in [1..n -> Elem]
      /\ \A k \in 1..n : c[k] = IF k = x THEN b[y] ELSE IF k = y THEN b[x] ELSE b[k]
      /\ \A e \in Elem : Count(n, c, e) = Count(n, b, e)
  BY <1>1, Exchanges
<1> HIDE DEF c
<1>3. \A k \in 1..n : k < l \/ u < k => c[k] = b[k]
  BY <1>2
<1>4. \A k \in l..u : \E m \in l..u : c[k] = b[m]
  BY <1>1, <1>2
<1>5. Rearranged(n, b, c, l, u)
  BY <1>2, <1>3, <1>4 DEF Rearranged
<1> QED BY <1>5 DEF c

LEMMA RearrangedSame ==
    ASSUME NEW n \in Nat, NEW b \in [1..n -> Elem], NEW l, NEW u
    PROVE  Rearranged(n, b, b, l, u)
BY DEF Rearranged

LEMMA RearrangedTwice ==
    ASSUME NEW n \in Nat, NEW b, NEW c, NEW d, NEW l, NEW u,
           Rearranged(n, b, c, l, u), Rearranged(n, c, d, l, u)
    PROVE  Rearranged(n, b, d, l, u)
<1>1. \A x \in l..u : \E y \in l..u : d[x] = b[y]
  <2> TAKE x \in l..u
  <2>1. PICK y \in l..u : d[x] = c[y]
    BY DEF Rearranged
  <2> QED BY <2>1 DEF Rearranged
<1> QED BY <1>1 DEF Rearranged

-----------------------------------------------------------------------------
(* Where a caller goes on, the types are kept and its interval has elements *)
(* to sort.                                                                 *)
LEMMA ReturnIndices ==
    ASSUME N \in Nat, calls \in Seq(Interval), lo \in 1..N + 1, up \in 0..N, random \in BOOLEAN, Return
    PROVE  /\ calls' \in Seq(Interval) /\ lo' \in 1..N + 1 /\ up' \in 0..N /\ random' \in BOOLEAN
           /\ pc' \in {"ends", "done"}
           /\ pc' = "ends" => lo' < up'
<1>1. PICK k \in 0..Len(calls) :
        \/ k = 0 /\ pc' = "done" /\ calls' = <<>> /\ UNCHANGED <<lo, up, random>>
        \/ /\ k > 0 /\ calls[k][1] < calls[k][2]
           /\ pc' = "ends" /\ lo' = calls[k][1] /\ up' = calls[k][2]
           /\ random' = calls[k][3]
           /\ calls' = SubSeq(calls, 1, k - 1)
  BY DEF Return
<1>2. Len(calls) \in Nat
  BY LenProperties
<1>3. CASE k = 0
  BY <1>1, <1>3, EmptySeq
<1>4. CASE k > 0
  <2>1. k \in 1..Len(calls)
    BY <1>2, <1>4
  <2>2. calls[k] \in Interval
    BY <2>1, ElementOfSeq
  <2>3. SubSeq(calls, 1, k - 1) \in Seq(Interval)
    BY <2>1, <1>2, SubSeqProperties
  <2>4. calls[k][1] \in 1..N + 1 /\ calls[k][2] \in 0..N
    BY <2>2 DEF Interval
  <2>5. calls[k][3] \in BOOLEAN
    BY ONLY <2>2, Zenon DEF Interval
  <2>6. k # 0
    BY <1>4
  <2>7. /\ pc' = "ends" /\ lo' = calls[k][1] /\ up' = calls[k][2] /\ random' = calls[k][3]
        /\ calls[k][1] < calls[k][2]
        /\ calls' = SubSeq(calls, 1, k - 1)
    BY ONLY <1>1, <2>6, Zenon
  <2>8. random' \in BOOLEAN
    BY ONLY <2>5, <2>7, Zenon
  <2> QED BY <2>3, <2>4, <2>7, <2>8, Zenon
<1> QED BY <1>3, <1>4

(* Where a caller goes on after its interval was sorted, all else that is   *)
(* not in order waits as before.                                           *)
LEMMA ReturnSorted ==
    ASSUME N \in Nat, calls \in Seq(Interval), lo \in 1..N + 1, up \in 0..N, Return, NEW b,
           SortedFor(N, b, calls, lo, up), DisjointFor(N, calls, lo, up),
           \A x, y \in 1..N : lo <= x /\ x < y /\ y <= up => NotBefore(b[y], b[x])
    PROVE  /\ pc' = "done" => \A x, y \in 1..N : x < y => NotBefore(b[y], b[x])
           /\ pc' # "done" => SortedFor(N, b, calls', lo', up') /\ DisjointFor(N, calls', lo', up')
<1>1. PICK k \in 0..Len(calls) :
        /\ \A m \in k + 1..Len(calls) : calls[m][1] >= calls[m][2]
        /\ \/ k = 0 /\ pc' = "done"
           \/ /\ k > 0 /\ pc' = "ends" /\ lo' = calls[k][1] /\ up' = calls[k][2]
              /\ calls' = SubSeq(calls, 1, k - 1)
  BY DEF Return
<1>2. Len(calls) \in Nat /\ \A m \in 1..Len(calls) : calls[m][1] \in Int /\ calls[m][2] \in Int
  BY LenProperties, ElementOfSeq DEF Interval
\* what is not in order waits in one of the intervals 1..k
<1>3. \A x, y \in 1..N : x < y =>
        \/ \E m \in 1..k : Within(calls[m], x, y)
        \/ NotBefore(b[y], b[x])
  <2> SUFFICES ASSUME NEW x \in 1..N, NEW y \in 1..N, x < y, ~NotBefore(b[y], b[x])
               PROVE  \E m \in 1..k : Within(calls[m], x, y)
    OBVIOUS
  <2>1. PICK m \in 1..Len(calls) : Within(calls[m], x, y)
    BY DEF SortedFor
  <2>2. calls[m][1] < calls[m][2]
    BY <1>2, <2>1 DEF Within
  <2>3. ~(m \in k + 1..Len(calls))
    BY <1>1, <1>2, <2>2
  <2>4. m \in 1..k
    BY <1>2, <2>3
  <2> QED BY <2>1, <2>4
<1>4. CASE k = 0
  BY <1>1, <1>3, <1>4
<1>5. CASE k > 0
  <2>1. pc' = "ends" /\ lo' = calls[k][1] /\ up' = calls[k][2] /\ calls' = SubSeq(calls, 1, k - 1)
    BY <1>1, <1>5
  <2>2. Len(calls') = k - 1 /\ \A m \in 1..k - 1 : calls'[m] = calls[m]
    BY <1>2, <1>5, <2>1, SubSeqProperties
  <2>3. SortedFor(N, b, calls', lo', up')
    <3> SUFFICES ASSUME NEW x \in 1..N, NEW y \in 1..N, x < y, ~NotBefore(b[y], b[x])
                 PROVE  \/ lo' <= x /\ y <= up'
                        \/ \E m \in 1..Len(calls') : Within(calls'[m], x, y)
      BY DEF SortedFor
    <3>1. PICK m \in 1..k : Within(calls[m], x, y)
      BY <1>3
    <3>2. CASE m = k
      BY <2>1, <3>1, <3>2 DEF Within
    <3>3. CASE m \in 1..k - 1
      BY <2>2, <3>1, <3>3
    <3> QED BY <1>5, <3>2, <3>3
  <2>4. DisjointFor(N, calls', lo', up')
    <3>1. \A m \in 1..Len(calls') : m \in 1..Len(calls) /\ m # k /\ calls'[m] = calls[m]
      BY <1>2, <1>5, <2>2
    <3>2. \A m \in 1..Len(calls') : \A x \in 1..N : ~(lo' <= x /\ x <= up' /\ Within(calls'[m], x, x))
      BY <1>2, <1>5, <2>1, <3>1 DEF DisjointFor, Within
    <3>3. \A m, q \in 1..Len(calls') : \A x \in 1..N :
            m # q => ~(Within(calls'[m], x, x) /\ Within(calls'[q], x, x))
      BY <3>1 DEF DisjointFor
    <3> QED BY <3>2, <3>3 DEF DisjointFor
  <2> QED BY <2>1, <2>3, <2>4
<1> QED BY <1>4, <1>5

-----------------------------------------------------------------------------
(* What the indices' invariant says of each variable.                       *)
LEMMA InputElements ==
    ASSUME SortAssumption, input \in Arrays
    PROVE  N \in Nat /\ input \in [1..N -> Elem] /\ Elem \subseteq Value
<1>1. input \in Seq(Value)
  BY DEF SortAssumption
<1>2. N \in Nat /\ input \in [1..N -> Value]
  BY <1>1, LenProperties DEF N
<1>3. \A k \in 1..N : input[k] \in Elem
  BY DEF Elem
<1>4. \A e \in Elem : e \in Value
  BY <1>2 DEF Elem
<1> QED BY <1>2, <1>3, <1>4

LEMMA Indices ==
    ASSUME SortAssumption, IndexInv
    PROVE  /\ N \in Nat /\ input \in [1..N -> Elem] /\ a \in [1..N -> Elem] /\ Elem \subseteq Value
           /\ lo \in 1..N + 1 /\ up \in 0..N /\ calls \in Seq(Interval) /\ random \in BOOLEAN
           /\ p \in 0..N /\ i \in Int /\ j \in Int /\ (N > 0 => P \in Elem)
<1>1. input \in Arrays
  BY DEF IndexInv, TypeOK
<1> QED BY <1>1, InputElements, Zenon DEF IndexInv, TypeOK, Interval

LEMMA Shifted ==
    ASSUME NEW x \in Int, NEW l \in Int, NEW u \in Int
    PROVE  (x \in l..u - 2 => x + 1 \in l + 1..u - 1) /\ (x \in l + 1..u - 1 => x - 1 \in l..u - 2)
OBVIOUS

(* And what is to be shown for it after a step that leaves the input alone. *)
LEMMA IndicesNext ==
    ASSUME N \in Nat, input \in Arrays, input' = input,
           a' \in [1..N -> Elem], lo' \in 1..N + 1, up' \in 0..N, calls' \in Seq(Interval),
           random' \in BOOLEAN, p' \in 0..N, i' \in Int, j' \in Int, N > 0 => P' \in Elem,
           pc' \in {"ends", "low", "high", "up", "down", "next", "done", "error"},
           pc' \in {"ends", "low", "high", "up", "down"} => lo' < up',
           pc' \in {"low", "high"} => lo' < p' /\ p' < up',
           pc' = "up" => i' \in lo'..up' - 2 /\ j' \in lo' + 1..up' - 1 /\ a'[up' - 1] = P',
           pc' = "down" => i' \in lo' + 1..up' - 1 /\ j' \in lo' + 1..up' - 1 /\ a'[up' - 1] = P'
    PROVE  IndexInv'
<1>1. N' = N /\ Elem' = Elem
  BY DEF N, Elem
<1>2. TypeOK'
  BY <1>1, Zenon DEF TypeOK, Interval
<1>3. InsideInterval'
  <2>1. pc' \in {"ends", "low", "high", "up", "down"} => 1 <= lo' /\ lo' < up' /\ up' <= N'
    BY <1>1
  <2> /\ lo' \in Int /\ up' \in Int /\ i' \in Int /\ j' \in Int
    OBVIOUS
  <2>2. ASSUME pc' = "up" PROVE i' + 1 \in lo' + 1..up' - 1 /\ a'[up' - 1] = P'
    <3>1. i' \in lo'..up' - 2
      BY <2>2, Zenon
    <3>2. i' + 1 \in lo' + 1..up' - 1
      BY ONLY <3>1, Shifted, lo' \in Int /\ up' \in Int /\ i' \in Int, Zenon
    <3> QED BY <2>2, <3>2, Zenon
  <2>3. ASSUME pc' = "down" PROVE i' \in lo' + 1..up' - 1 /\ j' - 1 \in lo'..up' - 2 /\ a'[up' - 1] = P'
    <3>1. j' \in lo' + 1..up' - 1
      BY <2>3, Zenon
    <3>2. j' - 1 \in lo'..up' - 2
      BY ONLY <3>1, Shifted, lo' \in Int /\ up' \in Int /\ j' \in Int, Zenon
    <3> QED BY <2>3, <3>2, Zenon
  <2> QED BY ONLY <2>1, <2>2, <2>3, pc' \in {"low", "high"} => lo' < p' /\ p' < up', Zenon DEF InsideInterval
<1>4. i' \in Int /\ j' \in Int /\ (pc' = "up" => j' \in lo' + 1..up' - 1)
  OBVIOUS
<1> QED BY <1>2, <1>3, <1>4 DEF IndexInv

-----------------------------------------------------------------------------
(* Every action keeps the indices inside and rearranges its interval only.  *)
LEMMA EndsIndices ==
    ASSUME SortAssumption, IndexInv, Ends
    PROVE  IndexInv' /\ Rearranged(N, a, a', lo, up)
<1>1. /\ N \in Nat /\ a \in [1..N -> Elem]
      /\ lo \in 1..N + 1 /\ up \in 0..N /\ calls \in Seq(Interval) /\ random \in BOOLEAN
      /\ p \in 0..N /\ i \in Int /\ j \in Int /\ (N > 0 => P \in Elem)
  BY Indices
<1>2. /\ pc = "ends" /\ input' = input /\ i' = i /\ j' = j /\ P' = P
      /\ a' = Exchanged(a, lo, up) \/ a' = a
  BY DEF Ends, Swapped, Exchanged
<1>3. lo < up /\ input \in Arrays /\ lo \in 1..N /\ up \in 1..N /\ N > 0
  BY <1>1, <1>2 DEF IndexInv, InsideInterval, TypeOK
<1>4. Rearranged(N, a, a', lo, up)
  <2>1. lo \in lo..up /\ up \in lo..up
    BY <1>1, <1>3
  <2> QED BY ONLY <1>1, <1>2, <1>3, <2>1, ExchangeRearranges, RearrangedSame
<1>5. a' \in [1..N -> Elem]
  BY <1>4 DEF Rearranged
<1>6. CASE up - lo = 1
  <2>1. Return /\ p' = p
    BY <1>6 DEF Ends
  <2>2. /\ calls' \in Seq(Interval) /\ lo' \in 1..N + 1 /\ up' \in 0..N /\ random' \in BOOLEAN
        /\ pc' \in {"ends", "done"}
        /\ pc' = "ends" => lo' < up'
    BY ONLY <1>1, <2>1, ReturnIndices
  <2>3. IndexInv'
    <3>1. p' \in 0..N /\ i' \in Int /\ j' \in Int /\ (N > 0 => P' \in Elem)
      BY <1>1, <1>2, <2>1
    <3>2. /\ pc' \in {"ends", "low", "high", "up", "down", "next", "done", "error"}
          /\ pc' \notin {"low", "high"} /\ pc' # "up" /\ pc' # "down"
          /\ pc' \in {"ends", "low", "high", "up", "down"} => lo' < up'
      BY <2>2
    <3> QED BY ONLY <1>1, <1>2, <1>3, <1>5, <2>2, <3>1, <3>2, IndicesNext
  <2> QED BY <1>4, <2>3
<1>7. CASE up - lo # 1
  <2>1. /\ pc' = "low" /\ lo' = lo /\ up' = up /\ calls' = calls /\ random' = random
        /\ \/ p' = (lo + up) \div 2
           \/ up - lo >= RANLIMIT /\ p' \in choosePivot((up - lo) \div 4)
    BY <1>7 DEF Ends
  <2>2. lo < p' /\ p' < up
    BY <1>1, <1>3, <1>7, <2>1 DEF choosePivot, SortAssumption
  <2>3. p' \in 0..N
    BY <1>1, <1>3, <2>1, <2>2 DEF choosePivot, SortAssumption
  <2>4. IndexInv'
    <3>1. i' \in Int /\ j' \in Int /\ (N > 0 => P' \in Elem)
      BY <1>1, <1>2
    <3>2. calls' \in Seq(Interval) /\ lo' \in 1..N + 1 /\ up' \in 0..N /\ random' \in BOOLEAN
      BY <1>1, <2>1, Zenon
    <3>3. lo' < up' /\ lo' < p' /\ p' < up'
      BY <1>3, <2>1, <2>2
    <3> QED BY <1>1, <1>2, <1>3, <1>5, <2>1, <2>3, <3>1, <3>2, <3>3, IndicesNext
  <2> QED BY <1>4, <2>4
<1> QED BY <1>6, <1>7

LEMMA PartitionIndices ==
    ASSUME SortAssumption, IndexInv, pc \in {"low", "high"}, NEW b, Rearranged(N, a, b, lo, up),
           StartPartition(b), UNCHANGED <<input, p>>
    PROVE  IndexInv' /\ Rearranged(N, a, a', lo, up)
<1>1. /\ N \in Nat /\ a \in [1..N -> Elem]
      /\ lo \in 1..N + 1 /\ up \in 0..N /\ calls \in Seq(Interval) /\ random \in BOOLEAN
      /\ p \in 0..N /\ i \in Int /\ j \in Int /\ (N > 0 => P \in Elem)
  BY Indices
<1>2. lo < up /\ input \in Arrays /\ lo \in 1..N /\ up \in 1..N /\ N > 0 /\ p \in lo..up /\ up - 1 \in lo..up
  BY <1>1 DEF IndexInv, InsideInterval, TypeOK
<1>3. b \in [1..N -> Elem] /\ lo < p /\ p < up /\ input' = input /\ p' = p
  BY DEF Rearranged, IndexInv, InsideInterval
<1>4. CASE up - lo = 2
  <2>1. Return /\ a' = b /\ UNCHANGED <<i, j, P>>
    BY <1>4 DEF StartPartition
  <2>2. /\ calls' \in Seq(Interval) /\ lo' \in 1..N + 1 /\ up' \in 0..N /\ random' \in BOOLEAN
        /\ pc' \in {"ends", "done"}
        /\ pc' = "ends" => lo' < up'
    BY ONLY <1>1, <2>1, ReturnIndices
  <2>3. IndexInv'
    <3>1. p' \in 0..N /\ i' \in Int /\ j' \in Int /\ (N > 0 => P' \in Elem) /\ a' \in [1..N -> Elem]
      BY <1>1, <1>3, <2>1
    <3>2. /\ pc' \in {"ends", "low", "high", "up", "down", "next", "done", "error"}
          /\ pc' \notin {"low", "high"} /\ pc' # "up" /\ pc' # "down"
          /\ pc' \in {"ends", "low", "high", "up", "down"} => lo' < up'
      BY <2>2
    <3> QED BY ONLY <1>1, <1>2, <1>3, <2>2, <3>1, <3>2, IndicesNext
  <2> QED BY <2>1, <2>3
<1>5. CASE up - lo # 2
  <2>1. /\ P' = b[p] /\ a' = Exchanged(b, p, up - 1)
        /\ i' = lo /\ j' = up - 1 /\ pc' = "up"
        /\ lo' = lo /\ up' = up /\ calls' = calls /\ random' = random
    BY <1>5 DEF StartPartition, Exchanged
  <2>2. Rearranged(N, b, a', lo, up)
    BY ONLY <1>1, <1>2, <1>3, <2>1, ExchangeRearranges
  <2>3. Rearranged(N, a, a', lo, up)
    BY <1>1, <2>2, RearrangedTwice
  <2>4. a' \in [1..N -> Elem]
    BY <2>3 DEF Rearranged
  <2>5. P' \in Elem /\ a'[up' - 1] = P'
    <3>1. p \in 1..N /\ up - 1 \in 1..N
      BY <1>1, <1>2
    <3> QED BY <1>1, <1>3, <2>1, <3>1, Exchanges
  <2>6. IndexInv'
    <3>1. i' \in lo'..up' - 2 /\ j' \in lo' + 1..up' - 1 /\ lo' < up' /\ i' \in Int /\ j' \in Int
      BY <1>1, <1>2, <1>3, <1>5, <2>1
    <3>2. calls' \in Seq(Interval) /\ lo' \in 1..N + 1 /\ up' \in 0..N /\ random' \in BOOLEAN
      BY <1>1, <2>1, Zenon
    <3>3. p' \in 0..N
      BY <1>1, <1>3
    <3> QED BY <1>1, <1>2, <1>3, <2>1, <2>4, <2>5, <3>1, <3>2, <3>3, IndicesNext
  <2> QED BY <2>3, <2>6
<1> QED BY <1>4, <1>5

LEMMA LowIndices ==
    ASSUME SortAssumption, IndexInv, Low
    PROVE  IndexInv' /\ Rearranged(N, a, a', lo, up)
<1>1. /\ N \in Nat /\ a \in [1..N -> Elem]
      /\ lo \in 1..N + 1 /\ up \in 0..N /\ calls \in Seq(Interval) /\ random \in BOOLEAN
      /\ p \in 0..N /\ i \in Int /\ j \in Int /\ (N > 0 => P \in Elem)
  BY Indices
<1>2. /\ pc = "low" /\ input' = input /\ p' = p
      /\ input \in Arrays /\ lo < p /\ p < up /\ lo < up
  BY DEF Low, IndexInv, InsideInterval, TypeOK
<1>3. CASE StartPartition(Swapped(p, lo))
  <2>1. Swapped(p, lo) = Exchanged(a, p, lo)
    BY DEF Swapped, Exchanged
  <2>2. lo \in 1..N /\ up \in 1..N /\ p \in lo..up /\ lo \in lo..up
    BY <1>1, <1>2
  <2>3. Rearranged(N, a, Swapped(p, lo), lo, up)
    BY ONLY <1>1, <2>1, <2>2, ExchangeRearranges
  <2> QED BY <1>2, <1>3, <2>3, PartitionIndices
<1>4. CASE pc' = "high" /\ UNCHANGED <<a, lo, up, calls, i, j, P, random>>
  <2>1. calls' \in Seq(Interval) /\ lo' \in 1..N + 1 /\ up' \in 0..N /\ random' \in BOOLEAN
    BY <1>1, <1>4, Zenon
  <2>2. /\ a' \in [1..N -> Elem] /\ p' \in 0..N /\ i' \in Int /\ j' \in Int
        /\ (N > 0 => P' \in Elem) /\ lo' < up' /\ lo' < p' /\ p' < up' /\ pc' = "high"
    BY <1>1, <1>2, <1>4
  <2>3. IndexInv'
    BY <1>1, <1>2, <2>1, <2>2, IndicesNext
  <2> QED BY <1>1, <1>4, <2>3, RearrangedSame
<1> QED BY <1>3, <1>4 DEF Low

LEMMA HighIndices ==
    ASSUME SortAssumption, IndexInv, High
    PROVE  IndexInv' /\ Rearranged(N, a, a', lo, up)
<1>1. /\ N \in Nat /\ a \in [1..N -> Elem] /\ lo \in 1..N + 1 /\ up \in 0..N
  BY Indices
<1>2. pc = "high" /\ input' = input /\ p' = p /\ lo < p /\ p < up
  BY DEF High, IndexInv, InsideInterval
<1>3. lo \in 1..N /\ up \in 1..N /\ p \in lo..up /\ up \in lo..up
  BY <1>1, <1>2, Indices
<1>4. PICK b : StartPartition(b) /\ (b = Exchanged(a, p, up) \/ b = a)
  BY DEF High, Swapped, Exchanged
<1>5. Rearranged(N, a, b, lo, up)
  BY ONLY <1>1, <1>3, <1>4, ExchangeRearranges, RearrangedSame
<1> QED BY <1>2, <1>4, <1>5, PartitionIndices

LEMMA UpIndices ==
    ASSUME SortAssumption, IndexInv, Up
    PROVE  IndexInv' /\ Rearranged(N, a, a', lo, up)
<1>1. /\ N \in Nat /\ a \in [1..N -> Elem]
      /\ lo \in 1..N + 1 /\ up \in 0..N /\ calls \in Seq(Interval) /\ random \in BOOLEAN
      /\ p \in 0..N /\ i \in Int /\ j \in Int /\ (N > 0 => P \in Elem)
  BY Indices
<1>2. /\ pc = "up" /\ i' = i + 1
      /\ input' = input /\ a' = a /\ lo' = lo /\ up' = up /\ calls' = calls
      /\ p' = p /\ j' = j /\ P' = P /\ random' = random
      /\ pc' \in {"up", "down", "error"} /\ (pc' = "up" => i + 1 # up - 1)
  BY DEF Up
<1>3. /\ input \in Arrays /\ lo < up /\ i \in lo..up - 2 /\ j \in lo + 1..up - 1
      /\ a[up - 1] = P
  BY <1>1, <1>2 DEF IndexInv, InsideInterval, TypeOK
<1>4. calls' \in Seq(Interval) /\ lo' \in 1..N + 1 /\ up' \in 0..N /\ random' \in BOOLEAN
  BY <1>1, <1>2, Zenon
<1>5. /\ a' \in [1..N -> Elem] /\ p' \in 0..N /\ i' \in Int /\ j' \in Int
      /\ (N > 0 => P' \in Elem) /\ lo' < up' /\ a'[up' - 1] = P'
      /\ pc' = "up" => i' \in lo'..up' - 2
      /\ i' \in lo' + 1..up' - 1 /\ j' \in lo' + 1..up' - 1
  BY <1>1, <1>2, <1>3
<1>6. IndexInv'
  BY <1>1, <1>2, <1>3, <1>4, <1>5, IndicesNext
<1> QED BY <1>1, <1>2, <1>6, RearrangedSame

(* The interval and the one put aside are parts of the interval before.     *)
LEMMA SplitIndices ==
    ASSUME N \in Nat, calls \in Seq(Interval), lo \in 1..N + 1, up \in 0..N, NEW m \in lo + 1..up - 1,
           Split(m)
    PROVE  /\ calls' \in Seq(Interval) /\ lo' \in 1..N + 1 /\ up' \in 0..N
           /\ \E c \in Interval :
                /\ calls' = Append(calls, c)
                /\ \/ c[1] = m + 1 /\ c[2] = up /\ lo' = lo /\ up' = m - 1 /\ m - lo < up - m
                   \/ c[1] = lo /\ c[2] = m - 1 /\ lo' = m + 1 /\ up' = up /\ up - m <= m - lo
<1>1. m + 1 \in 1..N + 1 /\ m - 1 \in 0..N
  OBVIOUS
<1>2. CASE m - lo < up - m
  <2> DEFINE c == <<m + 1, up, random \/ (up - m - 1) \div IMBALANCE > m - lo>>
  <2>1. calls' = Append(calls, c) /\ lo' = lo /\ up' = m - 1
    BY <1>2, Zenon DEF Split
  <2>2. c \in Interval
    <3>1. (random \/ (up - m - 1) \div IMBALANCE > m - lo) \in BOOLEAN
      BY Zenon
    <3> QED BY ONLY <1>1, <3>1, up \in 0..N, Zenon DEF Interval
  <2>3. c[1] = m + 1 /\ c[2] = up
    BY Zenon
  <2> HIDE DEF c
  <2> QED BY <1>1, <1>2, <2>1, <2>2, <2>3, AppendProperties
<1>3. CASE ~(m - lo < up - m)
  <2> DEFINE c == <<lo, m - 1, random \/ (m - 1 - lo) \div IMBALANCE > up - m>>
  <2>1. calls' = Append(calls, c) /\ lo' = m + 1 /\ up' = up
    BY <1>3, Zenon DEF Split
  <2>2. c \in Interval
    <3>1. (random \/ (m - 1 - lo) \div IMBALANCE > up - m) \in BOOLEAN
      BY Zenon
    <3> QED BY ONLY <1>1, <3>1, lo \in 1..N + 1, Zenon DEF Interval
  <2>3. c[1] = lo /\ c[2] = m - 1
    BY Zenon
  <2> HIDE DEF c
  <2> QED BY <1>1, <1>3, <2>1, <2>2, <2>3, AppendProperties
<1> QED BY <1>2, <1>3

LEMMA DownIndices ==
    ASSUME SortAssumption, IndexInv, Down
    PROVE  IndexInv' /\ Rearranged(N, a, a', lo, up)
<1>1. /\ N \in Nat /\ a \in [1..N -> Elem]
      /\ lo \in 1..N + 1 /\ up \in 0..N /\ calls \in Seq(Interval) /\ random \in BOOLEAN
      /\ p \in 0..N /\ i \in Int /\ j \in Int /\ (N > 0 => P \in Elem)
  BY Indices
<1>2. /\ pc = "down" /\ j' = j - 1 /\ input' = input /\ i' = i /\ P' = P
      /\ input \in Arrays /\ lo < up /\ i \in lo + 1..up - 1 /\ j - 1 \in lo..up - 2
      /\ a[up - 1] = P
  BY <1>1 DEF Down, IndexInv, InsideInterval, TypeOK
<1>3. /\ lo \in 1..N /\ up \in 1..N /\ i \in lo..up /\ j - 1 \in lo..up /\ up - 1 \in lo..up
      /\ i \in 1..N /\ j - 1 \in 1..N /\ up - 1 \in 1..N
  BY <1>1, <1>2
<1>4. CASE pc' \in {"down", "error"} /\ (pc' = "down" => ~(j - 1 < i)) /\ UNCHANGED <<a, lo, up, calls, p, random>>
  <2>1. calls' \in Seq(Interval) /\ lo' \in 1..N + 1 /\ up' \in 0..N /\ random' \in BOOLEAN
    BY <1>1, <1>4, Zenon
  <2>2. /\ a' \in [1..N -> Elem] /\ p' \in 0..N /\ i' \in Int /\ j' \in Int
        /\ (N > 0 => P' \in Elem) /\ lo' < up' /\ a'[up' - 1] = P'
        /\ (pc' = "down" => i' \in lo' + 1..up' - 1 /\ j' \in lo' + 1..up' - 1)
    BY <1>1, <1>2, <1>4
  <2>3. IndexInv'
    BY <1>1, <1>2, <1>4, <2>1, <2>2, IndicesNext
  <2> QED BY <1>1, <1>4, <2>3, RearrangedSame
<1>5. CASE /\ a' = [a EXCEPT ![up - 1] = a[i], ![i] = P] /\ p' = i
           /\ Split(i) /\ pc' = "next" /\ random' = random
  <2>1. a' = Exchanged(a, up - 1, i)
    BY <1>2, <1>5 DEF Exchanged
  <2>2. Rearranged(N, a, a', lo, up)
    BY ONLY <1>1, <1>3, <2>1, ExchangeRearranges
  <2>3. calls' \in Seq(Interval) /\ lo' \in 1..N + 1 /\ up' \in 0..N
    BY <1>1, <1>2, <1>5, SplitIndices
  <2>4. random' \in BOOLEAN
    BY <1>1, <1>5, Zenon
  <2>5. /\ a' \in [1..N -> Elem] /\ p' \in 0..N /\ i' \in Int /\ j' \in Int
        /\ (N > 0 => P' \in Elem) /\ pc' = "next"
    <3>1. a' \in [1..N -> Elem]
      BY <2>2 DEF Rearranged
    <3> QED BY ONLY <1>1, <1>2, <1>3, <1>5, <3>1
  <2>6. IndexInv'
    BY ONLY <1>1, <1>2, <2>3, <2>4, <2>5, IndicesNext
  <2> QED BY <2>2, <2>6
<1>6. CASE /\ j - 1 >= i /\ a' = Swapped(i, j - 1)
           /\ pc' = "up" /\ UNCHANGED <<lo, up, calls, p, random>>
  <2>1. a' = Exchanged(a, i, j - 1)
    BY <1>6 DEF Swapped, Exchanged
  <2>2. Rearranged(N, a, a', lo, up)
    BY ONLY <1>1, <1>3, <2>1, ExchangeRearranges
  <2>3. calls' \in Seq(Interval) /\ lo' \in 1..N + 1 /\ up' \in 0..N /\ random' \in BOOLEAN
    BY <1>1, <1>6, Zenon
  <2>4. a'[up - 1] = a[up - 1]
    BY ONLY <1>1, <1>2, <1>3, <1>6, <2>1, Exchanges
  <2>5. /\ a' \in [1..N -> Elem] /\ p' \in 0..N /\ i' \in Int /\ j' \in Int
        /\ (N > 0 => P' \in Elem) /\ pc' = "up" /\ lo' < up' /\ a'[up' - 1] = P'
        /\ i' \in lo'..up' - 2 /\ j' \in lo' + 1..up' - 1
    BY <1>1, <1>2, <1>3, <1>6, <2>2, <2>4 DEF Rearranged
  <2>6. IndexInv'
    BY ONLY <1>1, <1>2, <2>3, <2>5, IndicesNext
  <2> QED BY <2>2, <2>6
<1> QED BY <1>2, <1>4, <1>5, <1>6 DEF Down

LEMMA CallIndices ==
    ASSUME SortAssumption, IndexInv, Call
    PROVE  IndexInv' /\ Rearranged(N, a, a', lo, up)
<1>1. /\ N \in Nat /\ a \in [1..N -> Elem]
      /\ lo \in 1..N + 1 /\ up \in 0..N /\ calls \in Seq(Interval) /\ random \in BOOLEAN
      /\ p \in 0..N /\ i \in Int /\ j \in Int /\ (N > 0 => P \in Elem)
  BY Indices
<1>2. /\ input' = input /\ a' = a /\ p' = p /\ i' = i /\ j' = j /\ P' = P
      /\ input \in Arrays
  BY DEF Call, IndexInv, TypeOK
<1>3. /\ calls' \in Seq(Interval) /\ lo' \in 1..N + 1 /\ up' \in 0..N /\ random' \in BOOLEAN
      /\ pc' \in {"ends", "done"}
      /\ pc' = "ends" => lo' < up'
  <2>1. CASE lo < up
    BY <1>1, <2>1, Zenon DEF Call
  <2>2. CASE ~(lo < up)
    BY <1>1, <2>2, ReturnIndices DEF Call
  <2> QED BY <2>1, <2>2
<1>4. /\ a' \in [1..N -> Elem] /\ p' \in 0..N /\ i' \in Int /\ j' \in Int /\ (N > 0 => P' \in Elem)
      /\ pc' \in {"ends", "low", "high", "up", "down", "next", "done", "error"}
      /\ pc' \notin {"low", "high"} /\ pc' # "up" /\ pc' # "down"
      /\ pc' \in {"ends", "low", "high", "up", "down"} => lo' < up'
  BY <1>1, <1>2, <1>3
<1>5. IndexInv'
  BY ONLY <1>1, <1>2, <1>3, <1>4, IndicesNext
<1> QED BY <1>1, <1>2, <1>5, RearrangedSame

LEMMA NextIndices ==
    ASSUME SortAssumption, IndexInv, Next
    PROVE  IndexInv' /\ Rearranged(N, a, a', lo, up) /\ input' = input /\ N' = N
<1>1. IndexInv' /\ Rearranged(N, a, a', lo, up)
  BY EndsIndices, LowIndices, HighIndices, UpIndices, DownIndices, CallIndices DEF Next
<1>2. input' = input
  BY DEF Next, Ends, Low, High, Up, Down, Call
<1> QED BY <1>1, <1>2 DEF N

LEMMA InitIndices ==
    ASSUME SortAssumption, Init
    PROVE  IndexInv
<1>1. N \in Nat /\ input \in [1..N -> Elem]
  BY InputElements DEF Init
<1>2. N \in Nat
  BY <1>1
<1>3. N > 0 => P \in Elem
  <2>1. N > 0 => input[1] \in Elem
    BY <1>1
  <2>2. N > 0 => P = input[1]
    BY <1>2 DEF Init
  <2> QED BY <2>1, <2>2
<1>4. /\ calls = <<>> /\ random = FALSE /\ input \in Arrays /\ a = input /\ lo = 1 /\ up = N
      /\ p = 0 /\ i = 0 /\ j = 0
      /\ pc \in {"ends", "done"} /\ (pc = "ends" => N > 1)
  BY DEF Init
<1>5. calls \in Seq((1..N + 1) \X (0..N) \X BOOLEAN) /\ random \in BOOLEAN
  BY <1>4, EmptySeq, Zenon
<1>6. lo \in 1..N + 1 /\ up \in 0..N /\ p \in 0..N /\ i \in Int /\ j \in Int
  BY <1>2, <1>4
<1>7. TypeOK
  BY <1>1, <1>2, <1>3, <1>4, <1>5, <1>6, Zenon DEF TypeOK
<1>8. InsideInterval
  BY <1>2, <1>4 DEF InsideInterval
<1> QED BY <1>4, <1>6, <1>7, <1>8 DEF IndexInv

(* What is beside an interval has only what is beside it.                   *)
LEMMA BesideParts ==
    ASSUME NEW c \in Interval, N \in Nat, NEW l \in Int, NEW u \in Int, Beside(c, l, u),
           NEW l1 \in Int, NEW u1 \in Int, l <= l1, u1 <= u
    PROVE  Beside(c, l1, u1)
<1>1. c[1] \in Int /\ c[2] \in Int
  BY DEF Interval
<1> QED BY <1>1 DEF Beside

(* The interval of a nested call is not longer than what its caller has     *)
(* left, and beside it, and so are the intervals that its own calls leave.  *)
LEMMA SmallerAfterReturn ==
    ASSUME N \in Nat, calls \in Seq(Interval), Return, SmallerIsCalled
    PROVE  SmallerIsCalled'
<1>1. PICK k \in 0..Len(calls) :
        \/ k = 0 /\ calls' = <<>>
        \/ k > 0 /\ lo' = calls[k][1] /\ up' = calls[k][2] /\ calls' = SubSeq(calls, 1, k - 1)
  BY DEF Return
<1>2. Len(calls) \in Nat
  BY LenProperties
<1>3. CASE calls' = <<>>
  BY <1>3, EmptySeq DEF SmallerIsCalled
<1>4. CASE /\ k > 0 /\ lo' = calls[k][1] /\ up' = calls[k][2]
           /\ calls' = SubSeq(calls, 1, k - 1)
  <2>1. Len(calls') = k - 1 /\ \A m \in 1..k - 1 : calls'[m] = calls[m]
    BY <1>2, <1>4, SubSeqProperties
  <2>2. ASSUME NEW m \in 1..Len(calls')
        PROVE  /\ Beside(calls'[m], lo', up')
               /\ \A q \in m + 1..Len(calls') : Beside(calls'[m], calls'[q][1], calls'[q][2])
    <3>1. m \in 1..Len(calls) /\ k \in m + 1..Len(calls) /\ calls'[m] = calls[m]
      BY <1>2, <1>4, <2>1
    <3>2. \A q \in m + 1..Len(calls') : q \in m + 1..Len(calls) /\ calls'[q] = calls[q]
      BY <1>2, <1>4, <2>1
    <3> QED BY <1>4, <3>1, <3>2 DEF SmallerIsCalled
  <2> QED BY <2>2 DEF SmallerIsCalled, Beside
<1> QED BY <1>1, <1>3, <1>4

LEMMA SmallerAfterSplit ==
    ASSUME N \in Nat, calls \in Seq(Interval), lo \in 1..N + 1, up \in 0..N,
           NEW m \in lo + 1..up - 1, Split(m), SmallerIsCalled
    PROVE  SmallerIsCalled'
<1>1. PICK c \in Interval :
        /\ calls' = Append(calls, c)
        /\ \/ c[1] = m + 1 /\ c[2] = up /\ lo' = lo /\ up' = m - 1 /\ m - lo < up - m
           \/ c[1] = lo /\ c[2] = m - 1 /\ lo' = m + 1 /\ up' = up /\ up - m <= m - lo
  BY SplitIndices
<1> DEFINE n == Len(calls)
<1>2. /\ n \in Nat /\ Len(calls') = n + 1 /\ calls'[n + 1] = c
      /\ \A k \in 1..n : calls'[k] = calls[k] /\ calls[k] \in Interval
  BY <1>1, LenProperties, AppendProperties, ElementOfSeq
<1>3. Beside(c, lo', up')
  BY <1>1 DEF Beside
<1>4. /\ lo' \in Int /\ up' \in Int /\ c[1] \in Int /\ c[2] \in Int
      /\ lo <= lo' /\ up' <= up /\ lo <= c[1] /\ c[2] <= up
  BY <1>1
<1> HIDE DEF n
<1>5. ASSUME NEW k \in 1..n + 1
      PROVE  /\ Beside(calls'[k], lo', up')
             /\ \A q \in k + 1..n + 1 : Beside(calls'[k], calls'[q][1], calls'[q][2])
  <2>1. CASE k = n + 1
    BY <1>2, <1>3, <2>1
  <2>2. CASE k \in 1..n
    <3>1. Beside(calls[k], lo, up)
      BY <2>2 DEF SmallerIsCalled, n
    <3>2. Beside(calls[k], lo', up') /\ Beside(calls[k], c[1], c[2])
      <4>1. calls[k] \in Interval /\ lo \in Int /\ up \in Int
        BY <1>2, <2>2
      <4> QED BY ONLY <1>4, <3>1, <4>1, N \in Nat, BesideParts
    <3>3. \A q \in k + 1..n : Beside(calls[k], calls[q][1], calls[q][2])
      BY <2>2 DEF SmallerIsCalled, n
    <3>4. \A q \in k + 1..n + 1 : q = n + 1 \/ q \in k + 1..n
      BY <1>2
    <3>5. \A q \in k + 1..n : calls'[q] = calls[q]
      BY <1>2
    <3> QED BY <1>2, <2>2, <3>2, <3>3, <3>4, <3>5
  <2> QED BY <1>2, <2>1, <2>2
<1> QED BY <1>2, <1>5 DEF SmallerIsCalled, Beside

LEMMA NextSmaller ==
    ASSUME SortAssumption, IndexInv, SmallerIsCalled, Next
    PROVE  SmallerIsCalled'
<1>1. N \in Nat /\ calls \in Seq(Interval) /\ lo \in 1..N + 1 /\ up \in 0..N
  BY Indices
<1>2. Return \/ UNCHANGED <<calls, lo, up>> \/ \E m \in lo + 1..up - 1 : Split(m)
  <2>1. CASE Ends
    BY <2>1 DEF Ends
  <2>2. CASE Low
    BY <2>2 DEF Low, StartPartition
  <2>3. CASE High
    BY <2>3 DEF High, StartPartition
  <2>4. CASE Up
    BY <2>4 DEF Up
  <2>5. CASE Down
    BY <2>5 DEF Down, IndexInv, InsideInterval
  <2>6. CASE Call
    BY <2>6 DEF Call
  <2> QED BY <2>1, <2>2, <2>3, <2>4, <2>5, <2>6 DEF Next
<1>3. CASE Return
  BY <1>1, <1>3, SmallerAfterReturn
<1>4. CASE UNCHANGED <<calls, lo, up>>
  BY <1>4 DEF SmallerIsCalled, Beside
<1>5. CASE \E m \in lo + 1..up - 1 : Split(m)
  BY <1>1, <1>5, SmallerAfterSplit
<1> QED BY <1>2, <1>3, <1>4, <1>5

(* The elements are those of the input, as often as they were in it.        *)
LEMMA NextPermutation ==
    ASSUME SortAssumption, IndexInv, StaysPermutation, Next
    PROVE  StaysPermutation'
<1>1. Rearranged(N, a, a', lo, up) /\ input' = input /\ N' = N
  BY NextIndices
<1> SUFFICES ASSUME NEW e \in Elem PROVE Count(N, a', e) = Count(N, input, e)
  <2>1. Elem' = Elem
    BY <1>1 DEF Elem
  <2> QED BY <1>1, <2>1 DEF StaysPermutation, Count
<1>2. Count(N, a', e) = Count(N, a, e)
  BY <1>1 DEF Rearranged
<1>3. Count(N, a, e) = Count(N, input, e)
  BY DEF StaysPermutation, Count
<1> QED BY <1>2, <1>3

-----------------------------------------------------------------------------
(* What is sorted or waits elsewhere is not touched by a rearrangement.     *)
LEMMA SortedElsewhere ==
    ASSUME NEW n \in Nat, NEW b \in [1..n -> Elem], NEW c, NEW l \in Int, NEW u \in Int, l >= 1, u <= n,
           NEW cs, \A k \in 1..Len(cs) : cs[k][1] \in Int /\ cs[k][2] \in Int,
           Rearranged(n, b, c, l, u), SortedFor(n, b, cs, l, u), DisjointFor(n, cs, l, u)
    PROVE  SortedFor(n, c, cs, l, u)
<1> SUFFICES ASSUME NEW x \in 1..n, NEW y \in 1..n, x < y,
                    ~(l <= x /\ y <= u), ~\E k \in 1..Len(cs) : Within(cs[k], x, y)
             PROVE  NotBefore(c[y], c[x])
  BY DEF SortedFor
<1>1. NotBefore(b[y], b[x])
  BY DEF SortedFor
<1>2. \A z \in 1..n : z < l \/ u < z => c[z] = b[z]
  BY DEF Rearranged
<1>3. CASE (x < l \/ u < x) /\ (y < l \/ u < y)
  BY <1>1, <1>2, <1>3
<1>4. CASE x < l /\ y \in l..u
  <2>1. PICK z \in l..u : c[y] = b[z]
    BY <1>4 DEF Rearranged
  <2>2. z \in 1..n /\ x < z /\ ~(l <= x /\ z <= u)
    BY <1>4
  <2>3. ASSUME NEW k \in 1..Len(cs), Within(cs[k], x, z)
        PROVE  FALSE
    <3>1. Within(cs[k], z, z)
      BY <2>2, <2>3 DEF Within
    <3> QED BY <2>2, <3>1 DEF DisjointFor
  <2>4. NotBefore(b[z], b[x])
    BY <2>2, <2>3 DEF SortedFor
  <2> QED BY <1>2, <1>4, <2>1, <2>4
<1>5. CASE u < y /\ x \in l..u
  <2>1. PICK z \in l..u : c[x] = b[z]
    BY <1>5 DEF Rearranged
  <2>2. z \in 1..n /\ z < y /\ ~(l <= z /\ y <= u)
    BY <1>5
  <2>3. ASSUME NEW k \in 1..Len(cs), Within(cs[k], z, y)
        PROVE  FALSE
    <3>1. Within(cs[k], z, z)
      BY <2>2, <2>3 DEF Within
    <3> QED BY <2>2, <3>1 DEF DisjointFor
  <2>4. NotBefore(b[y], b[z])
    BY <2>2, <2>3 DEF SortedFor
  <2> QED BY <1>2, <1>5, <2>1, <2>4
<1> QED BY <1>3, <1>4, <1>5

(* What the order's invariant says while an interval is being sorted.       *)
LEMMA Orders ==
    ASSUME SortAssumption, SortInv, Ordered, Next
    PROVE  /\ pc # "done" /\ pc # "error"
           /\ N \in Nat /\ N' = N /\ a \in [1..N -> Elem] /\ a' \in [1..N -> Elem]
           /\ lo \in 1..N + 1 /\ up \in 0..N /\ calls \in Seq(Interval)
           /\ SortedFor(N, a, calls, lo, up) /\ DisjointFor(N, calls, lo, up)
           /\ SortedFor(N, a', calls, lo, up)
<1>1. pc # "done" /\ pc # "error"
  BY DEF Next, Ends, Low, High, Up, Down, Call
<1>2. /\ N \in Nat /\ a \in [1..N -> Elem] /\ lo \in 1..N + 1 /\ up \in 0..N
      /\ calls \in Seq(Interval)
  BY Indices DEF SortInv
<1>3. Rearranged(N, a, a', lo, up) /\ N' = N
  BY NextIndices DEF SortInv
<1>4. SortedFor(N, a, calls, lo, up) /\ DisjointFor(N, calls, lo, up)
  BY <1>1 DEF SortInv, OrderInv
<1>5. \A k \in 1..Len(calls) : calls[k][1] \in Int /\ calls[k][2] \in Int
  BY <1>2, ElementOfSeq DEF Interval
<1>6. lo \in Int /\ up \in Int /\ lo >= 1 /\ up <= N
  BY <1>2
<1>7. SortedFor(N, a', calls, lo, up)
  BY ONLY <1>2, <1>3, <1>4, <1>5, <1>6, SortedElsewhere
<1> QED BY <1>1, <1>2, <1>3, <1>4, <1>7 DEF Rearranged

-----------------------------------------------------------------------------
(* With an order, every action keeps the loop's and the order's invariant.  *)
LEMMA EndsOrder ==
    ASSUME SortAssumption, SortInv, Ordered, Ends
    PROVE  OrderInv' /\ PartitionInvariant'
<1>0. Elem \subseteq Value
  BY Indices DEF SortInv
<1>1. /\ N \in Nat /\ N' = N /\ a \in [1..N -> Elem] /\ a' \in [1..N -> Elem]
      /\ lo \in 1..N + 1 /\ up \in 0..N /\ calls \in Seq(Interval)
      /\ DisjointFor(N, calls, lo, up) /\ SortedFor(N, a', calls, lo, up)
  BY Orders DEF Next
<1>2. lo < up /\ pc = "ends"
  BY DEF Ends, SortInv, IndexInv, InsideInterval
<1>3. NotBefore(a'[up], a'[lo])
  <2>1. lo \in 1..N /\ up \in 1..N /\ lo # up
    BY <1>1, <1>2
  <2>2. CASE sort_comp(a[up], a[lo], TRUE) /\ a' = Exchanged(a, lo, up)
    <3>1. Exchanged(a, lo, up)[up] = a[lo] /\ Exchanged(a, lo, up)[lo] = a[up]
      <4>1. \A k \in 1..N : Exchanged(a, lo, up)[k] = IF k = lo THEN a[up] ELSE IF k = up THEN a[lo] ELSE a[k]
        <5>1. N \in Nat /\ a \in [1..N -> Elem]
          BY <1>1
        <5> QED BY ONLY <2>1, <5>1, Exchanges
      <4> QED BY ONLY <2>1, <4>1
    <3>2. a[lo] \in Elem /\ a[up] \in Elem
      BY <1>1, <2>1
    <3>3. NotBefore(a[lo], a[up])
      BY <2>2, <3>2, <1>0, Answered
    <3> QED BY ONLY <2>2, <3>1, <3>3
  <2>3. CASE sort_comp(a[up], a[lo], FALSE) /\ a' = a
    BY <1>1, <2>1, <2>3, <1>0, Answered
  <2> QED BY <2>2, <2>3 DEF Ends, Swapped, Exchanged
<1>4. CASE up - lo = 1
  <2>1. Return
    BY <1>4 DEF Ends
  <2>2. \A x, y \in 1..N : lo <= x /\ x < y /\ y <= up => NotBefore(a'[y], a'[x])
    BY <1>1, <1>3, <1>4
  <2>3. /\ pc' = "done" => \A x, y \in 1..N : x < y => NotBefore(a'[y], a'[x])
        /\ pc' # "done" => SortedFor(N, a', calls', lo', up') /\ DisjointFor(N, calls', lo', up')
    BY ONLY <1>1, <2>1, <2>2, ReturnSorted
  <2>4. pc' \in {"ends", "done"}
    BY <2>1 DEF Return
  <2> QED BY <1>1, <2>3, <2>4 DEF OrderInv, PartitionInvariant
<1>5. CASE up - lo # 1
  <2>1. pc' = "low" /\ lo' = lo /\ up' = up /\ calls' = calls
    BY <1>5 DEF Ends
  <2> QED BY <1>1, <1>3, <2>1 DEF OrderInv, PartitionInvariant
<1> QED BY <1>4, <1>5

LEMMA PartitionOrder ==
    ASSUME SortAssumption, SortInv, Ordered, Low \/ High,
           NEW b \in [1..N -> Elem], StartPartition(b),
           NotBefore(b[p], b[lo]), NotBefore(b[up], b[p])
    PROVE  OrderInv' /\ PartitionInvariant'
<1>0. Elem \subseteq Value
  BY Indices DEF SortInv
<1>1. /\ N \in Nat /\ N' = N /\ a \in [1..N -> Elem] /\ a' \in [1..N -> Elem]
      /\ lo \in 1..N + 1 /\ up \in 0..N /\ calls \in Seq(Interval)
      /\ DisjointFor(N, calls, lo, up) /\ SortedFor(N, a', calls, lo, up)
  BY Orders DEF Next
<1>2. lo < p /\ p < up /\ lo \in 1..N /\ up \in 1..N /\ p \in 1..N /\ up - 1 \in 1..N
  <2>1. pc \in {"low", "high"}
    BY DEF Low, High
  <2> QED BY <1>1, <2>1, Indices DEF SortInv, IndexInv, InsideInterval
<1>3. NotBefore(b[up], b[lo]) /\ NotBefore(b[p], b[p])
  <2>1. b[lo] \in Elem /\ b[p] \in Elem /\ b[up] \in Elem
    BY <1>1, <1>2
  <2>2. NotBefore(b[up], b[lo])
    BY <1>0, <2>1, Chained
  <2>3. NotBefore(b[p], b[p])
    BY <1>0, <2>1, Answered
  <2> QED BY <2>2, <2>3
<1>4. CASE up - lo = 2
  <2>1. Return /\ a' = b
    BY <1>4 DEF StartPartition
  <2>2. \A x, y \in 1..N : lo <= x /\ x < y /\ y <= up => NotBefore(a'[y], a'[x])
    BY <1>1, <1>2, <1>3, <1>4, <2>1
  <2>3. /\ pc' = "done" => \A x, y \in 1..N : x < y => NotBefore(a'[y], a'[x])
        /\ pc' # "done" => SortedFor(N, a', calls', lo', up') /\ DisjointFor(N, calls', lo', up')
    BY ONLY <1>1, <2>1, <2>2, ReturnSorted
  <2>4. pc' \in {"ends", "done"}
    BY <2>1 DEF Return
  <2> QED BY <1>1, <2>3, <2>4 DEF OrderInv, PartitionInvariant
<1>5. CASE up - lo # 2
  <2>1. /\ P' = b[p] /\ a' = Exchanged(b, p, up - 1)
        /\ i' = lo /\ j' = up - 1 /\ pc' = "up"
        /\ lo' = lo /\ up' = up /\ calls' = calls
    BY <1>5 DEF StartPartition, Exchanged
  <2>2. a'[lo] = b[lo] /\ a'[up - 1] = b[p] /\ a'[up] = b[up]
    <3>1. \A k \in 1..N : a'[k] = IF k = p THEN b[up - 1] ELSE IF k = up - 1 THEN b[p] ELSE b[k]
      <4>1. N \in Nat /\ b \in [1..N -> Elem] /\ p \in 1..N /\ up - 1 \in 1..N
        BY <1>1, <1>2
      <4>2. \A k \in 1..N : Exchanged(b, p, up - 1)[k] =
              IF k = p THEN b[up - 1] ELSE IF k = up - 1 THEN b[p] ELSE b[k]
        BY ONLY <4>1, Exchanges
      <4> QED BY ONLY <2>1, <4>2
    <3> QED BY ONLY <1>1, <1>2, <3>1
  <2>3. \A k \in lo'..i' : NotBefore(P', a'[k])
    BY <1>1, <2>1, <2>2
  <2>4. \A k \in j'..up' : NotBefore(a'[k], P')
    BY <1>1, <1>2, <1>3, <2>1, <2>2
  <2> QED BY <1>1, <2>1, <2>3, <2>4 DEF OrderInv, PartitionInvariant
<1> QED BY <1>4, <1>5

LEMMA LowOrder ==
    ASSUME SortAssumption, SortInv, Ordered, Low
    PROVE  OrderInv' /\ PartitionInvariant'
<1>0. Elem \subseteq Value
  BY Indices DEF SortInv
<1>1. /\ N \in Nat /\ N' = N /\ a \in [1..N -> Elem] /\ a' \in [1..N -> Elem]
      /\ lo \in 1..N + 1 /\ up \in 0..N
      /\ DisjointFor(N, calls, lo, up) /\ SortedFor(N, a', calls, lo, up)
  BY Orders DEF Next
<1>2. lo < p /\ p < up /\ lo \in 1..N /\ up \in 1..N /\ p \in 1..N
  BY <1>1, Indices DEF Low, SortInv, IndexInv, InsideInterval
<1>3. NotBefore(a[up], a[lo])
  BY DEF Low, SortInv, OrderInv
<1>4. CASE sort_comp(a[p], a[lo], TRUE) /\ StartPartition(Exchanged(a, p, lo))
  <2> DEFINE b == Exchanged(a, p, lo)
  <2>1. b \in [1..N -> Elem] /\ b[p] = a[lo] /\ b[lo] = a[p] /\ b[up] = a[up]
    BY <1>1, <1>2, Exchanges
  <2>2. NotBefore(a[lo], a[p])
    BY <1>1, <1>2, <1>4, <1>0, Answered
  <2>3. StartPartition(b)
    BY <1>4
  <2> HIDE DEF b
  <2> QED BY <1>3, <2>1, <2>2, <2>3, PartitionOrder
<1>5. CASE sort_comp(a[p], a[lo], FALSE) /\ pc' = "high" /\ UNCHANGED <<a, lo, up, calls>>
  <2>1. NotBefore(a[p], a[lo])
    BY <1>1, <1>2, <1>5, <1>0, Answered
  <2>2. p' = p
    BY DEF Low
  <2> QED BY <1>1, <1>3, <1>5, <2>1, <2>2 DEF OrderInv, PartitionInvariant
<1> QED BY <1>4, <1>5 DEF Low, Swapped, Exchanged

LEMMA HighOrder ==
    ASSUME SortAssumption, SortInv, Ordered, High
    PROVE  OrderInv' /\ PartitionInvariant'
<1>0. Elem \subseteq Value
  BY Indices DEF SortInv
<1>1. /\ N \in Nat /\ a \in [1..N -> Elem] /\ lo \in 1..N + 1 /\ up \in 0..N
  BY Orders DEF Next
<1>2. lo < p /\ p < up /\ lo \in 1..N /\ up \in 1..N /\ p \in 1..N
  BY <1>1, Indices DEF High, SortInv, IndexInv, InsideInterval
<1>3. NotBefore(a[up], a[lo]) /\ NotBefore(a[p], a[lo])
  BY DEF High, SortInv, OrderInv
<1>4. CASE sort_comp(a[up], a[p], TRUE) /\ StartPartition(Exchanged(a, p, up))
  <2> DEFINE b == Exchanged(a, p, up)
  <2>1. b \in [1..N -> Elem] /\ b[p] = a[up] /\ b[up] = a[p] /\ b[lo] = a[lo]
    BY <1>1, <1>2, Exchanges
  <2>2. NotBefore(a[p], a[up])
    BY <1>1, <1>2, <1>4, <1>0, Answered
  <2>3. StartPartition(b)
    BY <1>4
  <2> HIDE DEF b
  <2> QED BY <1>3, <2>1, <2>2, <2>3, PartitionOrder
<1>5. CASE sort_comp(a[up], a[p], FALSE) /\ StartPartition(a)
  <2>1. NotBefore(a[up], a[p])
    BY <1>1, <1>2, <1>5, <1>0, Answered
  <2> QED BY <1>1, <1>3, <1>5, <2>1, PartitionOrder
<1> QED BY <1>4, <1>5 DEF High, Swapped, Exchanged

LEMMA UpOrder ==
    ASSUME SortAssumption, SortInv, Ordered, Up
    PROVE  OrderInv' /\ PartitionInvariant'
<1>0. Elem \subseteq Value
  BY Indices DEF SortInv
<1>1. /\ N \in Nat /\ N' = N /\ a \in [1..N -> Elem] /\ lo \in 1..N + 1 /\ up \in 0..N
      /\ DisjointFor(N, calls, lo, up) /\ SortedFor(N, a', calls, lo, up)
  BY Orders DEF Next
<1>2. i \in Int /\ j \in Int /\ P \in Elem /\ i \in lo..up - 2 /\ a[up - 1] = P
      /\ i + 1 \in 1..N /\ a[i + 1] \in Elem
  BY <1>1, Indices DEF Up, SortInv, IndexInv, InsideInterval
<1>3. /\ pc = "up" /\ i' = i + 1 /\ a' = a /\ lo' = lo /\ up' = up /\ calls' = calls
      /\ j' = j /\ P' = P
  BY DEF Up
<1>4. /\ \A k \in lo..i : NotBefore(P, a[k])
      /\ \A k \in j..up : NotBefore(a[k], P)
  BY <1>3 DEF SortInv, PartitionInvariant
<1>5. CASE /\ sort_comp(a[i + 1], P, TRUE)
           /\ pc' = IF i + 1 = up - 1 THEN "error" ELSE pc
  <2>1. NotBefore(P, a[i + 1]) /\ ~NotBefore(a[i + 1], P)
    BY <1>1, <1>2, <1>5, <1>0, Answered
  <2>2. i + 1 # up - 1
    BY <1>2, <2>1, <1>0, Answered
  <2>3. pc' = "up"
    BY <1>3, <1>5, <2>2
  <2>4. \A k \in lo..i + 1 : NotBefore(P, a[k])
    BY <1>1, <1>2, <1>4, <2>1
  <2> QED BY <1>1, <1>3, <1>4, <2>3, <2>4 DEF OrderInv, PartitionInvariant
<1>6. CASE sort_comp(a[i + 1], P, FALSE) /\ pc' = "down"
  <2>1. NotBefore(a[i + 1], P)
    BY <1>1, <1>2, <1>6, <1>0, Answered
  <2>2. i' - 1 = i
    BY <1>2, <1>3
  <2> QED BY <1>1, <1>3, <1>4, <1>6, <2>1, <2>2 DEF OrderInv, PartitionInvariant
<1> QED BY <1>5, <1>6 DEF Up

(* Around a pivot in its place, the two parts wait apart from each other.   *)
LEMMA SplitSorted ==
    ASSUME SortAssumption, Ordered, Elem \subseteq Value,
           N \in Nat, calls \in Seq(Interval), lo \in 1..N + 1, up \in 0..N,
           NEW m \in lo + 1..up - 1, Split(m),
           NEW b \in [1..N -> Elem], SortedFor(N, b, calls, lo, up), DisjointFor(N, calls, lo, up),
           \A k \in lo..m : NotBefore(b[m], b[k]), \A k \in m..up : NotBefore(b[k], b[m])
    PROVE  SortedFor(N, b, calls', lo', up') /\ DisjointFor(N, calls', lo', up')
<1>1. PICK c \in Interval :
        /\ calls' = Append(calls, c)
        /\ \/ c[1] = m + 1 /\ c[2] = up /\ lo' = lo /\ up' = m - 1
           \/ c[1] = lo /\ c[2] = m - 1 /\ lo' = m + 1 /\ up' = up
  BY SplitIndices
<1> DEFINE n == Len(calls)
<1>2. /\ n \in Nat /\ Len(calls') = n + 1 /\ calls'[n + 1] = c
      /\ \A k \in 1..n : calls'[k] = calls[k]
  BY <1>1, AppendProperties, LenProperties
<1>3. \A k \in 1..n : calls[k][1] \in Int /\ calls[k][2] \in Int
  <2>1. \A k \in 1..n : calls[k] \in Interval
    BY ElementOfSeq
  <2>2. \A v \in Interval : v[1] \in Int /\ v[2] \in Int
    BY ONLY N \in Nat DEF Interval
  <2> QED BY ONLY <2>1, <2>2
<1>4. /\ \A k \in 1..Len(calls') : k \in 1..n \/ k = n + 1
      /\ \A k \in 1..n : k \in 1..Len(calls')
      /\ n + 1 \in 1..Len(calls')
  BY <1>2
<1> HIDE DEF n
<1>5. SortedFor(N, b, calls', lo', up')
  <2> SUFFICES ASSUME NEW x \in 1..N, NEW y \in 1..N, x < y, ~NotBefore(b[y], b[x]),
                      ~(lo' <= x /\ y <= up')
               PROVE  \E k \in 1..Len(calls') : Within(calls'[k], x, y)
    BY DEF SortedFor
  <2>1. CASE lo <= x /\ y <= up
    <3>1. ~(x <= m /\ m <= y)
      <4>1. ASSUME x <= m, m <= y
            PROVE  NotBefore(b[y], b[m]) /\ NotBefore(b[m], b[x])
        BY <2>1, <4>1
      <4>2. m \in 1..N
        OBVIOUS
      <4> QED BY <4>1, <4>2, OrderFacts
    <3>2. Within(c, x, y)
      BY <1>1, <2>1, <3>1 DEF Within
    <3> QED BY <1>2, <1>4, <3>2
  <2>2. ASSUME NEW k \in 1..n, Within(calls[k], x, y)
        PROVE  \E q \in 1..Len(calls') : Within(calls'[q], x, y)
    BY <1>2, <1>4, <2>2
  <2> QED BY <2>1, <2>2 DEF SortedFor, n
<1>6. \A k \in 1..n : \A x \in 1..N : ~(lo <= x /\ x <= up /\ Within(calls[k], x, x))
  BY DEF DisjointFor, n
<1>7. \A x \in 1..N : /\ lo' <= x /\ x <= up' => lo <= x /\ x <= up /\ ~Within(c, x, x)
                      /\ Within(c, x, x) => lo <= x /\ x <= up
  BY <1>1 DEF Within
<1>8. \A k \in 1..Len(calls') : \A x \in 1..N : ~(lo' <= x /\ x <= up' /\ Within(calls'[k], x, x))
  BY <1>2, <1>4, <1>6, <1>7
<1>9. \A k, q \in 1..Len(calls') : \A x \in 1..N :
        k # q => ~(Within(calls'[k], x, x) /\ Within(calls'[q], x, x))
  <2> SUFFICES ASSUME NEW k \in 1..Len(calls'), NEW q \in 1..Len(calls'), NEW x \in 1..N, k # q,
                      Within(calls'[k], x, x), Within(calls'[q], x, x)
               PROVE  FALSE
    OBVIOUS
  <2>1. CASE k \in 1..n /\ q \in 1..n
    BY <1>2, <2>1 DEF DisjointFor, n
  <2>2. CASE k = n + 1 /\ q \in 1..n
    BY <1>2, <1>6, <1>7, <2>2
  <2>3. CASE q = n + 1 /\ k \in 1..n
    BY <1>2, <1>6, <1>7, <2>3
  <2> QED BY <1>4, <2>1, <2>2, <2>3
<1> QED BY <1>5, <1>8, <1>9 DEF DisjointFor

LEMMA DownOrder ==
    ASSUME SortAssumption, SortInv, Ordered, Down
    PROVE  OrderInv' /\ PartitionInvariant'
<1>0. Elem \subseteq Value
  BY Indices DEF SortInv
<1>1. /\ N \in Nat /\ N' = N /\ a \in [1..N -> Elem] /\ a' \in [1..N -> Elem]
      /\ lo \in 1..N + 1 /\ up \in 0..N /\ calls \in Seq(Interval)
      /\ DisjointFor(N, calls, lo, up) /\ SortedFor(N, a', calls, lo, up)
  BY Orders DEF Next
<1>2. pc = "down" /\ j' = j - 1 /\ i' = i /\ P' = P
  BY DEF Down
<1>3. /\ i \in lo + 1..up - 1 /\ j - 1 \in lo..up - 2 /\ a[up - 1] = P
      /\ i \in Int /\ j \in Int /\ P \in Elem /\ lo \in Int /\ up \in Int
  BY <1>1, <1>2, Indices DEF SortInv, IndexInv, InsideInterval
<1>4. /\ i \in 1..N /\ j - 1 \in 1..N /\ up - 1 \in 1..N /\ up \in 1..N
      /\ a[i] \in Elem /\ a[j - 1] \in Elem
  BY <1>1, <1>3
<1>5. /\ \A k \in lo..i - 1 : NotBefore(P, a[k])
      /\ \A k \in j..up : NotBefore(a[k], P)
      /\ NotBefore(a[i], P) /\ NotBefore(P, P)
  BY <1>2, <1>3, <1>0, OrderFacts DEF SortInv, PartitionInvariant, OrderInv
<1>6. CASE /\ sort_comp(P, a[j - 1], TRUE)
           /\ pc' = IF j - 1 < i THEN "error" ELSE pc
           /\ UNCHANGED <<a, lo, up, calls>>
  <2>1. NotBefore(a[j - 1], P) /\ ~NotBefore(P, a[j - 1])
    BY <1>3, <1>4, <1>6, <1>0, Answered
  <2>2. ~(j - 1 < i)
    <3>1. j - 1 < i => j - 1 \in lo..i - 1
      BY <1>3
    <3> QED BY <1>5, <2>1, <3>1
  <2>3. pc' = "down"
    BY <1>2, <1>6, <2>2
  <2>4. \A k \in j - 1..up : NotBefore(a[k], P)
    <3>1. \A k \in j - 1..up : k = j - 1 \/ k \in j..up
      BY <1>3
    <3> QED BY <1>5, <2>1, <3>1
  <2> QED BY <1>1, <1>2, <1>5, <1>6, <2>3, <2>4 DEF OrderInv, PartitionInvariant
<1>7. CASE /\ sort_comp(P, a[j - 1], FALSE) /\ j - 1 < i
           /\ a' = [a EXCEPT ![up - 1] = a[i], ![i] = P]
           /\ Split(i) /\ pc' = "next"
  <2>1. a' = Exchanged(a, up - 1, i)
    BY <1>3, <1>7 DEF Exchanged
  <2>2. \A k \in 1..N : a'[k] = IF k = up - 1 THEN a[i] ELSE IF k = i THEN P ELSE a[k]
    BY ONLY <1>1, <1>3, <1>4, <2>1, Exchanges
  <2>3. a'[i] = P
    BY <1>3, <1>4, <2>2
  <2>4. \A k \in lo..i : NotBefore(a'[i], a'[k])
    <3> TAKE k \in lo..i
    <3>1. CASE k = i
      BY <1>5, <2>3, <3>1
    <3>2. CASE k \in lo..i - 1
      <4>1. k \in 1..N /\ k # up - 1 /\ k # i
        BY <1>1, <1>3, <3>2
      <4> QED BY <1>5, <2>2, <2>3, <3>2, <4>1
    <3> QED BY <1>3, <3>1, <3>2
  <2>5. \A k \in i..up : NotBefore(a'[k], a'[i])
    <3> TAKE k \in i..up
    <3>1. k \in 1..N /\ (k = i \/ k \in j..up)
      BY <1>1, <1>3, <1>7
    <3> QED BY <1>5, <2>2, <2>3, <3>1
  <2>6. SortedFor(N, a', calls', lo', up') /\ DisjointFor(N, calls', lo', up')
    BY <1>0, <1>1, <1>3, <1>7, <2>4, <2>5, SplitSorted
  <2> QED BY <1>1, <1>7, <2>6 DEF OrderInv, PartitionInvariant
<1>8. CASE /\ sort_comp(P, a[j - 1], FALSE) /\ j - 1 >= i
           /\ a' = Swapped(i, j - 1)
           /\ pc' = "up" /\ UNCHANGED <<lo, up, calls>>
  <2>1. a' = Exchanged(a, i, j - 1)
    BY <1>8 DEF Swapped, Exchanged
  <2>2. \A k \in 1..N : a'[k] = IF k = i THEN a[j - 1] ELSE IF k = j - 1 THEN a[i] ELSE a[k]
    <3>1. N \in Nat /\ a \in [1..N -> Elem] /\ i \in 1..N /\ j - 1 \in 1..N
      BY <1>1, <1>4
    <3>2. \A k \in 1..N : Exchanged(a, i, j - 1)[k] =
            IF k = i THEN a[j - 1] ELSE IF k = j - 1 THEN a[i] ELSE a[k]
      BY ONLY <3>1, Exchanges
    <3> QED BY ONLY <2>1, <3>2
  <2>0. /\ j - 1 >= i /\ i > lo /\ lo >= 1 /\ up <= N /\ i < up
        /\ i \in Int /\ j \in Int /\ lo \in Int /\ up \in Int /\ N \in Int
    BY <1>1, <1>3, <1>8
  <2>3. NotBefore(P, a[j - 1])
    BY <1>3, <1>4, <1>8, <1>0, Answered
  <2>4. \A k \in lo..i : NotBefore(P, a'[k])
    <3> TAKE k \in lo..i
    <3>1. k \in 1..N /\ (k = i \/ (k \in lo..i - 1 /\ k # j - 1))
      BY ONLY <2>0, k \in lo..i
    <3> QED BY <1>5, <2>2, <2>3, <3>1
  <2>5. \A k \in j - 1..up : NotBefore(a'[k], P)
    <3> TAKE k \in j - 1..up
    <3>1. k \in 1..N /\ (k = j - 1 \/ (k \in j..up /\ k # i /\ k # j - 1))
      BY ONLY <2>0, k \in j - 1..up
    <3>2. k = j - 1 => a'[k] = a[i]
      BY <1>4, <2>2
    <3> QED BY <1>5, <2>2, <3>1, <3>2
  <2> QED BY <1>1, <1>2, <1>8, <2>4, <2>5 DEF OrderInv, PartitionInvariant
<1> QED BY <1>6, <1>7, <1>8 DEF Down

LEMMA CallOrder ==
    ASSUME SortAssumption, SortInv, Ordered, Call
    PROVE  OrderInv' /\ PartitionInvariant'
<1>1. /\ N \in Nat /\ N' = N /\ lo \in 1..N + 1 /\ up \in 0..N /\ calls \in Seq(Interval)
      /\ DisjointFor(N, calls, lo, up) /\ SortedFor(N, a', calls, lo, up)
  BY Orders DEF Next
<1>2. CASE lo < up /\ pc' = "ends" /\ UNCHANGED <<lo, up, calls>>
  BY <1>1, <1>2 DEF OrderInv, PartitionInvariant
<1>3. CASE ~(lo < up) /\ Return
  <2>1. \A x, y \in 1..N : lo <= x /\ x < y /\ y <= up => NotBefore(a'[y], a'[x])
    BY <1>1, <1>3
  <2>2. /\ pc' = "done" => \A x, y \in 1..N : x < y => NotBefore(a'[y], a'[x])
        /\ pc' # "done" => SortedFor(N, a', calls', lo', up') /\ DisjointFor(N, calls', lo', up')
    BY ONLY <1>1, <1>3, <2>1, ReturnSorted
  <2>3. pc' \in {"ends", "done"}
    BY <1>3 DEF Return
  <2> QED BY <1>1, <2>2, <2>3 DEF OrderInv, PartitionInvariant
<1> QED BY <1>2, <1>3 DEF Call

-----------------------------------------------------------------------------
(* The invariant is inductive.                                              *)
LEMMA SortInvInit ==
    ASSUME SortAssumption, Init
    PROVE  SortInv
<1>1. IndexInv
  BY InitIndices
<1>2. StaysPermutation
  BY DEF Init, StaysPermutation
<1>3. /\ calls = <<>> /\ lo = 1 /\ up = N /\ pc \in {"ends", "done"} /\ N \in Nat
      /\ pc = "done" => ~(N > 1)
  BY <1>1, Indices DEF Init
<1>4. SortedFor(N, a, calls, lo, up) /\ DisjointFor(N, calls, lo, up)
  BY <1>3 DEF SortedFor, DisjointFor
<1>5. pc = "done" => \A x, y \in 1..N : ~(x < y)
  BY <1>3
<1>6. OrderInv
  BY <1>3, <1>4, <1>5 DEF OrderInv
<1>7. PartitionInvariant
  BY <1>3 DEF PartitionInvariant
<1>8. SmallerIsCalled
  BY <1>3 DEF SmallerIsCalled
<1> QED BY <1>1, <1>2, <1>6, <1>7, <1>8 DEF SortInv

LEMMA SortInvNext ==
    ASSUME SortAssumption, SortInv, [Next]_vars
    PROVE  SortInv'
<1>1. CASE Next
  <2>0. Elem' = Elem
    BY <1>1, NextIndices DEF SortInv, Elem
  <2>1. IndexInv' /\ StaysPermutation' /\ SmallerIsCalled'
    BY <1>1, NextIndices, NextPermutation, NextSmaller DEF SortInv
  <2>2. ASSUME Ordered PROVE OrderInv' /\ PartitionInvariant'
    BY <1>1, <2>2, EndsOrder, LowOrder, HighOrder, UpOrder, DownOrder, CallOrder DEF Next
  <2>3. OrderInv' /\ PartitionInvariant'
    <3>1. Ordered' = Ordered
      BY <2>0 DEF Ordered
    <3> QED BY <2>2, <3>1 DEF OrderInv, PartitionInvariant
  <2> QED BY <2>1, <2>3 DEF SortInv
<1>2. CASE UNCHANGED vars
  <2> USE <1>2 DEF vars, N, Elem
  <2>1. TypeOK' = TypeOK
    BY DEF TypeOK
  <2>2. InsideInterval' = InsideInterval
    BY DEF InsideInterval
  <2>3. StaysPermutation' = StaysPermutation
    BY DEF StaysPermutation
  <2>7. SmallerIsCalled' = SmallerIsCalled
    BY DEF SmallerIsCalled, Beside
  <2>4. OrderInv' = OrderInv
    BY DEF OrderInv, Ordered, SortedFor, DisjointFor, Within, NotBefore
  <2>5. PartitionInvariant' = PartitionInvariant
    BY DEF PartitionInvariant, Ordered, NotBefore
  <2>6. i' = i /\ j' = j /\ pc' = pc /\ lo' = lo /\ up' = up
    OBVIOUS
  <2> QED BY ONLY SortInv, <2>1, <2>2, <2>3, <2>4, <2>5, <2>6, <2>7 DEF SortInv, IndexInv
<1> QED BY <1>1, <1>2

LEMMA SortInvImplies ==
    ASSUME SortAssumption, SortInv
    PROVE  SortsSafely
<1>1. N \in Nat
  BY Indices DEF SortInv
<1>2. SortsOrdered
  <2>1. \A k \in 1..N - 1 : k \in 1..N /\ k + 1 \in 1..N /\ k < k + 1
    BY <1>1
  <2> QED BY <2>1 DEF SortInv, OrderInv, SortsOrdered
<1> QED BY <1>2 DEF SortInv, IndexInv, SortsSafely

(* table.sort keeps every element as often as it was given, stays inside    *)
(* its interval and, for an order, sorts: for all arrays, order functions   *)
(* and pivots.                                                              *)
THEOREM SortIsSafe ==
    ASSUME SortAssumption
    PROVE  Spec => []SortsSafely
<1>1. Init => SortInv
  BY SortInvInit
<1>2. SortInv /\ [Next]_vars => SortInv'
  BY SortInvNext
<1>3. SortInv => SortsSafely
  BY SortInvImplies
<1> QED BY <1>1, <1>2, <1>3, PTL DEF Spec

(* Every variable keeps its type.                                           *)
THEOREM SortTyped ==
    ASSUME SortAssumption
    PROVE  Spec => []TypeOK
<1>1. Init => SortInv
  BY SortInvInit
<1>2. SortInv /\ [Next]_vars => SortInv'
  BY SortInvNext
<1>3. SortInv => TypeOK
  BY DEF SortInv, IndexInv
<1> QED BY <1>1, <1>2, <1>3, PTL DEF Spec
=============================================================================

------------------------------ MODULE LuaTable ------------------------------
(***************************************************************************)
(* Lua tables (ltable.c): an array part and a hash part that is a chained  *)
(* scatter table with Brent's variation, growing by rehashes, with         *)
(* traversals and the dead keys that the collector leaves.                 *)
(*                                                                         *)
(* A key is an integer or an object.  A node has a key (Nil when it was    *)
(* never used), whether the key is dead, a value, and the offset of the    *)
(* next node of its chain.  The dummy node is a hash part without nodes.   *)
(***************************************************************************)
EXTENDS LuaBorder, Integers, SequencesExt

CONSTANTS
    Objects,     \* keys that are collectable objects
    IntKeys,     \* integer keys
    Value, Nil,  \* what keys hold
    Hash,        \* the hash of each object
    MaxArray,    \* MAXASIZE
    Sizes,       \* sizes given to lua_createtable and OP_SETLIST
    Walks        \* are there traversals

KeysDiffer == Objects \cap IntKeys = {} /\ Nil \notin Value \cup Objects \cup IntKeys

VARIABLES
    t,       \* the table
    walking, \* a traversal is under way
    key,     \* its control variable: Nil at the start
    visited, \* the keys it has returned, in order (history)
    stayed   \* the keys that were there at its start and all the time since

vars == <<t, walking, key, visited, stayed>>

Key == Objects \cup IntKeys
Free == [key |-> Nil, dead |-> FALSE, val |-> Nil, next |-> 0]

sizenode(h) == Cardinality(DOMAIN h.node)
isdummy(h) == sizenode(h) = 0

\* hashpow2 for integers, hashmod for pointers.
mainposition(h, k) ==
    IF k \in Objects
    THEN Hash[k] % (IF sizenode(h) <= 2 THEN 1 ELSE sizenode(h) - 1)
    ELSE k % sizenode(h)

\* The nodes of the chain that starts at i, no more than there are.
ChainFrom(h, i) ==
    LET chain[j \in Int, n \in Nat] ==
          IF j \notin DOMAIN h.node \/ n = 0 THEN <<>>
          ELSE IF h.node[j].next = 0 THEN <<j>>
          ELSE <<j>> \o chain[j + h.node[j].next, n - 1]
    IN  chain[i, sizenode(h)]
Chain(h, k) == IF isdummy(h) THEN <<>> ELSE ChainFrom(h, mainposition(h, k))

InArray(h, k) == k \notin Objects /\ k \in 1..Len(h.array)

\* getgeneric, luaH_getint: the position of the key in its chain, or 0.
Found(h, k) ==
    SelectInSeq(Chain(h, k), LAMBDA j : h.node[j].key = k /\ ~h.node[j].dead)

luaH_get(h, k) ==
    IF InArray(h, k) THEN h.array[k]
    ELSE IF Found(h, k) = 0 THEN Nil ELSE h.node[Chain(h, k)[Found(h, k)]].val

\* The free node below lastfree, or -1.
getfreepos(h) ==
    LET free == {j \in 0..(h.lastfree - 1) : h.node[j].key = Nil}
    IN  IF free = {} THEN -1 ELSE CHOOSE j \in free : \A i \in free : i <= j

\* The node at mp moves to f; its key stays behind until it is overwritten.
MoveColliding(h, mp, f) ==
    LET prev == CHOOSE j \in Range(ChainFrom(h, mainposition(h, h.node[mp].key))) :
                  h.node[j].next # 0 /\ j + h.node[j].next = mp
        moved == IF h.node[mp].next = 0 THEN 0 ELSE h.node[mp].next + (mp - f)
    IN  [h EXCEPT !.node[prev].next = f - prev,
                  !.node[f] = [h.node[mp] EXCEPT !.next = moved],
                  !.node[mp] = [h.node[mp] EXCEPT !.next = 0, !.val = Nil]]

\* The new key takes the place f, next in the chain of the node at mp.
ChainNew(h, mp, f) ==
    [h EXCEPT !.node[f].next = IF h.node[mp].next = 0 THEN 0 ELSE mp + h.node[mp].next - f,
              !.node[mp].next = f - mp]

SetNode(h, j, k, v) == [h EXCEPT !.node[j].key = k, !.node[j].dead = FALSE, !.node[j].val = v]

NeedsRehash(h, k) ==
    getfreepos(h) = -1 /\ (~isdummy(h) => h.node[mainposition(h, k)].val # Nil)

\* Mutant: a colliding node stays where it is.
InsertNoMove(h, k, v) ==
    LET mp == mainposition(h, k)
        f == getfreepos(h)
    IN  IF h.node[mp].val = Nil THEN SetNode(h, mp, k, v)
        ELSE SetNode(ChainNew([h EXCEPT !.lastfree = f], mp, f), f, k, v)

\* luaH_newkey when there is room, and the assignment to the new node.
Insert(h, k, v) ==
    LET mp == mainposition(h, k)
        f == getfreepos(h)
        taken == [h EXCEPT !.lastfree = f]
    IN  IF h.node[mp].val = Nil THEN SetNode(h, mp, k, v)
        ELSE IF mainposition(h, h.node[mp].key) # mp
             THEN SetNode(MoveColliding(taken, mp, f), mp, k, v)
             ELSE SetNode(ChainNew(taken, mp, f), f, k, v)

\* The assignment to a key that is there.
Store(h, k, v) ==
    IF InArray(h, k) THEN [h EXCEPT !.array[k] = v]
    ELSE [h EXCEPT !.node[Chain(h, k)[Found(h, k)]].val = v]

Exists(h, k) == InArray(h, k) \/ Found(h, k) # 0

(* One re-insertion of a resize.  There must be room: luaH_set would start  *)
(* a second rehash within the first.                                       *)
Reinsert(h, e) ==
    IF Exists(h, e[1]) THEN Store(h, e[1], e[2])
    ELSE IF h.crowded \/ NeedsRehash(h, e[1]) THEN [h EXCEPT !.crowded = TRUE]
    ELSE Insert(h, e[1], e[2])

CeilPow2(n) == CHOOSE s \in {2^i : i \in 0..n} : s >= n /\ s < 2 * n
NodeVector(n) == IF n = 0 THEN <<>> ELSE [j \in 0..(CeilPow2(n) - 1) |-> Free]

\* The vanishing slice of the array goes first, then the old nodes from the
\* last to the first.
luaH_resize(h, na, nh) ==
    LET n == sizenode(h)
        slice == SelectSeq([i \in 1..(Max({Len(h.array), na}) - na) |-> <<na + i, h.array[na + i]>>],
                           LAMBDA e : e[2] # Nil)
        hash == SelectSeq([j \in 1..n |-> <<h.node[n - j].key, h.node[n - j].val>>],
                          LAMBDA e : e[2] # Nil)
        new == [array |-> [i \in 1..na |-> IF i <= Len(h.array) THEN h.array[i] ELSE Nil],
                node |-> NodeVector(nh), lastfree |-> Cardinality(DOMAIN NodeVector(nh)),
                crowded |-> FALSE]
    IN  FoldLeft(Reinsert, new, slice \o hash)

LiveKeys(h) ==
    {i \in 1..Len(h.array) : h.array[i] # Nil}
    \cup {h.node[j].key : j \in {i \in DOMAIN h.node : h.node[i].val # Nil}}
IndexKeys(keys) == {k \in keys : k \notin Objects /\ k \in 1..MaxArray}

\* numusearray, numusehash and countint: the keys in (2^(i-1), 2^i].
Nums(keys, i) == Cardinality({k \in IndexKeys(keys) : k <= 2^i /\ (i > 0 => k > 2^(i - 1))})

\* The size of the array part, and how many keys go there.
computesizes(keys) ==
    LET loop[i \in Nat, a \in Nat, na \in Nat, optimal \in Nat] ==
          LET b == a + Nums(keys, i)
          IN  IF Cardinality(IndexKeys(keys)) <= 2^i \div 2 THEN <<optimal, na>>
              ELSE IF Nums(keys, i) > 0 /\ b > 2^i \div 2 THEN loop[i + 1, b, b, 2^i]
              ELSE loop[i + 1, b, na, optimal]
    IN  loop[0, 0, 0, 0]

rehash(h, ek) ==
    LET keys == LiveKeys(h) \cup {ek}
        sizes == computesizes(keys)
    IN  luaH_resize(h, sizes[1], Cardinality(keys) - sizes[2])

luaH_set(h, k, v) ==
    IF Exists(h, k) THEN Store(h, k, v)
    ELSE IF ~NeedsRehash(h, k) THEN Insert(h, k, v)
    ELSE Reinsert(rehash(h, k), <<k, v>>)

-----------------------------------------------------------------------------
Empty == [array |-> <<>>, node |-> <<>>, lastfree |-> 0, crowded |-> FALSE]

\* luaH_new and lua_createtable.
Init ==
    /\ \E na, nh \in Sizes : t = luaH_resize(Empty, na, nh)
    /\ walking = FALSE /\ key = Nil /\ visited = <<>> /\ stayed = {}

\* t[k] = v: nil as well makes a key that is not there.
Assign(k, v) ==
    /\ ~walking
    /\ t' = luaH_set(t, k, v)
    /\ UNCHANGED <<walking, key, visited, stayed>>

\* Mutant: the array part has grown before memory for the nodes runs out.
AssignFailsGrown(k) ==
    /\ ~walking
    /\ Exists(t, k) = FALSE /\ NeedsRehash(t, k)
    /\ t' = [t EXCEPT !.lastfree = 0,
               !.array = LET na == computesizes(LiveKeys(t) \cup {k})[1]
                         IN  IF na <= Len(@) THEN @
                             ELSE @ \o [i \in 1..(na - Len(@)) |-> Nil]]
    /\ UNCHANGED <<walking, key, visited, stayed>>

\* No memory for the rehash: the array part goes back to its size.
AssignFails(k) ==
    /\ ~walking
    /\ Exists(t, k) = FALSE /\ NeedsRehash(t, k)
    /\ t' = [t EXCEPT !.lastfree = 0]
    /\ UNCHANGED <<walking, key, visited, stayed>>

\* OP_SETLIST makes room for its elements.
luaH_resizearray(n) ==
    /\ ~walking
    /\ n > Len(t.array)
    /\ t' = luaH_resize(t, n, sizenode(t))
    /\ UNCHANGED <<walking, key, visited, stayed>>

\* A traversal may change and clear fields that are there.
AssignExisting(k, v) ==
    /\ walking
    /\ luaH_get(t, k) # Nil
    /\ t' = Store(t, k, v)
    /\ stayed' = IF v = Nil THEN stayed \ {k} ELSE stayed
    /\ UNCHANGED <<walking, key, visited>>

\* The collector finds an entry without value whose key is not marked yet,
\* be it on a stack (removeentry in lgc.c).
RemoveEntry(o) ==
    /\ \E j \in DOMAIN t.node :
         /\ t.node[j].key = o /\ ~t.node[j].dead /\ t.node[j].val = Nil
         /\ t' = [t EXCEPT !.node[j].dead = TRUE]
    /\ UNCHANGED <<walking, key, visited, stayed>>

StartWalk ==
    /\ Walks /\ ~walking
    /\ walking' = TRUE
    /\ key' = Nil /\ visited' = <<>>
    /\ stayed' = LiveKeys(t)
    /\ UNCHANGED t

\* Mutant: nodes are counted from one less.
findindex_again(h, k) ==
    IF k = Nil THEN 0
    ELSE IF InArray(h, k) THEN k
    ELSE LET c == Chain(h, k)
             p == SelectInSeq(c, LAMBDA j : h.node[j].key = k)
         IN  IF p = 0 THEN -1 ELSE Len(h.array) + c[p]

\* Where the entry is, the array part first; -1 for an error.  A dead key
\* matches too.
findindex(h, k) ==
    IF k = Nil THEN 0
    ELSE IF InArray(h, k) THEN k
    ELSE LET c == Chain(h, k)
             p == SelectInSeq(c, LAMBDA j : h.node[j].key = k)
         IN  IF p = 0 THEN -1 ELSE Len(h.array) + c[p] + 1

luaH_next(h, k) ==
    LET keys == [i \in 1..Len(h.array) |-> i]
                  \o [j \in 1..sizenode(h) |-> h.node[j - 1].key]
        vals == h.array \o [j \in 1..sizenode(h) |-> h.node[j - 1].val]
        i == SelectInSubSeq(vals, findindex(h, k) + 1, Len(vals), LAMBDA v : v # Nil)
    IN  IF i = 0 THEN Nil ELSE keys[i]

WalkStep ==
    /\ walking
    /\ findindex(t, key) >= 0
    /\ key' = luaH_next(t, key)
    /\ walking' = (key' # Nil)
    /\ visited' = IF key' = Nil THEN <<>> ELSE Append(visited, key')
    /\ stayed' = IF key' = Nil THEN {} ELSE stayed
    /\ UNCHANGED t

Next ==
    \/ \E k \in Key, v \in Value \cup {Nil} : Assign(k, v) \/ AssignExisting(k, v)
    \/ \E k \in Key : AssignFails(k)
    \/ \E n \in Sizes : luaH_resizearray(n)
    \/ \E o \in Objects : RemoveEntry(o)
    \/ StartWalk \/ WalkStep

Spec == Init /\ [][Next]_vars

-----------------------------------------------------------------------------
\* Nodes link to nodes, each from one other at most, and the free pointer
\* is within the nodes.
TypeOK ==
    /\ t.lastfree \in 0..sizenode(t)
    /\ \A j \in DOMAIN t.node :
         /\ j + t.node[j].next \in DOMAIN t.node
         /\ \A i \in DOMAIN t.node \ {j} :
              (t.node[i].next # 0 /\ t.node[j].next # 0)
                => i + t.node[i].next # j + t.node[j].next
    /\ walking \in BOOLEAN

(* The main invariant of ltable.c:17-19: if an element is not in its main   *)
(* position, the colliding element is in its own.                          *)
MainPositions ==
    \A j \in DOMAIN t.node :
      LET mp == mainposition(t, t.node[j].key)
      IN  (t.node[j].val # Nil /\ mp # j /\ t.node[mp].val # Nil)
            => mainposition(t, t.node[mp].key) = mp

(* A rehash makes room for every element it moves, and for the new key: no  *)
(* re-insertion starts another rehash.                                     *)
RoomAfterRehash == ~t.crowded

(* luaH_getn gives a border (ltable.c:657-658), wherever the elements are   *)
(* and whatever holes there are.                                           *)
LengthIsBorder ==
    LET present == {i \in IntKeys : i > 0 /\ luaH_get(t, i) # Nil}
        n == Border(present, Len(t.array), isdummy(t))
    IN  (n = 0 \/ n \in present) /\ n + 1 \notin present

(* The array part that a rehash makes is the largest of which more than     *)
(* half is in use (ltable.c:15-16), counting the key to come.              *)
MoreThanHalf ==
    (/\ t'.node # t.node /\ Len(t'.array) # Len(t.array) /\ ~walking
     /\ \E k \in Key : k \notin LiveKeys(t) /\ t' = luaH_set(t, k, CHOOSE v \in Value : TRUE))
    => LET used(n) == Cardinality({k \in LiveKeys(t') : k \in IndexKeys(LiveKeys(t')) /\ k <= n})
           fits == {n \in {2^i : i \in 0..4} : used(n) > n \div 2 /\ n > 0}
       IN  Len(t'.array) = IF fits = {} THEN 0 ELSE CHOOSE n \in fits : \A m \in fits : m <= n

(* A traversal in which fields are changed and cleared, and in which the    *)
(* collector removes what was cleared, never fails, returns no key twice,  *)
(* and has returned every key that stayed when it ends.                    *)
WalkNeverFails == walking => findindex(t, key) >= 0
WalkIsComplete ==
    WalkStep => /\ key' \notin Range(visited)
                /\ key' = Nil => stayed \subseteq Range(visited)

(* The table is a map: assignments change the key they name; rehashes,      *)
(* moves, failed growth, traversals and the collector change nothing.      *)
Content == [k \in Key |-> luaH_get(t, k)]
Map == INSTANCE LuaMap WITH content <- Content
ImplementsMap == Map!Spec
=============================================================================

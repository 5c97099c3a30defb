------------------------------ MODULE LuaString ----------------------------
(***************************************************************************)
(* Internalized strings (lstring.c): the string table, the cache of        *)
(* luaS_new, and the collector that takes strings away, also in the middle *)
(* of making one, when there is no memory.  A chain is the set of its      *)
(* strings: no two have the same text, and only the first of them is found.*)
(* At the end: the proof that this is kept, for any hash and any memory.   *)
(***************************************************************************)
EXTENDS Integers, FiniteSets, FiniteSetTheorems, TLAPS

CONSTANTS
    TString,  \* the string objects there is room for
    Text,     \* what strings hold
    Hash,     \* the hash of each text
    Address,  \* the addresses of strings of the program, and what is there
    MinSize,  \* MINSTRTABSIZE
    MaxSize,  \* bound: the size of the table
    Msg       \* memerrmsg, which is never collected

None == "None"

StringAssumption ==
    /\ IsFiniteSet(TString) /\ Msg \in TString
    /\ Text # {} /\ None \notin Text
    /\ Hash \in [Text -> Nat]
    /\ \A a \in DOMAIN Address : a \in Nat /\ Address[a] \in Text
    /\ MinSize \in Nat /\ MaxSize \in Nat /\ 0 < MinSize /\ MinSize <= MaxSize

CacheLines == {0, 1} \* STRCACHE_N
CacheWays == 2       \* STRCACHE_M

VARIABLES
    s,    \* the global state: tb (sets of objects), size, nuse, cache,
          \* text, colour, phase, white, sweep (objects still to be swept)
    held  \* the strings the program has references to

vars == <<s, held>>

OtherWhite(c) == IF c.white = "w0" THEN "w1" ELSE "w0"
IsWhite(c, o) == c.colour[o] \in {"w0", "w1"}
IsDead(c, o) == c.colour[o] = OtherWhite(c)
Allocated(c) == {o \in TString : c.text[o] # None}
lmod(t, size) == Hash[t] % size

-----------------------------------------------------------------------------
(***************************************************************************)
(* luaS_resize: every string of the old buckets is chained again.          *)
(***************************************************************************)

Rehash(c, size) ==
    LET chained == UNION {c.tb[k] : k \in 0..c.size - 1}
    IN  [i \in 0..MaxSize - 1 |-> {o \in chained : lmod(c.text[o], size) = i}]
luaS_resize(c, size) == [c EXCEPT !.tb = Rehash(c, size), !.size = size]

\* luaS_remove of each of these objects, which are freed.
luaS_remove(c, objects) ==
    [c EXCEPT !.tb = [i \in 0..MaxSize - 1 |->
                        c.tb[i] \ {o \in objects : lmod(c.text[o], c.size) = i}],
              !.nuse = @ - Cardinality(objects),
              !.text = [o \in TString |-> IF o \in objects THEN None ELSE @[o]]]

-----------------------------------------------------------------------------
(***************************************************************************)
(* The collector, as far as strings see it                                 *)
(***************************************************************************)

\* What will be collected leaves the cache.
luaS_clearcache(c) ==
    [l \in CacheLines |-> [w \in 1..CacheWays |->
       IF IsWhite(c, c.cache[l][w]) THEN Msg ELSE c.cache[l][w]]]

Mark(c, objects) == [c EXCEPT !.colour = [o \in TString |-> IF o \in objects THEN "black" ELSE @[o]]]

\* atomic and entersweep.
EnterSweep(c, roots) ==
    LET d == Mark(c, roots \cup {Msg})
    IN  [d EXCEPT !.cache = luaS_clearcache(d), !.white = OtherWhite(d),
                  !.phase = "sweep", !.sweep = Allocated(d)]
\* Of these objects the dead ones are freed and the others turn white.
SweepObjects(c, objects) ==
    LET dead == {o \in objects : IsDead(c, o)}
    IN  [luaS_remove(c, dead) EXCEPT
           !.colour = [o \in TString |-> IF o \in objects \ dead THEN c.white ELSE c.colour[o]],
           !.sweep = @ \ objects]
SweepAll(c) == SweepObjects(c, c.sweep)

\* checkSizes, not in an emergency.
checkSizes(c) == IF c.nuse < c.size \div 4 THEN luaS_resize(c, c.size \div 2) ELSE c

\* luaC_fullgc in an emergency: what was marked so far is swept to white.
EmergencyGC(c, roots) ==
    LET d == IF c.phase = "mark" THEN [c EXCEPT !.sweep = Allocated(c)] ELSE c
    IN  [SweepAll(EnterSweep(SweepAll(d), roots)) EXCEPT !.phase = "pause"]

-----------------------------------------------------------------------------
(***************************************************************************)
(* internshrstr, in its three parts; an allocation that fails collects.    *)
(***************************************************************************)

\* The objects with this text in the bucket of its hash.
Lookup(c, t) == {o \in c.tb[lmod(t, c.size)] : c.text[o] = t}

\* Mutant: a dead string is returned as it is.
Resurrect_not(c, o) == c
Resurrect(c, o) == IF IsDead(c, o) THEN [c EXCEPT !.colour[o] = c.white] ELSE c

Grow(c, t, short) ==
    IF c.nuse >= c.size /\ 2 * c.size <= MaxSize
    THEN luaS_resize(IF short THEN EmergencyGC(c, held) ELSE c, 2 * c.size) ELSE c

\* The bucket is chosen before the object o is allocated, which may collect.
Create(c, o, t, short) ==
    LET bucket == lmod(t, c.size)
        d == IF short THEN EmergencyGC(c, held) ELSE c
        free == o \notin Allocated(d)
    IN  IF free THEN {<<[d EXCEPT !.text[o] = t, !.colour[o] = d.white, !.nuse = d.nuse + 1,
                                  !.tb[bucket] = @ \cup {o}], o>>}
        ELSE {}

\* The state after it and the object, of those that are free in the end.
Interned(c, t) ==
    IF Lookup(c, t) # {} THEN {<<Resurrect(c, o), o>> : o \in Lookup(c, t)}
    ELSE UNION {Create(Grow(c, t, short1), o, t, short2) : short1, short2 \in BOOLEAN, o \in TString}

-----------------------------------------------------------------------------
Init ==
    /\ held = {}
    /\ LET t == CHOOSE x \in Text : TRUE
       IN  s = [tb |-> [i \in 0..MaxSize - 1 |-> IF i = lmod(t, MinSize) THEN {Msg} ELSE {}],
                size |-> MinSize, nuse |-> 1,
                cache |-> [l \in CacheLines |-> [w \in 1..CacheWays |-> Msg]],
                text |-> [o \in TString |-> IF o = Msg THEN t ELSE None],
                colour |-> [o \in TString |-> "w0"], white |-> "w0",
                phase |-> "pause", sweep |-> {}]

\* luaS_newlstr of a short string.
luaS_newlstr(t) ==
    \E r \in Interned(s, t) : s' = r[1] /\ held' = held \cup {r[2]}

\* luaS_new: the cache is asked first; a new entry pushes out the last.
luaS_new(a) ==
    LET line == s.cache[a % 2]
        hits == {w \in 1..CacheWays : s.text[line[w]] = Address[a]}
    IN  IF hits # {} THEN held' = held \cup {line[CHOOSE w \in hits : TRUE]} /\ s' = s
        ELSE LET c == [s EXCEPT !.cache[a % 2] = <<line[1], line[1]>>]
             IN  \E r \in Interned(c, Address[a]) :
                   /\ s' = [r[1] EXCEPT !.cache[a % 2][1] = r[2]]
                   /\ held' = held \cup {r[2]}

Drop(o) == o \in held /\ held' = held \ {o} /\ UNCHANGED s

StartMark == s.phase = "pause" /\ s' = [s EXCEPT !.phase = "mark"] /\ UNCHANGED held
MarkOne(o) ==
    /\ s.phase = "mark" /\ o \in held /\ IsWhite(s, o)
    /\ s' = Mark(s, {o}) /\ UNCHANGED held
Atomic == s.phase = "mark" /\ s' = EnterSweep(s, held) /\ UNCHANGED held
Sweep(o) ==
    /\ s.phase = "sweep" /\ o \in s.sweep
    /\ s' = SweepObjects(s, {o}) /\ UNCHANGED held
EndSweep ==
    /\ s.phase = "sweep" /\ s.sweep = {}
    /\ s' = [checkSizes(s) EXCEPT !.phase = "pause"] /\ UNCHANGED held

Next ==
    \/ \E t \in Text : luaS_newlstr(t)
    \/ \E a \in DOMAIN Address : luaS_new(a)
    \/ \E o \in TString : Drop(o) \/ MarkOne(o) \/ Sweep(o)
    \/ StartMark \/ Atomic \/ EndSweep
Spec == Init /\ [][Next]_vars

-----------------------------------------------------------------------------
(* Every string is in the bucket of its hash and in no other, nothing else  *)
(* is, and nuse counts them: after any resize, and when a collection in the *)
(* middle of making a string took others away.                             *)
TableOK ==
    /\ s.size \in 1..MaxSize
    /\ s.nuse = Cardinality(Allocated(s))
    /\ \A i \in 0..MaxSize - 1 :
         s.tb[i] = {o \in Allocated(s) : lmod(s.text[o], s.size) = i}

(* Lua compares short strings by their addresses: two strings of the        *)
(* program with the same text are one object.                              *)
EqualIsSame == \A o, q \in Allocated(s) : s.text[o] = s.text[q] => o = q

(* A string that the program got, from the table, from the cache or dead    *)
(* and not collected yet, is not taken from it.                            *)
HeldIsAlive == \A o \in held : o \in Allocated(s) /\ ~IsDead(s, o)

(* luaS_new compares texts with what the cache holds: no entry was freed,   *)
(* or will be.                                                             *)
CacheIsAlive ==
    \A l \in CacheLines, w \in 1..CacheWays :
      s.cache[l][w] \in Allocated(s) /\ ~IsDead(s, s.cache[l][w])

(* Equal strings of a program are one object, in the bucket of its hash, and *)
(* neither the program nor the cache holds one that is freed: through       *)
(* resizes, and collections in the middle of making a string.              *)
StringsInterned == TableOK /\ EqualIsSame /\ HeldIsAlive /\ CacheIsAlive

-----------------------------------------------------------------------------
(***************************************************************************)
(* The proof.  Good says of one state of the table and of the strings that *)
(* the program holds what every operation needs: Msg is alive, and what is *)
(* still to be swept is allocated.                                         *)
(***************************************************************************)
State ==
    [tb : [0..MaxSize - 1 -> SUBSET TString], size : 1..MaxSize, nuse : Nat,
     cache : [CacheLines -> [1..CacheWays -> TString]], text : [TString -> Text \cup {None}],
     colour : [TString -> {"w0", "w1", "black"}], white : {"w0", "w1"},
     phase : {"pause", "mark", "sweep"}, sweep : SUBSET TString]

Alive(c, o) == o \in Allocated(c) /\ ~IsDead(c, o)
CacheAlive(c) == \A l \in CacheLines, w \in 1..CacheWays : Alive(c, c.cache[l][w])
Chained(c) ==
    \A i \in 0..MaxSize - 1 : c.tb[i] = {o \in Allocated(c) : lmod(c.text[o], c.size) = i}
Distinct(c) == \A o, q \in Allocated(c) : c.text[o] = c.text[q] => o = q

Good(c, h) ==
    /\ c \in State
    /\ Chained(c)
    /\ c.nuse = Cardinality(Allocated(c))
    /\ Distinct(c)
    /\ h \subseteq TString /\ \A o \in h \cup {Msg} : Alive(c, o)
    /\ CacheAlive(c)
    /\ c.sweep \subseteq Allocated(c)

(* A position is a bucket.                                                  *)
LEMMA Position ==
    ASSUME StringAssumption, NEW t \in Text, NEW size \in Nat \ {0}
    PROVE  lmod(t, size) \in 0..size - 1
  BY DEF StringAssumption, lmod

LEMMA AllocatedFinite ==
    ASSUME StringAssumption, NEW c
    PROVE  IsFiniteSet(Allocated(c)) /\ Cardinality(Allocated(c)) \in Nat
  BY FS_Subset, FS_CardinalityType DEF StringAssumption, Allocated

(* Resizing keeps the strings and chains each where it belongs.             *)
LEMMA ResizeGood ==
    ASSUME StringAssumption, NEW c, NEW h, Good(c, h), NEW size \in 1..MaxSize
    PROVE  Good(luaS_resize(c, size), h) /\ luaS_resize(c, size).text = c.text
  <1> DEFINE d == luaS_resize(c, size)
  <1>1. c \in State /\ Chained(c)
    BY DEF Good
  <1>2. UNION {c.tb[k] : k \in 0..c.size - 1} = Allocated(c)
    <2>1. \A k \in 0..c.size - 1 : c.tb[k] = {o \in Allocated(c) : lmod(c.text[o], c.size) = k}
      BY <1>1, StringAssumption DEF State, Chained, StringAssumption
    <2>2. \A o \in Allocated(c) : lmod(c.text[o], c.size) \in 0..c.size - 1
      BY <1>1, Position DEF State, Allocated
    <2> QED BY <2>1, <2>2
  <1>3. Rehash(c, size) = [i \in 0..MaxSize - 1 |-> {o \in Allocated(c) : lmod(c.text[o], size) = i}]
    BY <1>2 DEF Rehash
  <1>4. /\ d.tb = Rehash(c, size) /\ d.size = size /\ d.nuse = c.nuse /\ d.cache = c.cache
        /\ d.text = c.text /\ d.colour = c.colour /\ d.white = c.white /\ d.sweep = c.sweep
    BY <1>1 DEF State, luaS_resize
  <1>5. d \in State
    <2>1. Rehash(c, size) \in [0..MaxSize - 1 -> SUBSET TString]
      BY <1>3 DEF Allocated
    <2> QED BY <1>1, <2>1 DEF State, luaS_resize
  <1>6. Allocated(d) = Allocated(c) /\ \A o : IsDead(d, o) = IsDead(c, o)
    BY <1>4 DEF Allocated, IsDead, OtherWhite
  <1>7. Chained(d)
    BY <1>3, <1>4, <1>6 DEF Chained
  <1> HIDE DEF d
  <1>8. Good(d, h)
    BY <1>4, <1>5, <1>6, <1>7 DEF Good, Alive, CacheAlive, Distinct
  <1> QED BY <1>4, <1>8 DEF d

(* Sweeping objects that are to be swept takes the dead of them away.       *)
LEMMA SweepGood ==
    ASSUME StringAssumption, NEW c, NEW h, Good(c, h), NEW objects \in SUBSET c.sweep
    PROVE  LET d == SweepObjects(c, objects)
           IN  /\ Good(d, h)
               /\ d.size = c.size /\ d.sweep = c.sweep \ objects
               /\ Allocated(d) \subseteq Allocated(c)
               /\ \A o \in Allocated(d) : d.text[o] = c.text[o]
  <1> DEFINE dead == {o \in objects : IsDead(c, o)}
             d == SweepObjects(c, objects)
  <1>1. c \in State /\ Chained(c) /\ Distinct(c) /\ CacheAlive(c) /\ c.sweep \subseteq Allocated(c)
    BY DEF Good
  <1>2. dead \subseteq Allocated(c) /\ dead \subseteq TString
    BY <1>1 DEF Allocated
  <1>3. /\ d.tb = [i \in 0..MaxSize - 1 |-> c.tb[i] \ {o \in dead : lmod(c.text[o], c.size) = i}]
        /\ d.nuse = c.nuse - Cardinality(dead)
        /\ d.text = [o \in TString |-> IF o \in dead THEN None ELSE c.text[o]]
        /\ d.colour = [o \in TString |-> IF o \in objects \ dead THEN c.white ELSE c.colour[o]]
        /\ d.sweep = c.sweep \ objects
        /\ d.size = c.size /\ d.cache = c.cache /\ d.white = c.white /\ d.phase = c.phase
    BY <1>1 DEF State, SweepObjects, luaS_remove
  <1>4. Allocated(d) = Allocated(c) \ dead
    BY <1>3 DEF Allocated
  <1>5. \A o \in Allocated(d) : d.text[o] = c.text[o]
    BY <1>2, <1>3, <1>4 DEF Allocated
  <1>6. d.nuse = Cardinality(Allocated(d)) /\ d.nuse \in Nat
    <2>1. /\ IsFiniteSet(Allocated(c)) /\ IsFiniteSet(Allocated(d))
          /\ Cardinality(Allocated(d)) \in Nat
      BY AllocatedFinite
    <2>2. Cardinality(Allocated(c) \ dead) = Cardinality(Allocated(c)) - Cardinality(Allocated(c) \cap dead)
      BY <2>1, FS_Difference
    <2>3. Allocated(c) \cap dead = dead
      BY <1>2
    <2>4. c.nuse = Cardinality(Allocated(c))
      BY DEF Good
    <2>5. d.nuse = c.nuse - Cardinality(dead)
      BY <1>3
    <2> HIDE DEF dead, d
    <2>6. Cardinality(Allocated(d)) = Cardinality(Allocated(c)) - Cardinality(dead)
      BY <1>4, <2>2, <2>3
    <2> QED BY <2>1, <2>4, <2>5, <2>6
  <1>7. d \in State
    <2>1. d.tb \in [0..MaxSize - 1 -> SUBSET TString]
      <3>1. \A i \in 0..MaxSize - 1 : c.tb[i] \subseteq TString
        BY <1>1 DEF State
      <3> HIDE DEF dead
      <3> QED BY <1>3, <3>1
    <2>2. d.text \in [TString -> Text \cup {None}]
      BY <1>1, <1>3 DEF State
    <2>3. d.colour \in [TString -> {"w0", "w1", "black"}]
      BY <1>1, <1>3 DEF State
    <2>4. d = [c EXCEPT !.tb = d.tb, !.nuse = d.nuse, !.text = d.text, !.colour = d.colour, !.sweep = d.sweep]
      BY <1>1 DEF State, SweepObjects, luaS_remove
    <2>5. d.sweep \subseteq TString
      BY <1>1, <1>3 DEF State
    <2> HIDE DEF d, dead
    <2> QED BY <1>1, <1>6, <2>1, <2>2, <2>3, <2>4, <2>5 DEF State
  <1>8. Chained(d)
    <2> SUFFICES ASSUME NEW i \in 0..MaxSize - 1
                 PROVE  d.tb[i] = {o \in Allocated(d) : lmod(d.text[o], d.size) = i}
      BY DEF Chained
    <2>1. d.tb[i] = c.tb[i] \ {o \in dead : lmod(c.text[o], c.size) = i}
      BY <1>3
    <2>2. c.tb[i] = {o \in Allocated(c) : lmod(c.text[o], c.size) = i}
      BY <1>1 DEF Chained
    <2>3. \A o \in Allocated(d) : lmod(d.text[o], d.size) = lmod(c.text[o], c.size)
      BY <1>3, <1>5
    <2> HIDE DEF d, dead
    <2> QED BY <1>4, <2>1, <2>2, <2>3
  <1>9. \A o : Alive(c, o) => Alive(d, o)
    <2> SUFFICES ASSUME NEW o, Alive(c, o) PROVE Alive(d, o)
      OBVIOUS
    <2>1. o \in Allocated(c) /\ o \in TString /\ ~IsDead(c, o) /\ o \notin dead
      BY DEF Alive, Allocated
    <2>2. d.colour[o] \in {c.white, c.colour[o]} /\ d.white = c.white
      BY <1>3, <2>1
    <2>3. ~IsDead(d, o)
      BY <1>1, <2>1, <2>2 DEF IsDead, OtherWhite, State
    <2> QED BY <1>4, <2>1, <2>3 DEF Alive
  <1>10. Distinct(d) /\ CacheAlive(d)
    BY <1>1, <1>3, <1>4, <1>5, <1>9 DEF Distinct, CacheAlive
  <1>11. d.sweep \subseteq Allocated(d)
    <2>1. c.sweep \subseteq Allocated(c) /\ dead \subseteq objects
      BY <1>1
    <2> HIDE DEF d, dead
    <2> QED BY <1>3, <1>4, <2>1
  <1>12. h \subseteq TString /\ \A o \in h \cup {Msg} : Alive(d, o)
    BY <1>9 DEF Good
  <1> HIDE DEF d, dead
  <1>13. Good(d, h)
    BY <1>6, <1>7, <1>8, <1>10, <1>11, <1>12 DEF Good
  <1>14. d.size = c.size /\ d.sweep = c.sweep \ objects /\ Allocated(d) \subseteq Allocated(c)
    BY <1>3, <1>4
  <1> QED BY <1>5, <1>13, <1>14 DEF d

(* What does not touch the table, the strings and the cache keeps them.     *)
LEMMA SameStrings ==
    ASSUME StringAssumption, NEW c, NEW h, Good(c, h), NEW d, d \in State,
           d.tb = c.tb, d.size = c.size, d.nuse = c.nuse, d.cache = c.cache,
           d.text = c.text, d.colour = c.colour, d.white = c.white,
           d.sweep \subseteq Allocated(c), NEW g, g \subseteq h
    PROVE  Good(d, g) /\ Allocated(d) = Allocated(c)
  <1>1. Allocated(d) = Allocated(c) /\ \A o : Alive(d, o) = Alive(c, o)
    BY DEF Allocated, Alive, IsDead, OtherWhite
  <1> QED BY <1>1 DEF Good, Chained, Distinct, CacheAlive

(* The atomic step blackens the roots, and clears the cache of what will be *)
(* freed.                                                                  *)
LEMMA EnterSweepGood ==
    ASSUME StringAssumption, NEW c, NEW h, Good(c, h)
    PROVE  LET e == EnterSweep(c, h)
           IN  /\ Good(e, h) /\ e.size = c.size /\ e.text = c.text
               /\ Allocated(e) = Allocated(c)
  <1> DEFINE d == Mark(c, h \cup {Msg})
             e == EnterSweep(c, h)
  <1>1. c \in State
    BY DEF Good
  <1>2. /\ d.colour = [o \in TString |-> IF o \in h \cup {Msg} THEN "black" ELSE c.colour[o]]
        /\ d.text = c.text /\ d.white = c.white /\ d.cache = c.cache
        /\ d.tb = c.tb /\ d.size = c.size /\ d.nuse = c.nuse /\ d \in State
    BY <1>1 DEF Mark, State
  <1>3. Allocated(d) = Allocated(c)
    BY <1>2 DEF Allocated
  <1> HIDE DEF d
  <1>4. /\ e.tb = c.tb /\ e.size = c.size /\ e.nuse = c.nuse /\ e.text = c.text
        /\ e.colour = d.colour /\ e.white = OtherWhite(d) /\ e.sweep = Allocated(d)
        /\ e.cache = luaS_clearcache(d)
        /\ e = [d EXCEPT !.cache = luaS_clearcache(d), !.white = OtherWhite(d),
                         !.phase = "sweep", !.sweep = Allocated(d)]
    BY <1>2 DEF EnterSweep, State, d
  <1>5. luaS_clearcache(d) \in [CacheLines -> [1..CacheWays -> TString]]
    <2>1. \A l \in CacheLines, w \in 1..CacheWays : d.cache[l][w] \in TString
      <3>1. d.cache \in [CacheLines -> [1..CacheWays -> TString]]
        BY <1>2 DEF State
      <3> QED BY <3>1
    <2>2. Msg \in TString
      BY StringAssumption DEF StringAssumption
    <2> QED BY <2>1, <2>2 DEF luaS_clearcache
  <1>6. e \in State
    BY <1>2, <1>4, <1>5 DEF State, OtherWhite, Allocated
  <1> HIDE DEF e
  <1>7. Allocated(e) = Allocated(c)
    BY <1>4 DEF Allocated
  <1>8. \A o \in Allocated(c) : ~IsWhite(d, o) => Alive(e, o)
    BY <1>2, <1>4, <1>7 DEF Alive, IsDead, IsWhite, OtherWhite, State
  <1>9. \A o \in h \cup {Msg} : o \in Allocated(c) /\ ~IsWhite(d, o)
    BY <1>2 DEF Good, Alive, Allocated, IsWhite
  <1>10. CacheAlive(e)
    <2> SUFFICES ASSUME NEW l \in CacheLines, NEW w \in 1..CacheWays PROVE Alive(e, e.cache[l][w])
      BY DEF CacheAlive
    <2>1. e.cache[l][w] = IF IsWhite(d, c.cache[l][w]) THEN Msg ELSE c.cache[l][w]
      BY <1>2, <1>4 DEF luaS_clearcache
    <2>2. c.cache[l][w] \in Allocated(c)
      BY DEF Good, CacheAlive, Alive
    <2> QED BY <1>8, <1>9, <2>1, <2>2
  <1>11. Good(e, h)
    BY <1>3, <1>4, <1>6, <1>7, <1>8, <1>9, <1>10 DEF Good, Chained, Distinct
  <1> QED BY <1>4, <1>7, <1>11 DEF e

(* A collection in an emergency, at any phase: the size is kept, and no     *)
(* string is new.                                                          *)
LEMMA EmergencyGood ==
    ASSUME StringAssumption, NEW c, NEW h, Good(c, h)
    PROVE  LET e == EmergencyGC(c, h)
           IN  /\ Good(e, h) /\ e.size = c.size /\ Allocated(e) \subseteq Allocated(c)
               /\ \A o \in Allocated(e) : e.text[o] = c.text[o]
  <1> DEFINE d == IF c.phase = "mark" THEN [c EXCEPT !.sweep = Allocated(c)] ELSE c
             f == SweepAll(d)
             g == EnterSweep(f, h)
             i == SweepAll(g)
             e == [i EXCEPT !.phase = "pause"]
  <1>1. d \in State /\ d.size = c.size /\ d.text = c.text /\ Good(d, h) /\ Allocated(d) = Allocated(c)
    <2>1. c \in State /\ c.sweep \subseteq Allocated(c)
      BY DEF Good
    <2>2. /\ d \in State /\ d.tb = c.tb /\ d.size = c.size /\ d.nuse = c.nuse /\ d.cache = c.cache
          /\ d.text = c.text /\ d.colour = c.colour /\ d.white = c.white
          /\ d.sweep \subseteq Allocated(c)
      BY <2>1 DEF State, Allocated
    <2> HIDE DEF d
    <2> QED BY <2>2, SameStrings
  <1> HIDE DEF d
  <1>2. /\ Good(f, h) /\ f.size = d.size /\ Allocated(f) \subseteq Allocated(d)
        /\ \A o \in Allocated(f) : f.text[o] = d.text[o]
    <2>1. d.sweep \in SUBSET d.sweep
      OBVIOUS
    <2> QED BY <1>1, <2>1, SweepGood DEF SweepAll
  <1> HIDE DEF f
  <1>3. Good(g, h) /\ g.size = f.size /\ g.text = f.text /\ Allocated(g) = Allocated(f)
    BY <1>2, EnterSweepGood
  <1> HIDE DEF g
  <1>4. /\ Good(i, h) /\ i.size = g.size /\ Allocated(i) \subseteq Allocated(g)
        /\ \A o \in Allocated(i) : i.text[o] = g.text[o]
    <2>1. g.sweep \in SUBSET g.sweep
      OBVIOUS
    <2> QED BY <1>3, <2>1, SweepGood DEF SweepAll
  <1> HIDE DEF i
  <1>5. Good(e, h) /\ e.size = i.size /\ e.text = i.text /\ Allocated(e) = Allocated(i)
    <2>1. i \in State /\ i.sweep \subseteq Allocated(i)
      BY <1>4 DEF Good
    <2>2. /\ e \in State /\ e.tb = i.tb /\ e.size = i.size /\ e.nuse = i.nuse /\ e.cache = i.cache
          /\ e.text = i.text /\ e.colour = i.colour /\ e.white = i.white /\ e.sweep = i.sweep
      BY <2>1 DEF State
    <2> HIDE DEF e
    <2> QED BY <1>4, <2>1, <2>2, SameStrings
  <1>6. e = EmergencyGC(c, h)
    BY DEF EmergencyGC, d, f, g, i
  <1> HIDE DEF e
  <1> QED BY <1>1, <1>2, <1>3, <1>4, <1>5, <1>6

(* The table that an allocation may have grown, and collected from, holds   *)
(* no text that it did not hold.                                           *)
LEMMA GrowGood ==
    ASSUME StringAssumption, NEW c, Good(c, held), NEW t \in Text,
           \A o \in Allocated(c) : c.text[o] # t, NEW short \in BOOLEAN
    PROVE  LET e == Grow(c, t, short)
           IN  Good(e, held) /\ \A o \in Allocated(e) : e.text[o] # t
  <1> DEFINE d == IF short THEN EmergencyGC(c, held) ELSE c
             e == Grow(c, t, short)
  <1>1. Good(d, held) /\ \A o \in Allocated(d) : d.text[o] # t
    BY EmergencyGood
  <1> HIDE DEF d
  <1>2. CASE c.nuse >= c.size /\ 2 * c.size <= MaxSize
    <2>1. 2 * c.size \in 1..MaxSize
      <3>1. c.size \in 1..MaxSize
        BY DEF Good, State
      <3> QED BY <1>2, <3>1 DEF StringAssumption
    <2>2. e = luaS_resize(d, 2 * c.size)
      BY <1>2 DEF Grow, d
    <2>3. Good(e, held) /\ e.text = d.text
      BY <1>1, <2>1, <2>2, ResizeGood
    <2>4. Allocated(e) = Allocated(d)
      BY <2>3 DEF Allocated
    <2> HIDE DEF e
    <2>5. \A o \in Allocated(e) : e.text[o] # t
      BY <1>1, <2>3, <2>4
    <2> QED BY <2>3, <2>5 DEF e
  <1>3. CASE ~(c.nuse >= c.size /\ 2 * c.size <= MaxSize)
    <2>1. e = c
      BY <1>3 DEF Grow
    <2> QED BY <2>1
  <1> QED BY <1>2, <1>3

(* A new string goes into the bucket that was chosen before its allocation  *)
(* collected: the collection has kept the size.                            *)
LEMMA CreateGood ==
    ASSUME StringAssumption, NEW c, Good(c, held), NEW o \in TString, NEW t \in Text,
           \A q \in Allocated(c) : c.text[q] # t, NEW short \in BOOLEAN,
           NEW r \in Create(c, o, t, short)
    PROVE  Good(r[1], held \cup {r[2]})
  <1> DEFINE d == IF short THEN EmergencyGC(c, held) ELSE c
             e == [d EXCEPT !.text[o] = t, !.colour[o] = d.white, !.nuse = d.nuse + 1,
                            !.tb[lmod(t, c.size)] = @ \cup {o}]
  <1>1. Good(d, held) /\ d.size = c.size /\ \A q \in Allocated(d) : d.text[q] # t
    BY EmergencyGood
  <1> HIDE DEF d
  <1>2. o \notin Allocated(d) /\ r = <<e, o>>
    BY DEF Create, d
  <1>3. d \in State
    BY <1>1 DEF Good
  <1>4. lmod(t, c.size) \in 0..d.size - 1 /\ lmod(t, c.size) \in 0..MaxSize - 1
    <2>1. d.size \in 1..MaxSize /\ MaxSize \in Nat
      BY <1>3 DEF State, StringAssumption
    <2>2. lmod(t, c.size) \in 0..d.size - 1
      BY <1>1, <2>1, Position
    <2> QED BY <2>1, <2>2
  <1>5. /\ e.text = [d.text EXCEPT ![o] = t] /\ e.colour = [d.colour EXCEPT ![o] = d.white]
        /\ e.nuse = d.nuse + 1 /\ e.cache = d.cache /\ e.size = d.size /\ e.white = d.white
        /\ e.sweep = d.sweep
        /\ e.tb = [d.tb EXCEPT ![lmod(t, c.size)] = @ \cup {o}]
    BY <1>3 DEF State
  <1>6. e \in State
    <2>1. /\ d.text \in [TString -> Text \cup {None}] /\ d.colour \in [TString -> {"w0", "w1", "black"}]
          /\ d.nuse \in Nat /\ d.tb \in [0..MaxSize - 1 -> SUBSET TString] /\ d.white \in {"w0", "w1"}
      BY <1>3 DEF State
    <2>2. /\ [d.text EXCEPT ![o] = t] \in [TString -> Text \cup {None}]
          /\ [d.colour EXCEPT ![o] = d.white] \in [TString -> {"w0", "w1", "black"}]
          /\ d.nuse + 1 \in Nat
      BY <2>1
    <2>3. [d.tb EXCEPT ![lmod(t, c.size)] = @ \cup {o}] \in [0..MaxSize - 1 -> SUBSET TString]
      BY <1>4, <2>1
    <2>4. e = [d EXCEPT !.text = e.text, !.colour = e.colour, !.nuse = e.nuse, !.tb = e.tb]
      BY <1>3 DEF State
    <2> HIDE DEF e
    <2>5. /\ e.text \in [TString -> Text \cup {None}] /\ e.colour \in [TString -> {"w0", "w1", "black"}]
          /\ e.nuse \in Nat /\ e.tb \in [0..MaxSize - 1 -> SUBSET TString]
      BY <1>5, <2>2, <2>3
    <2> QED BY ONLY <1>3, <2>4, <2>5 DEF State
  <1> HIDE DEF e
  <1>7. Allocated(e) = Allocated(d) \cup {o}
    BY <1>3, <1>5, StringAssumption DEF Allocated, State, StringAssumption
  <1>8. /\ e.text[o] = t /\ \A q \in Allocated(d) : e.text[q] = d.text[q] /\ q # o
    BY <1>2, <1>3, <1>5 DEF Allocated, State
  <1>9. \A q : Alive(d, q) => Alive(e, q)
    BY <1>2, <1>3, <1>5, <1>7 DEF Alive, IsDead, OtherWhite, Allocated, State
  <1>10. Alive(e, o)
    BY <1>3, <1>5, <1>7 DEF Alive, IsDead, OtherWhite, State
  <1>11. e.nuse = Cardinality(Allocated(e))
    <2>1. IsFiniteSet(Allocated(d)) /\ d.nuse = Cardinality(Allocated(d))
      BY <1>1, AllocatedFinite DEF Good
    <2>2. Cardinality(Allocated(d) \cup {o}) = Cardinality(Allocated(d)) + 1
      BY <1>2, <2>1, FS_AddElement
    <2> QED BY <1>5, <1>7, <2>1, <2>2
  <1>12. Chained(e)
    <2> SUFFICES ASSUME NEW i \in 0..MaxSize - 1
                 PROVE  e.tb[i] = {q \in Allocated(e) : lmod(e.text[q], e.size) = i}
      BY DEF Chained
    <2>1. d.tb[i] = {q \in Allocated(d) : lmod(d.text[q], d.size) = i}
      BY <1>1 DEF Good, Chained
    <2>2. e.tb[i] = IF i = lmod(t, c.size) THEN d.tb[i] \cup {o} ELSE d.tb[i]
      BY <1>3, <1>5 DEF State
    <2>3. lmod(e.text[o], e.size) = lmod(t, c.size)
      BY <1>1, <1>5, <1>8
    <2>4. \A q \in Allocated(d) : lmod(e.text[q], e.size) = lmod(d.text[q], d.size)
      BY <1>5, <1>8
    <2> QED BY <1>7, <2>1, <2>2, <2>3, <2>4
  <1>13. Distinct(e)
    BY <1>1, <1>7, <1>8 DEF Good, Distinct
  <1>14. CacheAlive(e)
    BY <1>1, <1>5, <1>9 DEF Good, CacheAlive
  <1>15. e.sweep \subseteq Allocated(e)
    BY <1>1, <1>5, <1>7 DEF Good
  <1>16. held \cup {o} \subseteq TString /\ \A q \in held \cup {o} \cup {Msg} : Alive(e, q)
    BY <1>1, <1>9, <1>10 DEF Good
  <1>17. Good(e, held \cup {o})
    BY <1>6, <1>11, <1>12, <1>13, <1>14, <1>15, <1>16 DEF Good
  <1> QED BY <1>2, <1>17

(* What is found is given back alive, a dead string with a new colour; what *)
(* is not found is new in the table.                                       *)
LEMMA InternedGood ==
    ASSUME StringAssumption, NEW c, Good(c, held), NEW t \in Text, NEW r \in Interned(c, t)
    PROVE  Good(r[1], held \cup {r[2]})
  <1>1. Lookup(c, t) = {o \in Allocated(c) : c.text[o] = t}
    <2>1. c \in State /\ c.size \in 1..MaxSize /\ MaxSize \in Nat
      BY DEF Good, State, StringAssumption
    <2>2. lmod(t, c.size) \in 0..MaxSize - 1
      BY <2>1, Position
    <2> QED BY <2>2 DEF Good, Chained, Lookup
  <1>2. CASE Lookup(c, t) # {}
    <2>1. PICK o \in Lookup(c, t) : r = <<Resurrect(c, o), o>>
      BY <1>2 DEF Interned
    <2> DEFINE e == Resurrect(c, o)
    <2>2. c \in State /\ o \in Allocated(c) /\ o \in TString
      BY <1>1 DEF Good, Allocated
    <2>3. /\ e.tb = c.tb /\ e.size = c.size /\ e.nuse = c.nuse /\ e.cache = c.cache
          /\ e.text = c.text /\ e.white = c.white /\ e.sweep = c.sweep
          /\ e.colour = IF IsDead(c, o) THEN [c.colour EXCEPT ![o] = c.white] ELSE c.colour
      BY <2>2 DEF Resurrect, State
    <2>4. e \in State
      BY <2>2 DEF Resurrect, State
    <2> HIDE DEF e
    <2>5. Allocated(e) = Allocated(c)
      BY <2>3 DEF Allocated
    <2>6. \A q : Alive(c, q) => Alive(e, q)
      BY <2>2, <2>3, <2>5 DEF Alive, IsDead, OtherWhite, State, Allocated
    <2>7. Alive(e, o)
      BY <2>2, <2>3, <2>5 DEF Alive, IsDead, OtherWhite, State
    <2>8. Chained(e) /\ Distinct(e) /\ CacheAlive(e) /\ e.sweep \subseteq Allocated(e)
      BY <2>3, <2>5, <2>6 DEF Good, Chained, Distinct, CacheAlive
    <2>9. held \cup {o} \subseteq TString /\ \A q \in held \cup {o} \cup {Msg} : Alive(e, q)
      BY <2>2, <2>6, <2>7 DEF Good
    <2>10. e.nuse = Cardinality(Allocated(e))
      BY <2>3, <2>5 DEF Good
    <2>11. Good(e, held \cup {o})
      BY <2>4, <2>8, <2>9, <2>10 DEF Good
    <2> QED BY <2>1, <2>11 DEF e
  <1>3. CASE Lookup(c, t) = {}
    <2>1. PICK short1 \in BOOLEAN, short2 \in BOOLEAN, o \in TString :
            r \in Create(Grow(c, t, short1), o, t, short2)
      BY <1>3 DEF Interned
    <2>2. \A o_1 \in Allocated(c) : c.text[o_1] # t
      BY <1>1, <1>3
    <2>3. Good(Grow(c, t, short1), held) /\ \A q \in Allocated(Grow(c, t, short1)) : Grow(c, t, short1).text[q] # t
      BY <2>2, GrowGood
    <2> QED BY <2>1, <2>3, CreateGood
  <1> QED BY <1>2, <1>3

IInv == Good(s, held)

LEMMA InitGood == StringAssumption /\ Init => IInv
  <1> SUFFICES ASSUME StringAssumption, Init PROVE IInv
    OBVIOUS
  <1> DEFINE t == CHOOSE x \in Text : TRUE
  <1>1. t \in Text /\ t # None /\ Msg \in TString
    BY DEF StringAssumption
  <1> HIDE DEF t
  <1>2. lmod(t, MinSize) \in 0..MinSize - 1 /\ MinSize \in 1..MaxSize /\ MaxSize \in Nat
    BY <1>1, Position DEF StringAssumption
  <1>3. s = [tb |-> [i \in 0..MaxSize - 1 |-> IF i = lmod(t, MinSize) THEN {Msg} ELSE {}],
             size |-> MinSize, nuse |-> 1,
             cache |-> [l \in CacheLines |-> [w \in 1..CacheWays |-> Msg]],
             text |-> [o \in TString |-> IF o = Msg THEN t ELSE None],
             colour |-> [o \in TString |-> "w0"], white |-> "w0",
             phase |-> "pause", sweep |-> {}]
    BY DEF Init, t
  <1>4. s \in State
    BY <1>1, <1>2, <1>3 DEF State
  <1>5. Allocated(s) = {Msg} /\ s.text[Msg] = t
    BY <1>1, <1>3 DEF Allocated
  <1>6. Chained(s)
    BY <1>3, <1>5 DEF Chained
  <1>7. s.nuse = Cardinality(Allocated(s))
    BY <1>3, <1>5, FS_Singleton
  <1>8. Alive(s, Msg) /\ CacheAlive(s)
    BY <1>1, <1>3, <1>5 DEF Alive, CacheAlive, IsDead, OtherWhite
  <1>9. Distinct(s) /\ s.sweep \subseteq Allocated(s)
    BY <1>3, <1>5 DEF Distinct
  <1>10. held = {}
    BY DEF Init
  <1> QED BY <1>4, <1>6, <1>7, <1>8, <1>9, <1>10 DEF IInv, Good

(* Any string of a program is made from a table that is good.               *)
LEMMA NewGood ==
    ASSUME StringAssumption, IInv, NEW t \in Text, luaS_newlstr(t)
    PROVE  IInv'
  <1>1. PICK r \in Interned(s, t) : s' = r[1] /\ held' = held \cup {r[2]}
    BY DEF luaS_newlstr
  <1>2. Good(r[1], held \cup {r[2]})
    BY InternedGood DEF IInv
  <1> QED BY <1>1, <1>2 DEF IInv

(* The cache gives what it holds alive, and takes what is alive.            *)
LEMMA CachedGood ==
    ASSUME StringAssumption, IInv, NEW a \in DOMAIN Address, luaS_new(a)
    PROVE  IInv'
  <1> DEFINE line == s.cache[a % 2]
             hits == {w \in 1..CacheWays : s.text[line[w]] = Address[a]}
  <1>1. s \in State /\ CacheAlive(s)
    BY DEF IInv, Good
  <1>2. a \in Nat /\ a % 2 \in CacheLines /\ Address[a] \in Text
    BY DEF StringAssumption, CacheLines
  <1>3. CASE hits # {}
    <2>1. PICK w \in hits : held' = held \cup {line[w]} /\ s' = s
      BY <1>3 DEF luaS_new
    <2>2. Alive(s, line[w])
      BY <1>1, <1>2 DEF CacheAlive
    <2> QED BY <2>1, <2>2 DEF IInv, Good, Alive, Allocated
  <1>4. CASE hits = {}
    <2> DEFINE c == [s EXCEPT !.cache[a % 2] = <<line[1], line[1]>>]
    <2>1. PICK r \in Interned(c, Address[a]) :
            /\ s' = [r[1] EXCEPT !.cache[a % 2][1] = r[2]]
            /\ held' = held \cup {r[2]}
      BY <1>4 DEF luaS_new
    <2>2. s.cache \in [CacheLines -> [1..CacheWays -> TString]]
      BY <1>1 DEF State
    <2>3. <<line[1], line[1]>> \in [1..CacheWays -> TString]
      BY <1>2, <2>2 DEF CacheWays
    <2>4. /\ c.cache = [s.cache EXCEPT ![a % 2] = <<line[1], line[1]>>]
          /\ c.tb = s.tb /\ c.size = s.size /\ c.nuse = s.nuse /\ c.text = s.text
          /\ c.colour = s.colour /\ c.white = s.white /\ c.sweep = s.sweep
      BY <1>1 DEF State
    <2>5. c.cache \in [CacheLines -> [1..CacheWays -> TString]]
      <3> DEFINE fresh == <<line[1], line[1]>>
      <3> HIDE DEF c, fresh
      <3>1. fresh \in [1..CacheWays -> TString] /\ c.cache = [s.cache EXCEPT ![a % 2] = fresh]
        BY <2>3, <2>4 DEF fresh
      <3> QED BY ONLY <2>2, <3>1
    <2>6. c = [s EXCEPT !.cache = c.cache]
      BY <1>1 DEF State
    <2>7. \A l \in CacheLines, w \in 1..CacheWays :
            c.cache[l][w] = IF l = a % 2 THEN line[1] ELSE s.cache[l][w]
      BY <2>2, <2>4 DEF CacheWays
    <2> HIDE DEF c
    <2>8. c \in State
      BY <1>1, <2>5, <2>6 DEF State
    <2>9. Allocated(c) = Allocated(s) /\ \A o : Alive(c, o) = Alive(s, o)
      BY <2>4 DEF Allocated, Alive, IsDead, OtherWhite
    <2>10. CacheAlive(c)
      BY <1>1, <1>2, <2>7, <2>9 DEF CacheAlive, CacheWays
    <2>11. Good(c, held)
      BY <2>4, <2>8, <2>9, <2>10 DEF IInv, Good, Chained, Distinct
    <2>12. Good(r[1], held \cup {r[2]})
      BY <1>2, <2>11, InternedGood
    <2> DEFINE d == r[1]
               o == r[2]
               e == [d EXCEPT !.cache[a % 2][1] = o]
    <2>13. d \in State /\ CacheAlive(d) /\ Alive(d, o) /\ o \in TString
      BY <2>12 DEF Good
    <2> HIDE DEF d, o
    <2>14. d.cache \in [CacheLines -> [1..CacheWays -> TString]]
      BY <2>13 DEF State
    <2>15. /\ e.cache = [d.cache EXCEPT ![a % 2][1] = o]
           /\ e.tb = d.tb /\ e.size = d.size /\ e.nuse = d.nuse /\ e.text = d.text
           /\ e.colour = d.colour /\ e.white = d.white /\ e.sweep = d.sweep
      BY <2>13 DEF State
    <2>16. e.cache \in [CacheLines -> [1..CacheWays -> TString]]
      <3>1. [d.cache[a % 2] EXCEPT ![1] = o] \in [1..CacheWays -> TString]
        BY <1>2, <2>13, <2>14
      <3>2. e.cache = [d.cache EXCEPT ![a % 2] = [d.cache[a % 2] EXCEPT ![1] = o]]
        BY <2>15
      <3> HIDE DEF e
      <3> QED BY <1>2, <2>14, <3>1, <3>2
    <2>17. \A l \in CacheLines, w \in 1..CacheWays : e.cache[l][w] \in {d.cache[l][w], o}
      BY <2>14, <2>15
    <2>18. e = [d EXCEPT !.cache = e.cache]
      BY <2>13 DEF State
    <2>19. e = s' /\ held' = held \cup {o} /\ Good(d, held \cup {o})
      BY <2>1, <2>12 DEF d, o
    <2> HIDE DEF e
    <2>20. e \in State
      BY <2>13, <2>16, <2>18 DEF State
    <2>21. Allocated(e) = Allocated(d) /\ \A q : Alive(e, q) = Alive(d, q)
      BY <2>15 DEF Allocated, Alive, IsDead, OtherWhite
    <2>22. CacheAlive(e)
      BY <2>13, <2>17, <2>21 DEF CacheAlive
    <2>23. Good(e, held \cup {o})
      BY <2>15, <2>19, <2>20, <2>21, <2>22 DEF Good, Chained, Distinct
    <2> QED BY <2>19, <2>23 DEF IInv
  <1> QED BY <1>3, <1>4

(* A step of the collector between two strings of the program.              *)
LEMMA CollectorGood ==
    ASSUME StringAssumption, IInv,
           \/ StartMark \/ Atomic \/ EndSweep
           \/ \E o \in TString : MarkOne(o) \/ Sweep(o)
    PROVE  IInv'
  <1>1. s \in State /\ Good(s, held) /\ s.sweep \subseteq Allocated(s)
    BY DEF IInv, Good
  <1>2. CASE StartMark
    <2>1. /\ s' = [s EXCEPT !.phase = "mark"] /\ held' = held
      BY <1>2 DEF StartMark
    <2>2. /\ s' \in State /\ s'.tb = s.tb /\ s'.size = s.size /\ s'.nuse = s.nuse /\ s'.cache = s.cache
          /\ s'.text = s.text /\ s'.colour = s.colour /\ s'.white = s.white /\ s'.sweep = s.sweep
      BY <1>1, <2>1 DEF State
    <2>3. Good(s', held)
      BY <1>1, <2>2, SameStrings
    <2> QED BY <2>1, <2>3 DEF IInv
  <1>3. CASE Atomic
    <2>1. s' = EnterSweep(s, held) /\ held' = held
      BY <1>3 DEF Atomic
    <2> QED BY <1>1, <2>1, EnterSweepGood DEF IInv
  <1>4. CASE EndSweep
    <2> DEFINE c == checkSizes(s)
    <2>1. s' = [c EXCEPT !.phase = "pause"] /\ held' = held
      BY <1>4 DEF EndSweep
    <2>2. Good(c, held)
      <3>1. CASE s.nuse < s.size \div 4
        <4>1. s.nuse \in Nat /\ s.size \in 1..MaxSize /\ MaxSize \in Nat
          BY <1>1 DEF State, StringAssumption
        <4>2. s.size \div 2 \in 1..MaxSize
          BY <3>1, <4>1
        <4> QED BY <1>1, <3>1, <4>2, ResizeGood DEF checkSizes
      <3>2. CASE ~(s.nuse < s.size \div 4)
        BY <1>1, <3>2 DEF checkSizes
      <3> QED BY <3>1, <3>2
    <2> HIDE DEF c
    <2>3. c \in State /\ c.sweep \subseteq Allocated(c)
      BY <2>2 DEF Good
    <2>4. /\ s' \in State /\ s'.tb = c.tb /\ s'.size = c.size /\ s'.nuse = c.nuse /\ s'.cache = c.cache
          /\ s'.text = c.text /\ s'.colour = c.colour /\ s'.white = c.white /\ s'.sweep = c.sweep
      BY <2>1, <2>3 DEF State
    <2>5. Good(s', held)
      BY <2>2, <2>3, <2>4, SameStrings
    <2> QED BY <2>1, <2>5 DEF IInv
  <1>5. ASSUME NEW o \in TString, MarkOne(o) PROVE IInv'
    <2>1. s' = Mark(s, {o}) /\ held' = held
      BY <1>5 DEF MarkOne
    <2>2. /\ s'.colour = [q \in TString |-> IF q \in {o} THEN "black" ELSE s.colour[q]]
          /\ s'.text = s.text /\ s'.white = s.white /\ s'.cache = s.cache /\ s'.sweep = s.sweep
          /\ s'.tb = s.tb /\ s'.size = s.size /\ s'.nuse = s.nuse /\ s' \in State
      BY <1>1, <2>1 DEF Mark, State
    <2> DEFINE e == s'
    <2> HIDE DEF e
    <2>3. Allocated(e) = Allocated(s)
      BY <2>2 DEF Allocated, e
    <2>4. \A q : Alive(s, q) => Alive(e, q)
      BY <1>1, <2>2, <2>3 DEF Alive, IsDead, OtherWhite, State, Allocated, e
    <2>5. Good(e, held)
      BY <1>1, <2>2, <2>3, <2>4 DEF Good, Chained, Distinct, CacheAlive, e
    <2> QED BY <2>1, <2>5 DEF IInv, e
  <1>6. ASSUME NEW o \in TString, Sweep(o) PROVE IInv'
    <2>1. {o} \in SUBSET s.sweep /\ s' = SweepObjects(s, {o}) /\ held' = held
      BY <1>6 DEF Sweep
    <2> QED BY <1>1, <2>1, SweepGood DEF IInv
  <1> QED BY <1>2, <1>3, <1>4, <1>5, <1>6

LEMMA StepGood == StringAssumption /\ IInv /\ [Next]_vars => IInv'
  <1> SUFFICES ASSUME StringAssumption, IInv, [Next]_vars PROVE IInv'
    OBVIOUS
  <1>1. ASSUME NEW o \in TString, Drop(o) PROVE IInv'
    <2>1. s' = s /\ held' \subseteq held
      BY <1>1 DEF Drop
    <2> QED BY <2>1 DEF IInv, Good
  <1>2. CASE UNCHANGED vars
    BY <1>2 DEF IInv, vars
  <1> QED BY <1>1, <1>2, NewGood, CachedGood, CollectorGood DEF Next

(* Whatever the program asks for, drops and runs out of memory with, in any *)
(* phase of the collector: its equal strings are one object, which is in    *)
(* the table and alive (internshrstr, luaS_resize, luaS_remove, luaS_new).  *)
THEOREM StringsAreInterned ==
    ASSUME StringAssumption
    PROVE  Spec => []StringsInterned
  <1>1. IInv => StringsInterned
    BY DEF IInv, Good, Chained, Distinct, CacheAlive, Alive, State,
           StringsInterned, TableOK, EqualIsSame, HeldIsAlive, CacheIsAlive
  <1> QED BY <1>1, InitGood, StepGood, PTL DEF Spec
=============================================================================

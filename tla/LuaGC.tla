-------------------------------- MODULE LuaGC -------------------------------
(***************************************************************************)
(* The incremental mark-and-sweep collector of lgc.c: three colours with   *)
(* two whites, barriers, weak tables, ephemerons, finalizers, and the      *)
(* program that runs between its steps.                                    *)
(*                                                                         *)
(* Each object has a fixed kind.  A table holds one entry <<key, value>>   *)
(* at most, with the key "x" unless keys are weak; a userdata has a user   *)
(* value (key "x"), a string nothing.  The main thread holds the stack.    *)
(***************************************************************************)
EXTENDS Integers, Sequences, FiniteSets

CONSTANTS
    Obj,      \* collectable objects
    Kind,     \* "strong", "weakvalue", "ephemeron", "allweak", "udata", "string"
    Registry, \* the object of l_registry
    Main,     \* the main thread
    Sweep,    \* GCSWEEPMAX
    Refs,     \* bound: <<p, k, v>> where the program makes <<k, v>> the entry of p
    Finals    \* bound: the objects the program marks for finalization

VARIABLES
    g,     \* the collector: state, whites, colours, lists
    entry, \* the entry of each object, or <<>>
    stack, \* the objects on the stack of the main thread
    fin,   \* the objects with FINALIZEDBIT
    inTM   \* the objects whose finalizers are running

vars == <<g, entry, stack, fin, inTM>>

NULL == "NULL"
Head0 == "head" \* a sweep pointer to the header of a list

Elems(s) == {s[i] : i \in 1..Len(s)}
Without(s, o) == SelectSeq(s, LAMBDA p : p # o)
Allocated == Elems(g.allgc \o g.finobj \o g.tobefnz)

otherwhite(c) == IF c.white = "w0" THEN "w1" ELSE "w0"
iswhite(c, o) == c.color[o] \in {"w0", "w1"}
isdead(c, o) == c.color[o] = otherwhite(c)
keepinvariant(c) == c.state \in {"propagate", "atomic", "insideatomic"}
issweepphase(c) == c.state \in {"swpallgc", "swpfinobj", "swptobefnz", "swpend"}
IsTable(o) == Kind[o] \in {"strong", "weakvalue", "ephemeron", "allweak"}
makewhite(c, o) == [c EXCEPT !.color[o] = c.white]

-----------------------------------------------------------------------------
(***************************************************************************)
(* Marking.  Operators take a collector c and give the collector after it. *)
(***************************************************************************)
RECURSIVE reallymarkobject(_, _)
markobject(c, o) == IF iswhite(c, o) THEN reallymarkobject(c, o) ELSE c

\* Userdata and strings become black at once, others gray in the gray list.
reallymarkobject(c, o) ==
    IF o # Main /\ Kind[o] \in {"udata", "string"}
    THEN LET d == [c EXCEPT !.color[o] = "black"]
         IN  IF entry[o] = <<>> THEN d ELSE markobject(d, entry[o][2])
    ELSE [c EXCEPT !.color[o] = "gray", !.gray = <<o>> \o @]

RECURSIVE MarkAll(_, _)
MarkAll(c, objects) ==
    IF objects = {} THEN c
    ELSE LET o == CHOOSE p \in objects : TRUE
         IN  MarkAll(markobject(c, o), objects \ {o})

\* Strings are values: they are marked, never cleared.
iscleared(c, o) == Kind[o] # "string" /\ iswhite(c, o)
KeepString(c, o) == IF Kind[o] = "string" THEN markobject(c, o) ELSE c

Link(c, list, o) == [c EXCEPT ![list] = <<o>> \o @]

traverseweakvalue(c, h) ==
    LET d == IF entry[h] = <<>> THEN c ELSE KeepString(c, entry[h][2])
    IN  IF c.state = "propagate" THEN Link(d, "grayagain", h)
        ELSE IF entry[h] # <<>> /\ iscleared(d, entry[h][2]) THEN Link(d, "weak", h)
        ELSE d

\* A value is marked when its key is; a table with a white key and a white
\* value has to be looked at again, one with a white key to be cleared.
traverseephemeron(c, h) ==
    LET k == entry[h][1]
        v == entry[h][2]
        d == IF entry[h] = <<>> THEN c
             ELSE LET e == KeepString(c, k)
                  IN  IF iscleared(e, k) THEN e ELSE markobject(e, v)
    IN  IF c.state = "propagate" THEN Link(d, "grayagain", h)
        ELSE IF entry[h] = <<>> \/ ~iscleared(d, IF entry[h] = <<>> THEN h ELSE k) THEN d
        ELSE IF iswhite(d, v) THEN Link(d, "ephemeron", h)
        ELSE Link(d, "allweak", h)

\* Weak tables stay gray.
traversetable(c, h) ==
    LET d == [c EXCEPT !.color[h] = "gray"]
    IN  CASE Kind[h] = "strong" ->
               IF entry[h] = <<>> THEN c ELSE markobject(c, entry[h][2])
          [] Kind[h] = "weakvalue" -> traverseweakvalue(d, h)
          [] Kind[h] = "ephemeron" -> traverseephemeron(d, h)
          [] Kind[h] = "allweak" -> Link(d, "allweak", h)

\* The thread stays gray and is visited again in the atomic phase.
propagatemark(c) ==
    LET o == Head(c.gray)
        d == [c EXCEPT !.gray = Tail(@), !.color[o] = "black"]
    IN  IF o = Main
        THEN MarkAll([d EXCEPT !.grayagain = <<o>> \o @, !.color[o] = "gray"], stack)
        ELSE traversetable(d, o)

RECURSIVE propagateall(_)
propagateall(c) == IF c.gray = <<>> THEN c ELSE propagateall(propagatemark(c))

RECURSIVE VisitEphemerons(_, _)
VisitEphemerons(c, todo) ==
    IF todo = <<>> THEN c
    ELSE VisitEphemerons(propagateall(traverseephemeron(c, Head(todo))), Tail(todo))

\* Mutant: ephemerons are not looked at again.
convergeephemerons_not(c) == c

\* Until a pass marks nothing.
RECURSIVE convergeephemerons(_)
convergeephemerons(c) ==
    LET d == VisitEphemerons([c EXCEPT !.ephemeron = <<>>], c.ephemeron)
    IN  IF d.color = c.color THEN d ELSE convergeephemerons(d)

\* markbeingfnz
MarkBeingFnz(c) == MarkAll(c, Elems(c.tobefnz))

restartcollection(c) ==
    MarkBeingFnz(markobject(markobject(
        [c EXCEPT !.gray = <<>>, !.grayagain = <<>>, !.weak = <<>>,
                  !.allweak = <<>>, !.ephemeron = <<>>], Main), Registry))

-----------------------------------------------------------------------------

(***************************************************************************)
(* The atomic phase, as steps: up to the finalizers, and after them.       *)
(***************************************************************************)
\* All strongly accessible objects are marked.
MarkReachable(c) ==
    LET d == propagateall(markobject(markobject([c EXCEPT !.state = "insideatomic"], Main), Registry))
    IN  convergeephemerons(propagateall([d EXCEPT !.gray = c.grayagain]))

\* Mutant: objects are finalized in the order in which they were marked for it.
separatetobefnz_reversed(c) ==
    LET due == SelectSeq(c.finobj, LAMBDA o : iswhite(c, o))
        rev == [i \in 1..Len(due) |-> due[Len(due) + 1 - i]]
    IN  [c EXCEPT !.finobj = SelectSeq(@, LAMBDA o : ~iswhite(c, o)), !.tobefnz = @ \o rev]

separatetobefnz(c) ==
    [c EXCEPT !.finobj = SelectSeq(@, LAMBDA o : ~iswhite(c, o)),
              !.tobefnz = @ \o SelectSeq(c.finobj, LAMBDA o : iswhite(c, o))]

\* Mutant: what is to be finalized is not marked.
Resurrect_not(c) == convergeephemerons(separatetobefnz(c))

Resurrect(c) == convergeephemerons(propagateall(MarkBeingFnz(separatetobefnz(c))))

\* The tables that lose their entries: values before the finalizers (c),
\* keys after them (d), and values again in tables that were resurrected.
ClearValues(c, lists) ==
    {h \in lists : entry[h] # <<>> /\ iscleared(c, entry[h][2])}
ClearKeys(d) ==
    {h \in Elems(d.ephemeron) \cup Elems(d.allweak) :
       entry[h] # <<>> /\ iscleared(d, entry[h][1])}
Cleared(c, d) ==
    ClearValues(c, Elems(c.weak) \cup Elems(c.allweak)) \cup ClearKeys(d)
    \cup ClearValues(d, Elems(d.weak) \cup Elems(d.allweak))

-----------------------------------------------------------------------------
(***************************************************************************)
(* Sweeping.  A sweep pointer points to the next field of an object, or to *)
(* the header of a list.                                                   *)
(***************************************************************************)
Position(list, after) ==
    IF after = Head0 THEN 1 ELSE 1 + CHOOSE i \in 1..Len(list) : list[i] = after

\* sweeplist: at most n objects, from the head of the list called header or
\* from behind an object, in whatever list that is by now.
RECURSIVE sweeplist(_, _, _, _)
sweeplist(c, header, after, n) ==
    LET name == IF after = Head0 THEN header
                ELSE CHOOSE l \in {"allgc", "finobj", "tobefnz"} : after \in Elems(c[l])
        i == Position(c[name], after)
    IN  IF i > Len(c[name]) THEN [c EXCEPT !.sweepgc = NULL]
        ELSE IF n = 0 THEN [c EXCEPT !.sweepgc = after]
        ELSE LET o == c[name][i]
             IN  IF isdead(c, o)
                 THEN sweeplist([c EXCEPT ![name] = Without(@, o)], header, after, n - 1)
                 ELSE sweeplist(makewhite(c, o), header, o, n - 1)

\* Sweep up to a live object, or the end.
RECURSIVE sweeptolive(_, _)
sweeptolive(c, after) ==
    LET d == sweeplist(c, "allgc", after, 1)
    IN  IF d.sweepgc = after THEN sweeptolive(d, after) ELSE d

entersweep(c) == sweeplist([c EXCEPT !.state = "swpallgc"], "allgc", Head0, 1)

SweptList(state) ==
    CASE state = "swpallgc" -> "allgc" [] state = "swpfinobj" -> "finobj"
      [] state = "swptobefnz" -> "tobefnz"
AfterSweep(state) ==
    CASE state = "swpallgc" -> "swpfinobj" [] state = "swpfinobj" -> "swptobefnz"
      [] state = "swptobefnz" -> "swpend"

sweepstep(c) ==
    LET d == IF c.sweepgc = NULL THEN c
             ELSE sweeplist(c, SweptList(c.state), c.sweepgc, Sweep)
    IN  IF d.sweepgc # NULL THEN d
        ELSE [d EXCEPT !.state = AfterSweep(c.state),
                       !.sweepgc = IF c.state = "swptobefnz" THEN NULL ELSE Head0]

-----------------------------------------------------------------------------
Init ==
    /\ g = [state |-> "pause", white |-> "w0", color |-> [o \in Obj \cup {Main} |-> "w0"],
            gray |-> <<>>, grayagain |-> <<>>, weak |-> <<>>, allweak |-> <<>>,
            ephemeron |-> <<>>, allgc |-> <<Registry>>, finobj |-> <<>>,
            tobefnz |-> <<>>, sweepgc |-> NULL]
    /\ entry = [o \in Obj |-> <<>>]
    /\ stack = {} /\ fin = {} /\ inTM = {}

(***************************************************************************)
(* singlestep                                                              *)
(***************************************************************************)
Start ==
    /\ g.state = "pause"
    /\ g' = [restartcollection(g) EXCEPT !.state = "propagate"]
    /\ UNCHANGED <<entry, stack, fin, inTM>>

Propagate ==
    /\ g.state = "propagate"
    /\ LET c == propagatemark(g)
       IN  g' = [c EXCEPT !.state = IF c.gray = <<>> THEN "atomic" ELSE "propagate"]
    /\ UNCHANGED <<entry, stack, fin, inTM>>

\* Mutant: the whites are not flipped.
Atomic_unflipped ==
    /\ g.state = "atomic"
    /\ LET c == MarkReachable(propagateall(g))
           d == Resurrect(c)
       IN  /\ g' = entersweep(d)
           /\ entry' = [o \in Obj |-> IF o \in Cleared(c, d) THEN <<>> ELSE entry[o]]
    /\ UNCHANGED <<stack, fin, inTM>>

\* propagateall, atomic and entersweep.
Atomic ==
    /\ g.state = "atomic"
    /\ LET c == MarkReachable(propagateall(g))
           d == Resurrect(c)
       IN  /\ g' = entersweep([d EXCEPT !.white = otherwhite(d)])
           /\ entry' = [o \in Obj |-> IF o \in Cleared(c, d) THEN <<>> ELSE entry[o]]
    /\ UNCHANGED <<stack, fin, inTM>>

SweepStep ==
    /\ g.state \in {"swpallgc", "swpfinobj", "swptobefnz"}
    /\ g' = sweepstep(g)
    /\ UNCHANGED <<entry, stack, fin, inTM>>

SweepEnd ==
    /\ g.state = "swpend"
    /\ g' = [makewhite(g, Main) EXCEPT !.state = "callfin"]
    /\ UNCHANGED <<entry, stack, fin, inTM>>

\* Mutant: a cycle ends with objects still to be finalized.
FinishCycle_early ==
    /\ g.state = "callfin"
    /\ g' = [g EXCEPT !.state = "pause"]
    /\ UNCHANGED <<entry, stack, fin, inTM>>

FinishCycle ==
    /\ g.state = "callfin" /\ g.tobefnz = <<>>
    /\ g' = [g EXCEPT !.state = "pause"]
    /\ UNCHANGED <<entry, stack, fin, inTM>>

\* luaC_fullgc: a collection that is marking starts over, by sweeping all
\* back to white; one in an emergency calls no finalizers.
FullGC ==
    /\ \/ keepinvariant(g) /\ g' = entersweep(g)
       \/ g.state = "callfin" /\ g.tobefnz # <<>> /\ g' = [g EXCEPT !.state = "pause"]
    /\ UNCHANGED <<entry, stack, fin, inTM>>

\* GCTM, called by luaC_step in any state but pause: the object gets normal
\* again and is pushed for its finalizer.  The collector is off until that
\* returns, but for emergencies.
GCTM ==
    /\ g.tobefnz # <<>> /\ inTM = {} /\ g.state # "pause"
    /\ LET o == Head(g.tobefnz)
           c == [g EXCEPT !.tobefnz = Tail(@), !.allgc = <<o>> \o @]
       IN  /\ g' = IF issweepphase(g) THEN makewhite(c, o) ELSE c
           /\ fin' = fin \ {o}
           /\ stack' = stack \cup {o}
           /\ inTM' = {o}
    /\ UNCHANGED entry

ReturnTM ==
    /\ inTM # {}
    /\ inTM' = {}
    /\ stack' = stack \ inTM
    /\ UNCHANGED <<g, entry, fin>>

(***************************************************************************)
(* The program                                                             *)
(***************************************************************************)
\* luaC_newobj
NewObj(o) ==
    /\ o \notin Allocated
    /\ g' = [g EXCEPT !.allgc = <<o>> \o @, !.color[o] = g.white]
    /\ entry' = [entry EXCEPT ![o] = <<>>]
    /\ stack' = stack \cup {o}
    /\ UNCHANGED <<fin, inTM>>

Held == stack \cup {Registry}

\* Mutant: no barrier.
Barrier_none(c, p, v) == c

\* luaC_barrier for userdata, luaC_barrierback for tables.
Barrier(c, p, v) ==
    IF ~(c.color[p] = "black" /\ iswhite(c, v)) THEN c
    ELSE IF IsTable(p) THEN [c EXCEPT !.color[p] = "gray", !.grayagain = <<p>> \o @]
    ELSE IF keepinvariant(c) THEN reallymarkobject(c, v)
    ELSE makewhite(c, p)

Store(p, k, v) ==
    /\ {p, k, v} \ {"x"} \subseteq Held
    /\ entry' = [entry EXCEPT ![p] = <<k, v>>]
    /\ g' = LET c == IF k = "x" THEN g ELSE Barrier(g, p, k) IN Barrier(c, p, v)
    /\ UNCHANGED <<stack, fin, inTM>>

Clear(p) ==
    /\ p \in Held /\ entry[p] # <<>>
    /\ entry' = [entry EXCEPT ![p] = <<>>]
    /\ UNCHANGED <<g, stack, fin, inTM>>

\* A read, or a traversal: there is no read barrier.
Load(p) ==
    /\ p \in Held /\ entry[p] # <<>>
    /\ stack' = stack \cup ({entry[p][1], entry[p][2]} \ {"x", Registry})
    /\ UNCHANGED <<g, entry, fin, inTM>>

Drop(o) ==
    /\ o \in stack \ inTM
    /\ stack' = stack \ {o}
    /\ UNCHANGED <<g, entry, fin, inTM>>

\* setmetatable with a __gc: the object moves from allgc to finobj.
luaC_checkfinalizer(o) ==
    /\ o \in (stack \cap Finals) \ fin
    /\ LET c == IF issweepphase(g) THEN makewhite(g, o) ELSE g
           d == IF issweepphase(g) /\ g.sweepgc = o THEN sweeptolive(c, o) ELSE c
       IN  g' = [d EXCEPT !.allgc = Without(@, o), !.finobj = <<o>> \o @]
    /\ fin' = fin \cup {o}
    /\ UNCHANGED <<entry, stack, inTM>>

SingleStep == Start \/ Propagate \/ Atomic \/ SweepStep \/ SweepEnd \/ FinishCycle
Program ==
    \/ \E o \in Obj : NewObj(o) \/ Clear(o) \/ Load(o) \/ Drop(o) \/ luaC_checkfinalizer(o)
    \/ \E e \in Refs : Store(e[1], e[2], e[3])

Next == SingleStep \/ FullGC \/ GCTM \/ ReturnTM \/ Program

Spec == Init /\ [][Next]_vars

-----------------------------------------------------------------------------
(***************************************************************************)
(* What is reachable, by definition.                                       *)
(***************************************************************************)
\* What one more step along references reaches: weak references do not
\* count, but those to strings, and the value of an ephemeron's entry only
\* with its key.
Follow(R) ==
    R \cup {v \in Obj : \E p \in R : entry[p] # <<>> /\
              \/ /\ entry[p][2] = v
                 /\ \/ Kind[p] \in {"strong", "udata"}
                    \/ Kind[p] = "weakvalue" /\ Kind[v] = "string"
                    \/ Kind[p] = "ephemeron"
                       /\ (entry[p][1] \in R \/ Kind[entry[p][1]] = "string")
              \/ entry[p][1] = v /\ Kind[p] = "ephemeron" /\ Kind[v] = "string"}
Reach(R) ==
    LET reach[n \in 0..Cardinality(Obj)] == IF n = 0 THEN R ELSE Follow(reach[n - 1])
    IN  reach[Cardinality(Obj)]
Roots == stack \cup {Registry}

-----------------------------------------------------------------------------
\* The lists hold each object once, and its colour is one of four.
TypeOK ==
    /\ \A o \in Obj : g.color[o] \in {"w0", "w1", "gray", "black"}
    /\ Cardinality(Allocated) = Len(g.allgc) + Len(g.finobj) + Len(g.tobefnz)
    /\ g.sweepgc \in {NULL, Head0} \cup Allocated

(* Whatever the program can get at, also through weak tables, has not been  *)
(* freed, and neither has what a finalizer will get.                       *)
NoDangling ==
    \A p \in Reach(Roots \cup Elems(g.tobefnz)) :
      /\ p \in Allocated
      /\ entry[p] # <<>> => ({entry[p][1], entry[p][2]} \ {"x"}) \subseteq Allocated

(* lgc.h:19-23: while marking, no black object points to a white one, and   *)
(* every gray object is in a gray list.                                    *)
TriColour ==
    keepinvariant(g) =>
        /\ \A p \in Allocated :
             (g.color[p] = "black" /\ entry[p] # <<>>) => ~iswhite(g, entry[p][2])
        /\ \A p \in Allocated \cup {Main} :
             g.color[p] = "gray" =>
               p \in Elems(g.gray \o g.grayagain \o g.weak \o g.allweak \o g.ephemeron)

(* An object that was marked for finalization is not freed before its       *)
(* finalizer was called.                                                   *)
FinalizersNotLost == fin = Elems(g.finobj) \cup Elems(g.tobefnz)

(* A finalizer is due only for an object that nothing reaches, and all that *)
(* are due at a time are called in the reverse order of their marking.     *)
FinalizersDue ==
    g'.tobefnz # g.tobefnz /\ g.state = "atomic" =>
          LET new == SubSeq(g'.tobefnz, Len(g.tobefnz) + 1, Len(g'.tobefnz))
          IN  /\ Elems(new) \cap Reach(Roots) = {}
              /\ \A i, j \in 1..Len(new) : i < j =>
                   \E a, b \in 1..Len(g.finobj) :
                     a < b /\ g.finobj[a] = new[i] /\ g.finobj[b] = new[j]

(* lgc.c:136-137: objects being finalized are kept in weak tables as keys,  *)
(* but not as values; and an ephemeron keeps no entry whose key is gone.   *)
WeakTablesCleared ==
    Atomic =>
          \A h \in Elems(g'.allgc \o g'.finobj \o g'.tobefnz) :
            (h \in Reach(Roots) /\ entry'[h] # <<>>) =>
              /\ (Kind[h] \in {"weakvalue", "allweak"} /\ Kind[entry'[h][2]] # "string")
                   => entry'[h][2] \notin Elems(g'.tobefnz)
              /\ Kind[h] \in {"ephemeron", "allweak"}
                   => entry'[h][1] \in Elems(g'.allgc \o g'.finobj \o g'.tobefnz)

(* Of what was not marked before the atomic phase, only what is reachable   *)
(* survives it: an ephemeron marks no value whose key is gone.             *)
EphemeronsPrecise ==
    Atomic =>
          LET marked == {o \in Allocated : ~iswhite(g, o)}
          IN  \A o \in Allocated \ Reach(Roots \cup marked \cup Elems(g'.tobefnz)) :
                o \in Elems(g'.allgc \o g'.finobj) => isdead(g', o)

(* When a cycle ends everything is white again, so that the next one marks  *)
(* from the beginning.                                                     *)
AllWhiteBetweenCycles ==
    g.state \in {"pause", "callfin"} =>
        \A o \in Allocated \cup {Main} : g.color[o] = g.white

-----------------------------------------------------------------------------
(* Fairness: a program that goes on allocating pays its debt with steps of  *)
(* the collector (luaC_condGC), which are possible unless finalizers have   *)
(* to be called first, and finalizers return.  Full collections are left   *)
(* out: one after the other, they start a cycle over for ever.             *)
Steps == []<><<SingleStep>>_vars \/ []<>(g.state = "callfin" /\ g.tobefnz # <<>>)
FairSpec ==
    /\ Init /\ [][SingleStep \/ GCTM \/ ReturnTM \/ Program]_vars
    /\ Steps /\ WF_vars(GCTM) /\ WF_vars(ReturnTM)

Garbage(o) ==
    o \in Allocated /\ o \notin Reach(Roots \cup Elems(g.finobj) \cup Elems(g.tobefnz))

(* What neither the program nor a finalizer to come can reach is freed in   *)
(* the end.                                                                *)
GarbageIsFreed == \A o \in Obj : Garbage(o) ~> o \notin Allocated

(* A finalizer that is due is called in the end.                            *)
FinalizersRun == \A o \in Finals : o \in Elems(g.tobefnz) ~> o \notin Elems(g.tobefnz)
=============================================================================

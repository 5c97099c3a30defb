----------------------------- MODULE MCCollector -----------------------------
(***************************************************************************)
(* The garbage collector on small heaps, one per behaviour: a table and a  *)
(* userdata with finalizers ("strong"), weak tables ("weak"), ephemerons   *)
(* ("ephemeron"), closures that share variables with the thread of a       *)
(* coroutine ("thread"), two variables ("two"), and finalizers that close  *)
(* over them ("finalizer").  The variables are shared out among the parts; *)
(* Parts chooses some of them.                                             *)
(***************************************************************************)
EXTENDS Integers, Sequences

CONSTANTS Parts, Main, r, oa, ob, oc, od, c1, c2, u1, u2, T, ud, p

VARIABLES part, v1, v2, v3, v4, v5, v6

-----------------------------------------------------------------------------
(* A table and a userdata that are reached on two ways.                     *)
KindStrong == [o \in {r, oa, ob} |-> IF o = ob THEN "udata" ELSE "strong"]
Strong == INSTANCE LuaGC WITH
    Obj <- {r, oa, ob}, Kind <- KindStrong, Registry <- r, Sweep <- 2, Finals <- {oa, ob},
    Refs <- {<<r, "x", oa>>, <<r, "x", ob>>, <<oa, "x", ob>>},
    g <- v1, entry <- v2, stack <- v3, fin <- v4, inTM <- v5

(* The same with fewer references, under fairness.                          *)
Fair == INSTANCE LuaGC WITH
    Obj <- {r, oa, ob}, Kind <- KindStrong, Registry <- r, Sweep <- 2, Finals <- {oa, ob},
    Refs <- {<<r, "x", ob>>, <<oa, "x", ob>>},
    g <- v1, entry <- v2, stack <- v3, fin <- v4, inTM <- v5

(* Weak tables with one finalizable object, as value, and as key and value. *)
KindWeak == [o \in {r, oa, ob, oc} |-> CASE o = r -> "strong" [] o = oa -> "weakvalue"
                                       [] o = ob -> "allweak" [] OTHER -> "udata"]
Weak == INSTANCE LuaGC WITH
    Obj <- {r, oa, ob, oc}, Kind <- KindWeak, Registry <- r, Sweep <- 2, Finals <- {oc},
    Refs <- {<<oa, "x", oc>>, <<ob, oc, oc>>},
    g <- v1, entry <- v2, stack <- v3, fin <- v4, inTM <- v5

(* Two ephemerons: the value in a is the key in b.                          *)
KindEphemeron == [o \in {r, oa, ob, oc, od} |-> CASE o = r -> "strong" [] o \in {oa, ob} -> "ephemeron"
                                              [] OTHER -> "udata"]
Ephemeron == INSTANCE LuaGC WITH
    Obj <- {r, oa, ob, oc, od}, Kind <- KindEphemeron, Registry <- r, Sweep <- 2, Finals <- {},
    Refs <- {<<oa, oa, oc>>, <<ob, oc, od>>},
    g <- v1, entry <- v2, stack <- v3, fin <- v4, inTM <- v5

-----------------------------------------------------------------------------
(* Stacks of the main thread and of the coroutine.                          *)
Small == [th \in {Main, T} |-> IF th = Main THEN 2 ELSE 1]
Alone == [th \in {Main} |-> 2]
Deep == [th \in {Main, T} |-> 1]

Thread == INSTANCE LuaUpvalues WITH
    Closures <- {c1}, Coroutines <- {T}, Objs <- {}, Upvals <- {u1}, Size <- Small,
    g <- v1, stack <- v2, upv <- v3, up <- v4, val <- v5, cache <- v6
Two == INSTANCE LuaUpvalues WITH
    Closures <- {c1, c2}, Coroutines <- {}, Objs <- {}, Upvals <- {u1, u2}, Size <- Alone,
    g <- v1, stack <- v2, upv <- v3, up <- v4, val <- v5, cache <- v6
Finalizer == INSTANCE LuaUpvalues WITH
    Closures <- {c1}, Coroutines <- {T}, Objs <- {ud}, Upvals <- {u1}, Size <- Deep,
    g <- v1, stack <- v2, upv <- v3, up <- v4, val <- v5, cache <- v6

-----------------------------------------------------------------------------
vars == <<part, v1, v2, v3, v4, v5, v6>>

Init ==
    /\ part \in Parts
    /\ \/ part = "strong" /\ Strong!Init /\ v6 = "unused"
       \/ part = "weak" /\ Weak!Init /\ v6 = "unused"
       \/ part = "ephemeron" /\ Ephemeron!Init /\ v6 = "unused"
       \/ part = "thread" /\ Thread!Init
       \/ part = "two" /\ Two!Init
       \/ part = "finalizer" /\ Finalizer!Init

Next ==
    \/ part = "strong" /\ Strong!Next /\ UNCHANGED <<part, v6>>
    \/ part = "weak" /\ Weak!Next /\ UNCHANGED <<part, v6>>
    \/ part = "ephemeron" /\ Ephemeron!Next /\ UNCHANGED <<part, v6>>
    \/ part = "thread" /\ Thread!Next /\ UNCHANGED part
    \/ part = "two" /\ Two!Next /\ UNCHANGED part
    \/ part = "finalizer" /\ Finalizer!Next /\ UNCHANGED part

Spec == Init /\ [][Next]_vars

-----------------------------------------------------------------------------
(* Fairness, as in LuaGC and LuaUpvalues: a program that goes on allocating *)
(* pays with steps of the collector, unless finalizers have to be called   *)
(* first, and finalizers return.                                           *)
FairInit ==
    \/ part = "fair" /\ Fair!Init /\ v6 = "unused"
    \/ part = "thread" /\ Thread!Init

FairSteps == part = "fair" /\ Fair!SingleStep /\ UNCHANGED <<part, v6>>
FairGCTM == part = "fair" /\ Fair!GCTM /\ UNCHANGED <<part, v6>>
FairReturnTM == part = "fair" /\ Fair!ReturnTM /\ UNCHANGED <<part, v6>>
ThreadSteps == part = "thread" /\ Thread!SingleStep /\ UNCHANGED part

FairNext ==
    \/ FairSteps \/ FairGCTM \/ FairReturnTM
    \/ part = "fair" /\ Fair!Program /\ UNCHANGED <<part, v6>>
    \/ ThreadSteps
    \/ part = "thread" /\ (Thread!GCTM \/ Thread!Program) /\ UNCHANGED part

FairSpec ==
    /\ FairInit /\ [][FairNext]_vars
    /\ []<><<FairSteps \/ ThreadSteps>>_vars
       \/ []<>(part = "fair" /\ v1.state = "callfin" /\ v1.tobefnz # <<>>)
    /\ WF_vars(FairGCTM) /\ WF_vars(FairReturnTM)

-----------------------------------------------------------------------------
(* What the program or a finalizer can get at has not been freed: through   *)
(* weak tables, variables of dead threads, and the closure that a prototype *)
(* will give out again.                                                    *)
NoDangling ==
    /\ part = "strong" => Strong!NoDangling
    /\ part = "ephemeron" => Ephemeron!NoDangling
    /\ part = "thread" => Thread!NoDangling
    /\ part = "finalizer" => Finalizer!NoDangling

(* While marking no black object refers to a white one, not even through a  *)
(* closed variable, and gray objects are in their lists; when a cycle ends *)
(* everything is white again.                                              *)
Colours ==
    /\ part = "strong" => Strong!TypeOK /\ Strong!TriColour /\ Strong!AllWhiteBetweenCycles
    /\ part = "thread" => Thread!TriColour

(* Variables that closures share are there as long as one of them or the    *)
(* stack needs them, once each, and open ones are found when their thread  *)
(* is not marked any more.                                                 *)
UpvaluesCounted ==
    /\ part = "two" => Two!UpvaluesCounted
    /\ part = "finalizer" => Finalizer!UpvaluesCounted

(* Finalizers are due for what nothing reaches, in the reverse order of      *)
(* their marking, and none is lost; weak tables lose them as values before *)
(* they run, and ephemerons the entries whose key is gone, no more.        *)
CycleEnds ==
    [][ /\ part = "strong" => Strong!FinalizersNotLost /\ Strong!FinalizersDue
        /\ part = "weak" => Weak!WeakTablesCleared
        /\ part = "ephemeron" => Ephemeron!EphemeronsPrecise ]_vars

(* What neither the program nor a finalizer to come can reach is freed in   *)
(* the end: also dead threads with closures over their own variables.      *)
GarbageIsFreed ==
    /\ \A o \in {r, oa, ob} : part = "fair" /\ Fair!Garbage(o) ~> ~(part = "fair" /\ o \in Fair!Allocated)
    /\ \A o \in {c1, T} : part = "thread" /\ Thread!Garbage(o)
                          ~> ~(part = "thread" /\ Thread!Garbage(o))

(* A finalizer that is due is called in the end.                            *)
FinalizersRun ==
    \A o \in {oa, ob} :
      part = "fair" /\ o \in Fair!Elems(v1.tobefnz)
        ~> ~(part = "fair" /\ o \in Fair!Elems(v1.tobefnz))
=============================================================================

----------------------------- MODULE MCExecution -----------------------------
(***************************************************************************)
(* The parts of the interpreter that run a script, each on small           *)
(* instances, one per behaviour: the table of strings when it grows        *)
(* ("intern") and when it is shrunk ("shrink"), tables as maps ("table")   *)
(* and under traversal ("walk"), metatables read ("index"), written        *)
(* ("assign") and asked for events ("event"), the operators ("compare",    *)
(* "concat"), numbers ("arithmetic") and the loops over them ("loop"),     *)
(* coroutines that call deep ("deep") and that resume one another          *)
(* ("threads"), and the memory of the stack ("stack").  The modules of     *)
(* "intern" and "stack" are extended, and their variables are at rest in   *)
(* the other parts, which share v1 to v7; Parts chooses some of the parts. *)
(***************************************************************************)
EXTENDS LuaString, LuaStackSpace, TLC

CONSTANTS Parts, Nil, ka, kb, v, objA, objB, t1, t2

VARIABLES part, v1, v2, v3, v4, v5, v6, v7

-----------------------------------------------------------------------------
(* Tables with colliding objects and integers.                              *)
HashOfKey == [o \in {ka, kb} |-> IF o = ka THEN 0 ELSE 3]

Table == INSTANCE LuaTable WITH
    Objects <- {ka}, IntKeys <- {0, 1, 2, 3}, Value <- {v}, Hash <- HashOfKey, MaxArray <- 8,
    MaxInteger <- 32, Sizes <- {0, 3}, Walks <- FALSE,
    t <- v1, walking <- v2, key <- v3, visited <- v4, stayed <- v5
Walked == INSTANCE LuaTable WITH
    Objects <- {ka, kb}, IntKeys <- {1, 2}, Value <- {v}, Hash <- HashOfKey, MaxArray <- 8,
    MaxInteger <- 32, Sizes <- {0, 3}, Walks <- TRUE,
    t <- v1, walking <- v2, key <- v3, visited <- v4, stayed <- v5

ASSUME Table!KeysDiffer /\ Walked!KeysDiffer

-----------------------------------------------------------------------------
(* Strings: "x" and "z" collide in a table of two, "x" and "y" in one of    *)
(* one; or all of them in a table of eight, far apart, in one of four.     *)
HashNear == [m |-> 0, x |-> 1, y |-> 2, z |-> 3]
HashFar == [m |-> 0, x |-> 5, y |-> 7]
Addresses == [a \in 0..2 |-> CASE a = 0 -> "x" [] a = 1 -> "y" [] a = 2 -> "z"]

ASSUME StringAssumption

Shrunk == INSTANCE LuaString WITH
    Text <- {"m", "x", "y"}, Hash <- HashFar,
    Address <- [a \in 0..1 |-> Addresses[a]],
    MinSize <- 8, MaxSize <- 8, s <- v1, held <- v2

-----------------------------------------------------------------------------
(* Metatables: a plain key holds the string; an event names a function or a *)
(* place to go on.                                                         *)
Handlers(k) == IF k = "k" THEN {objB} ELSE {objA, objB, t1, t2}
OneFunction(k) == {objA}

Index == INSTANCE LuaMeta WITH
    Tables <- {t1, t2}, Keys <- {"k", "__index"}, ValuesOf <- Handlers,
    Fun <- objA, Str <- objB, NIL <- Nil, MAXTAGLOOP <- 3, raw <- v1, mt <- v2, flags <- v3
Assign == INSTANCE LuaMeta WITH
    Tables <- {t1, t2}, Keys <- {"k", "__newindex"}, ValuesOf <- Handlers,
    Fun <- objA, Str <- objB, NIL <- Nil, MAXTAGLOOP <- 3, raw <- v1, mt <- v2, flags <- v3
Event == INSTANCE LuaMeta WITH
    Tables <- {t1, t2}, Keys <- {"__eq", "__len"}, ValuesOf <- OneFunction,
    Fun <- objA, Str <- objB, NIL <- Nil, MAXTAGLOOP <- 3, raw <- v1, mt <- v2, flags <- v3

ASSUME Index!ChainsFit /\ Assign!ChainsFit /\ Event!ChainsFit

-----------------------------------------------------------------------------
(* Operators on two objects, three strings and a number.                    *)
Words == {<<>>, <<"x">>, <<"x", "1">>}
Answers == {<<"nil", "">>, <<"o", objA>>, <<"s", <<>>>>, <<"n", <<"1">>>>}

Compare == INSTANCE LuaOperators WITH
    Objects <- {objA, objB}, Events <- {"__lt", "__le", "__eq", "__add"}, Strings <- Words,
    Numbers <- {<<"1">>}, Answers <- Answers, MaxOperands <- 2, MAX_SIZE <- 5,
    has <- v1, inst <- v2, stack <- v3, leq <- v4, pending <- v5, log <- v6, outcome <- v7
Concat == INSTANCE LuaOperators WITH
    Objects <- {objA, objB}, Events <- {"__concat"}, Strings <- {<<>>, <<"x", "1">>},
    Numbers <- {<<"1">>}, Answers <- Answers, MaxOperands <- 4, MAX_SIZE <- 5,
    has <- v1, inst <- v2, stack <- v3, leq <- v4, pending <- v5, log <- v6, outcome <- v7

-----------------------------------------------------------------------------
(* All numbers of small formats: words of 5 bits and floats of 3, and words *)
(* of 4 bits and floats of 2.                                               *)
NaN == [t |-> "nan", n |-> 0]
NoNumber == [t |-> "none", n |-> 0]
Whole(n) == [t |-> "int", n |-> n]
Float(u) == [t |-> "flt", n |-> u]
Infinities(n) == {Float(n), Float(-n)}
Wide == INSTANCE Floats WITH Mantissa <- 3, Word <- 5, Fraction <- 2
Narrow == INSTANCE Floats WITH Mantissa <- 2, Word <- 4, Fraction <- 1

Arithmetic == INSTANCE LuaNumeric WITH
    Mantissa <- 3, Word <- 5, Fraction <- 2, Steps <- {},
    Numbers <- {Whole(n) : n \in -16..15} \cup {Float(u) : u \in {x \in -128..128 : Wide!Nearest(x) = x}}
               \cup Infinities(2^11) \cup {NaN, NoNumber},
    asked <- v1, res <- v2, loop <- v3, args <- v4, var <- v5
Loop == INSTANCE LuaNumeric WITH
    Mantissa <- 2, Word <- 4, Fraction <- 1,
    Steps <- {Whole(n) : n \in {-8, -3, -1, 0, 1, 2, 7}} \cup {Float(u) : u \in {-3, 0, 1, 2}},
    Numbers <- {Whole(n) : n \in -8..7} \cup {Float(u) : u \in {x \in -32..32 : Narrow!Nearest(x) = x}}
               \cup Infinities(2^9) \cup {NaN, NoNumber},
    asked <- v1, res <- v2, loop <- v3, args <- v4, var <- v5

ASSUME Arithmetic!IntegersRound /\ Loop!IntegersRound

-----------------------------------------------------------------------------
(* A coroutine that calls deep; three threads that call a little.           *)
OneDeep(t) == IF t = ka THEN 5 ELSE 2
Several(t) == IF t = ka THEN 4 ELSE 2

Deep == INSTANCE LuaThread WITH
    Threads <- {"main", ka}, Main <- "main", MAXCCALLS <- 6, MaxFrames <- OneDeep,
    th <- v1, cs <- v2, m <- v3, seen <- v4
Three == INSTANCE LuaThread WITH
    Threads <- {"main", ka, kb}, Main <- "main", MAXCCALLS <- 3, MaxFrames <- Several,
    th <- v1, cs <- v2, m <- v3, seen <- v4

-----------------------------------------------------------------------------
(* A stack of at most 13 slots, and 19 for the handler of an overflow       *)
(* (Execution.cfg).                                                        *)
ASSUME Sizes

-----------------------------------------------------------------------------
Rest == <<v1, v2, v3, v4, v5, v6, v7>>
MCvars == <<part, vars, spaceVars, Rest>>

\* The variables that a part leaves out.
From8 == <<part, vars, spaceVars>>
From6 == <<From8, v6, v7>>
From5 == <<From6, v5>>
From4 == <<From5, v4>>
From3 == <<From4, v3>>
Unused6 == v6 = "unused" /\ v7 = "unused"
Unused5 == v5 = "unused" /\ Unused6
Unused4 == v4 = "unused" /\ Unused5
Unused3 == v3 = "unused" /\ Unused4
Unused1 == v1 = "unused" /\ v2 = "unused" /\ Unused3

MCInit ==
    /\ part \in Parts
    /\ Init
    /\ SpaceInit
    /\ \/ part \in {"intern", "stack"} /\ Unused1
       \/ part = "shrink" /\ Shrunk!Init /\ Unused3
       \/ part = "table" /\ Table!Init /\ Unused6
       \/ part = "walk" /\ Walked!Init /\ Unused6
       \/ part = "index" /\ Index!Init /\ Unused4
       \/ part = "assign" /\ Assign!Init /\ Unused4
       \/ part = "event" /\ Event!Init /\ Unused4
       \/ part = "compare" /\ Compare!Init
       \/ part = "concat" /\ Concat!Init
       \/ part = "arithmetic" /\ Arithmetic!Init /\ Unused6
       \/ part = "loop" /\ Loop!Init /\ Unused6
       \/ part = "deep" /\ Deep!Init /\ Unused5
       \/ part = "threads" /\ Three!Init /\ Unused5

MCNext ==
    \/ part = "intern" /\ Next /\ UNCHANGED <<part, spaceVars, Rest>>
    \/ part = "shrink" /\ Shrunk!Next /\ UNCHANGED From3
    \/ part = "table" /\ Table!Next /\ UNCHANGED From6
    \/ part = "walk" /\ Walked!Next /\ UNCHANGED From6
    \/ part = "index" /\ Index!Next /\ UNCHANGED From4
    \/ part = "assign" /\ Assign!Next /\ UNCHANGED From4
    \/ part = "event" /\ Event!Next /\ UNCHANGED From4
    \/ part = "compare" /\ Compare!Next /\ UNCHANGED From8
    \/ part = "concat" /\ Concat!Next /\ UNCHANGED From8
    \/ part = "arithmetic" /\ Arithmetic!Next /\ UNCHANGED From6
    \/ part = "loop" /\ Loop!Next /\ UNCHANGED From6
    \/ part = "deep" /\ Deep!Next /\ UNCHANGED From5
    \/ part = "threads" /\ Three!Next /\ UNCHANGED From5
    \/ part = "stack" /\ SpaceNext /\ UNCHANGED <<part, vars, Rest>>

MCSpec == MCInit /\ [][MCNext]_MCvars

-----------------------------------------------------------------------------
(* The strings have their property in LuaString, StringsInterned, and the   *)
(* memory of the stack in LuaStackSpace, StackKept.                        *)

(* The nodes of a table keep their main positions through every collision   *)
(* and rehash, no re-insertion starts another one, its length is a border, *)
(* and a traversal finds the key that it has returned last, dead or not;   *)
(* the table of strings keeps its own when the collector shrinks it.       *)
TablesKept ==
    /\ part = "shrink" => Shrunk!StringsInterned
    /\ part = "table" =>
        Table!TypeOK /\ Table!MainPositions /\ Table!RoomAfterRehash /\ Table!LengthIsBorder
    /\ part = "walk" => Walked!WalkNeverFails

(* A traversal returns no key twice and every key that stayed, whatever is  *)
(* cleared and collected meanwhile; the array part after a rehash is the   *)
(* largest one more than half of which is in use.                          *)
TableSteps ==
    [][ /\ part = "walk" => Walked!WalkIsComplete
        /\ part = "table" => Table!MoreThanHalf ]_MCvars

(* The table is the map of LuaMap, which only an assignment changes, and     *)
(* only at its key.                                                        *)
ImplementsMap ==
    /\ part = "table" => Table!Map!Init
    /\ [][part = "table" => [Table!Map!Next]_(Table!Content)]_MCvars

(* An access, an assignment, a comparison and a length do what the          *)
(* metatables mean as they are now, whatever the bits of flags remember     *)
(* of them, and "possible loop" is raised for the chains that are circles; *)
(* an operator has the meaning of its operands and of the metamethods it   *)
(* calls, one after the other, also when each of them yields; integers     *)
(* and floats compare as the numbers they are, integers wrap around, and a *)
(* numeric loop runs as often as the loop of the manual.                   *)
OperatorsMean ==
    /\ part = "index" => Index!IndexIsChain
    /\ part = "assign" => Assign!IndexIsChain /\ Assign!AssignIsChain
    /\ part = "event" => Event!EqualAndLength
    /\ part = "compare" => Compare!OperatorsMean
    /\ part = "concat" => Concat!OperatorsMean
    /\ part = "arithmetic" =>
        Arithmetic!ComparesExactly /\ Arithmetic!IntegersWrap /\ Arithmetic!FloatModWhenNormal
    /\ part = "loop" => Loop!LoopIsWhile

(* A suspended coroutine holds only frames that can be continued, with the  *)
(* handler of its innermost pcall; nCcalls counts the C calls, after every  *)
(* longjmp too; and the host finds the main thread as it left it.          *)
CoroutinesKept ==
    /\ part = "deep" => Deep!Continuable
    /\ part = "threads" => Three!CountsCalls /\ Three!BackToStart

(* An error reaches the nearest protected call of its thread, a yield        *)
(* succeeds exactly when nothing in between cannot be continued, and other *)
(* threads are not disturbed: the C stack, its counters and what it saved  *)
(* do what LuaCoroutines says.                                             *)
ImplementsCoroutines ==
    /\ part = "deep" => Deep!Abstract!Init
    /\ part = "threads" => Three!Abstract!Init
    /\ [][ /\ part = "deep" => [Deep!Abstract!Next]_(Deep!Abstract!avars)
           /\ part = "threads" => [Three!Abstract!Next]_(Three!Abstract!avars) ]_MCvars
=============================================================================

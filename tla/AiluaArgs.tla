------------------------------ MODULE AiluaArgs -----------------------------
(***************************************************************************)
(* What ailua:call/3 does to its arguments before gencall (process_list    *)
(* and process_item of src/ailua.erl).                                     *)
(*                                                                         *)
(* Terms:  int n, flt (n, in units), list (elems, and whether it is        *)
(* proper), map (pairs, in the order of maps:to_list), tuple (elems) and   *)
(* other.  Crash stands for the exception the caller gets.                 *)
(***************************************************************************)
EXTENDS Floats, SequencesExt

CONSTANTS
    MaxFloat,  \* the largest float
    Printable, \* the characters of io_lib:printable_list
    ArgLists   \* what clients pass as Args

VARIABLES
    given,  \* the arguments of the client
    passed, \* the arguments gencall gets, or Crash
    again   \* what process_args makes of those

vars == <<given, passed, again>>

Integer(n) == [t |-> "int", n |-> n]
Float(u) == [t |-> "flt", n |-> u]
List(elems) == [t |-> "list", elems |-> elems, proper |-> TRUE]
Map(pairs) == [t |-> "map", pairs |-> pairs]
None == [t |-> "none"]
Crash == [t |-> "crash"]

MAX_UINT64 == 2^Word - 1
MAX_MINUS_INT64 == -(2^(Word - 1))

\* Mutant: the upper limit is taken for the first integer that does not fit.
OutOfRangeLate(n) == n > MAX_UINT64 + 1 \/ n < MAX_MINUS_INT64

OutOfRange(n) == n > MAX_UINT64 \/ n < MAX_MINUS_INT64

\* Item * 1.0
Multiply(n) == IF Abs(n) > MaxFloat THEN Crash ELSE Float(Nearest(n * Unit))

PrintableList(term) ==
    /\ term.proper
    /\ \A i \in DOMAIN term.elems :
         term.elems[i].t = "int" /\ term.elems[i].n \in Printable

\* maps:put
Put(pairs, key, value) ==
    Append(SelectSeq(pairs, LAMBDA p : p[1] # key), <<key, value>>)

RECURSIVE process_item(_)

\* An improper tail has no clause of process_list.
process_list(term) ==
    LET elems == [i \in DOMAIN term.elems |-> process_item(term.elems[i])]
    IN  IF ~term.proper \/ Crash \in Range(elems) THEN Crash ELSE List(elems)

process_map(term) ==
    LET kv == [i \in DOMAIN term.pairs |->
                 <<process_item(term.pairs[i][1]), process_item(term.pairs[i][2])>>]
    IN  IF \E i \in DOMAIN kv : Crash \in Range(kv[i]) THEN Crash
        ELSE Map(FoldLeft(LAMBDA pairs, p : Put(pairs, p[1], p[2]), <<>>, kv))

process_item(term) ==
    CASE term.t = "int" -> IF OutOfRange(term.n) THEN Multiply(term.n) ELSE term
      [] term.t = "list" -> IF PrintableList(term) THEN term ELSE process_list(term)
      [] term.t = "map" -> process_map(term)
      [] OTHER -> term

-----------------------------------------------------------------------------
Init == given = None /\ passed = None /\ again = None

\* ailua:call; what is no list has no clause either.
call(args) ==
    /\ given = None
    /\ given' = args
    /\ passed' = IF args.t = "list" THEN process_list(args) ELSE Crash
    /\ UNCHANGED again

\* A client that calls the exported process_args first.
process_args ==
    /\ passed.t = "list" /\ again = None
    /\ again' = process_list(passed)
    /\ UNCHANGED <<given, passed>>

Next == (\E args \in ArgLists : call(args)) \/ process_args

Spec == Init /\ [][Next]_vars

-----------------------------------------------------------------------------
\* The numbers erlang_to_lua takes (c_src/ailua_coder.c:157-174), whatever
\* they are nested in; tuples it refuses anyway.
RECURSIVE Numbers(_)
Numbers(term) ==
    CASE term.t \in {"int", "flt"} -> {term}
      [] term.t = "list" -> UNION {Numbers(term.elems[i]) : i \in DOMAIN term.elems}
      [] term.t = "map" ->
           UNION {Numbers(term.pairs[i][1]) \cup Numbers(term.pairs[i][2]) :
                    i \in DOMAIN term.pairs}
      [] OTHER -> {}
Accepted(number) ==
    number.t = "flt" \/ number.n \in MAX_MINUS_INT64..MAX_UINT64

\* Terms alike up to numbers that are nearest to each other.
RECURSIVE Alike(_, _)
Alike(a, b) ==
    /\ a.t = b.t \/ (a.t = "int" /\ b.t = "flt")
    /\ a.t = "int" => IF b.t = "int" THEN a = b ELSE ~Accepted(a) /\ b.n = Nearest(a.n * Unit)
    /\ a.t = "list" =>
         /\ Len(a.elems) = Len(b.elems)
         /\ \A i \in DOMAIN a.elems : Alike(a.elems[i], b.elems[i])
    /\ a.t = "map" =>
         /\ \A i \in DOMAIN b.pairs : \E j \in DOMAIN a.pairs :
              Alike(a.pairs[j][1], b.pairs[i][1]) /\ Alike(a.pairs[j][2], b.pairs[i][2])
         /\ \A j \in DOMAIN a.pairs : \E i \in DOMAIN b.pairs :
              Alike(a.pairs[j][1], b.pairs[i][1])
    /\ a.t \in {"flt", "tuple", "other"} => a = b

Done == passed.t = "list"

(* No number that is passed on is refused by erlang_to_lua for its size, so  *)
(* that a call fails for a tuple or a pid only, never for an integer.      *)
NothingTooBig == Done => \A number \in Numbers(passed) : Accepted(number)

(* What is passed on is what was given: every element and every key in its  *)
(* place, every value one that was given under a key that became that key; *)
(* integers stay themselves unless they do not fit.                        *)
NothingElseChanged == Done => Alike(given, passed)

(* Arguments that were processed are not changed by ailua:call, so that     *)
(* process_args may be called any number of times.                         *)
Idempotent == again # None => again = passed
=============================================================================

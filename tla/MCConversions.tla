---------------------------- MODULE MCConversions ----------------------------
(***************************************************************************)
(* The parts of ailua that convert what crosses between Erlang and Lua,    *)
(* each on small instances, one per behaviour: the creation of a machine   *)
(* with a path ("creation"; its module is extended, and its variables are  *)
(* at rest in the other parts), the term coder ("coder"), its numbers with *)
(* the widths of C scaled down ("numbers"), and the arguments in ailua.erl *)
(* ("arguments"), which share the other variables.                         *)
(***************************************************************************)
EXTENDS AiluaAlloc, SequencesExt

VARIABLES part, v1, v2, v3, v4

-----------------------------------------------------------------------------
(* The coder: names with and without a Latin-1 encoding and a zero byte.    *)
Spellings ==
    [nil |-> <<"n", "i", "l">>, null |-> <<"n", "u", "l", "l">>,
     undefined |-> <<"u", "n", "d", "e", "f", "i", "n", "e", "d">>,
     true |-> <<"t", "r", "u", "e">>, false |-> <<"f", "a", "l", "s", "e">>,
     fals |-> <<"f", "a", "l", "s">>, a |-> <<"a">>, b |-> <<"b">>,
     a0b |-> <<"a", "0", "b">>, wide |-> <<"W">>, _ERL_MAP |-> <<"_", "E">>]

Atom(n) == [t |-> "atom", name |-> n]
Bin(s) == [t |-> "bin", bytes |-> s]
ListOf(e) == [t |-> "list", elems |-> e]
MapOf(pairs) == [t |-> "map", pairs |-> pairs]
N(n) == [t |-> "num", n |-> n]
Other == [t |-> "other"]

Scalars == {Atom(n) : n \in {"undefined", "true", "false", "fals", "a", "wide"}}
    \cup {Bin(<<>>), Bin(<<"a">>), Bin(<<"a", "0", "b">>), N(1), N(2),
          [t |-> "flt", n |-> 1], Other}
Few == {Atom("undefined"), Bin(<<"a">>), N(1), Other}
Lists(S, n) == {ListOf(e) : e \in SeqOf(S, n)}
Keys == {Atom("undefined"), Atom("a"), Bin(<<"a">>), N(1), [t |-> "flt", n |-> 1]}
Values == {Atom("undefined"), N(1), ListOf(<<N(1)>>), MapOf(<<>>)}
Maps(K, V) == {MapOf(<<>>)} \cup {MapOf(<<<<k, v>>>>) : k \in K, v \in V}
Maps2(K, V) ==
    {MapOf(<<<<p[1], p[2]>>, <<p[3], p[4]>>>>) :
       p \in {q \in K \X V \X K \X V : q[1] # q[3]}}

Nested == Maps({N(1), Bin(<<"a">>)}, Few) \cup Lists(Few, 2)
ErlTerms ==
    Scalars \cup Lists(Few, 4) \cup Maps(Scalars, Scalars) \cup Maps2(Keys, Values)
    \cup Lists(Nested, 1) \cup Maps({N(1)} \cup Nested, Nested)
    \cup {ListOf(<<x, N(1)>>) : x \in Nested}

\* Tables that a script makes, with the mark of a map, with a metatable
\* without it, with one that is no map any more.
Table(arr, fields, m) == [t |-> "table", arr |-> arr, hash |-> fields, meta |-> m]
Str(s) == [t |-> "str", bytes |-> s]
Leaf == {Table(<<>>, <<>>, m) : m \in {"none", "mark", "bare", "unmark"}}
    \cup {Table(<<N(1)>>, <<>>, m) : m \in {"none", "mark", "bare"}}
Inner == {N(1), Str(<<"a">>), [t |-> "bool", b |-> FALSE], [t |-> "func"]} \cup Leaf
Outer == {Table(<<x, y>>, <<>>, m) : x, y \in Inner, m \in {"none", "mark"}}
    \cup {Table(<<>>, <<<<Str(<<"a">>), x>>, <<y, N(1)>>>>, "mark") :
            x \in Inner, y \in Inner \ {Str(<<"a">>)}}
    \cup {Table(<<>>, <<<<y, Str(<<"a">>)>>, <<Str(<<"b">>), x>>>>, "mark") :
            x \in Inner, y \in Inner}
Deep == {Table(<<>>, <<<<N(1), o>>, <<N(2), x>>>>, "mark") :
           o \in {q \in Outer : q.arr # <<>>}, x \in {N(1)} \cup Leaf}
LuaValues == Inner \cup Outer \cup Deep

Coder == INSTANCE AiluaCoder WITH
    MaxInteger <- 32767, Spelling <- Spellings, Wide <- {"wide"}, Nul <- "0",
    ErlTerms <- ErlTerms, LuaValue <- LuaValues, Fuel <- 6,
    stack <- v1, sent <- v2, status <- v3, answer <- v4

-----------------------------------------------------------------------------
(* Numbers: every integer around the ranges and every float of a small      *)
(* format, unsigned int having 3 bits, a word 8 and a float 5.             *)
Int1(n) == [t |-> "int", n |-> n]
Flt(u) == [t |-> "flt", n |-> u]
Sizes == INSTANCE Floats WITH Mantissa <- 5, Word <- 8, Fraction <- 3
AllFloats == {Flt(u) : u \in {n \in -(2^11)..(2^11) : Sizes!Nearest(n) = n}}
NumberTerms == {Int1(n) : n \in -(2^8)..(2^8 + 3)} \cup AllFloats
ScriptNumbers ==
    {Int1(n) : n \in -(2^7)..(2^7 - 1)} \cup AllFloats \cup {[t |-> "nan"], [t |-> "inf"]}

Numbers == INSTANCE AiluaNumbers WITH
    IntBits <- 3, Mantissa <- 5, Word <- 8, Fraction <- 3, Epsilon <- 1,
    Terms <- NumberTerms, LuaNumbers <- ScriptNumbers,
    term <- v1, lua <- v2, back <- v3, trips <- v4

ASSUME Numbers!Widths

-----------------------------------------------------------------------------
(* Arguments: integers at both limits of a word of 6 bits and beyond what a *)
(* float holds, in lists, maps, tuples and improper lists, two deep.       *)
Big == 2^6
Proper(e) == [t |-> "list", elems |-> e, proper |-> TRUE]
Ints == {Int1(n) : n \in {0, 1, Big - 1, Big, Big + 1, -(Big \div 2), -(Big \div 2) - 1, 501}}
FewInts == {Int1(1), Int1(Big), Int1(Big + 1)}
ArgMaps(K, V) ==
    LET pairs == K \X V
    IN  {MapOf(<<>>)} \cup {MapOf(<<p>>) : p \in pairs}
        \cup {MapOf(q) : q \in {r \in pairs \X pairs : r[1][1] # r[2][1]}}
Tails(S) == {[t |-> "list", elems |-> <<x>>, proper |-> FALSE] : x \in S}
NestedArgs ==
    ArgMaps(FewInts, {Int1(1), Int1(Big)}) \cup {Proper(e) : e \in SeqOf(FewInts, 2)}
    \cup Tails(FewInts) \cup {[t |-> "tuple", elems |-> <<Int1(Big)>>]}
Args == Ints \cup NestedArgs \cup {Flt(1), Other}
ArgLists ==
    Args \cup {Proper(<<x>>) : x \in Args} \cup {Proper(e) : e \in SeqOf(Ints, 2)}
    \cup {Proper(<<x, y>>) : x \in NestedArgs, y \in FewInts}
    \cup {Proper(<<Proper(<<x, y>>)>>) : x \in FewInts, y \in NestedArgs}
    \cup {Proper(<<m>>) : m \in ArgMaps({Int1(1), Proper(<<Int1(Big)>>)},
                                        Tails(FewInts) \cup {Proper(<<Int1(Big)>>)})}

Arguments == INSTANCE AiluaArgs WITH
    Mantissa <- 4, Word <- 6, Fraction <- 0, MaxFloat <- 500, Printable <- {0, 1},
    ArgLists <- ArgLists, given <- v1, passed <- v2, again <- v3

-----------------------------------------------------------------------------
(* Creation: every path of up to four bytes over three.                     *)
AllPaths == SeqOf({"p", ";", "0"}, 4)
OpenedPath == <<"d", ";">>

ASSUME CreationAssumption

-----------------------------------------------------------------------------
MCvars == <<part, vars, v1, v2, v3, v4>>

Unused(x) == x = "unused"

MCInit ==
    /\ Init
    /\ \/ part = "creation" /\ Unused(v1) /\ Unused(v2) /\ Unused(v3) /\ Unused(v4)
       \/ part = "coder" /\ path = NULL /\ Coder!Init
       \/ part = "numbers" /\ path = NULL /\ Numbers!Init
       \/ part = "arguments" /\ path = NULL /\ Arguments!Init /\ Unused(v4)

MCNext ==
    \/ part = "creation" /\ Next /\ UNCHANGED <<part, v1, v2, v3, v4>>
    \/ part = "coder" /\ Coder!Next /\ UNCHANGED <<part, vars>>
    \/ part = "numbers" /\ Numbers!Next /\ UNCHANGED <<part, vars>>
    \/ part = "arguments" /\ Arguments!Next /\ UNCHANGED <<part, vars, v4>>

MCSpec == MCInit /\ [][MCNext]_MCvars

-----------------------------------------------------------------------------
(* The creation of a machine has its property in AiluaAlloc: MachineCreated. *)

(* Terms and tables, however nested, come back as the README says, a list  *)
(* with holes as a prefix; the stack is as deep after a conversion as      *)
(* before, unless a term is refused or a metatable lacks the mark, and     *)
(* nothing below what was pushed is touched.                               *)
TermsComeBack ==
    part = "coder" =>
        Coder!TypeOK /\ Coder!RoundTrip /\ Coder!HolesTruncate /\ Coder!TameConverts
        /\ Coder!RefusedLeavesBelow

(* Non-negative integers and what Lua holds as a number come back with      *)
(* their values, within the precision of a float; only infinities raise;   *)
(* from the second trip on nothing changes any more.                       *)
NumbersComeBack ==
    part = "numbers" =>
        Numbers!TypeOK /\ Numbers!NonNegativeKept /\ Numbers!LuaNumbersKept
        /\ Numbers!SecondTripSame

(* process_args leaves no integer that the driver refuses for its size,     *)
(* changes nothing else, and nothing at all when called again.             *)
ArgumentsPrepared ==
    part = "arguments" =>
        Arguments!NothingTooBig /\ Arguments!NothingElseChanged /\ Arguments!Idempotent

(* README.md:74-75 and the ranges of ailua_coder.c:48-49: an integer within *)
(* the 64-bit range is passed as it is.  The code reads the negative ones   *)
(* into an unsigned int.                                                    *)
NegativeKept == part = "numbers" => Numbers!NegativeKept
=============================================================================

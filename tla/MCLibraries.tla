----------------------------- MODULE MCLibraries -----------------------------
(***************************************************************************)
(* The libraries of Lua and what reads its texts, each on small instances:  *)
(* table.sort with an order and with answers that are none ("sort"), the    *)
(* buffers in which all libraries build strings ("buffer"; these two        *)
(* modules are extended, their variables are at rest in the other parts),   *)
(* patterns of captures and repetitions ("captures") and of balance and     *)
(* frontiers ("balance"), string.pack of values ("pack") and string.unpack  *)
(* of any bytes ("unpack"), utf8 ("utf8"), the lexer ("lex"), compiled      *)
(* chunks ("chunk"), require with modules in circles ("circles") and        *)
(* without ("inorder"), reads of files ("read"), handles of files           *)
(* ("handles") and iterators over them ("lines").  The other variables are  *)
(* shared out among these parts; Parts chooses some of them.               *)
(***************************************************************************)
EXTENDS LuaSort, LuaBuffer, TLC

CONSTANTS Parts, ERR, NONE, NoPath, m1, m2, x1, x2

VARIABLES part, v1, v2, v3, v4, v5, v6, v7, v8

Upto(S, n) == UNION {[1..k -> S] : k \in 0..n}

-----------------------------------------------------------------------------
(* Short patterns over some items, on short subjects.                       *)
Two == {"a", "b"}
ClassOf ==
    [c \in {"a", "b", ".", "[^a]", "[", "*", "+", "?", "-", "^", "$", "end"} |->
       CASE c \in Two -> {c} [] c = "." -> Two [] c = "[^a]" -> Two \ {"a"} [] OTHER -> {}]
PatternsOver(items, n) == {q \in Upto(items, n) : \A k \in 1..Len(q) : q[k] = "^" => k = 1}

Captures == INSTANCE LuaPattern WITH
    Char <- Two, Class <- ClassOf, Frontier <- {"a"},
    Subjects <- {<<>>, <<"a">>, <<"a", "b">>, <<"a", "a", "b">>, <<"a", "b", "a">>},
    Patterns <- PatternsOver({"a", "[^a]", "*", "-", "?", "$", "(", ")", "%1"}, 4),
    MAXCAPTURES <- 3, MAXCCALLS <- 20, NULL <- NoBlock, subject <- v1, pattern <- v2, asked <- v3
Balance == INSTANCE LuaPattern WITH
    Char <- Two, Class <- ClassOf, Frontier <- {"a"},
    Subjects <- {s \in Upto(Two, 4) : Len(s) \in {0, 1, 4}},
    Patterns <- PatternsOver({"a", "b", ".", "+", "^", "(", ")", "%b", "%f"}, 3),
    MAXCAPTURES <- 3, MAXCCALLS <- 20, NULL <- NoBlock, subject <- v1, pattern <- v2, asked <- v3

-----------------------------------------------------------------------------
(* Arrays of numbers; and arrays of two values whose order function answers *)
(* anything.                                                               *)
SortAnswers ==
    [e \in Value \X Value |-> IF {e[1], e[2]} \subseteq 1..3 THEN {e[1] < e[2]} ELSE BOOLEAN]
SortArrays == Upto(1..3, 7) \cup Upto(4..5, 6)

ASSUME SortAssumption

-----------------------------------------------------------------------------
(* A configuration and one or two options, with bytes of one bit.           *)
IntOptions == {<<k, n>> : k \in {"int", "uint"}, n \in 1..6}
Configs == {<<"<", 0>>, <<">", 0>>, <<"=", 0>>, <<"!", 2>>, <<"!", 4>>}
Others == {<<"char", 2>>, <<"string", 1>>, <<"string", 4>>, <<"zstr", 0>>, <<"pad", 0>>, <<"X", 2>>, <<"X", 3>>}
FormatsOf(options, n) == {c \o o : c \in Upto(Configs, 1), o \in Upto(options, n) \ {<<>>}}
SomeOptions == {<<"int", 1>>, <<"uint", 2>>, <<"int", 4>>, <<"uint", 6>>} \cup Others

Pack == INSTANCE LuaPack WITH
    Byte <- 2, SZINT <- 4, Native <- TRUE,
    Formats <- FormatsOf(IntOptions \cup Others, 1) \cup FormatsOf(SomeOptions, 2),
    Ints <- {-8, -1, 0, 1, 2, 7}, Strings <- {<<>>, <<1>>, <<0, 1>>}, Datas <- {},
    fmt <- v1, vals <- v2, data <- v3
Unpack == INSTANCE LuaPack WITH
    Byte <- 2, SZINT <- 4, Native <- TRUE, Formats <- FormatsOf(IntOptions \cup Others, 1),
    Ints <- {0}, Strings <- {<<>>, <<1>>}, Datas <- Upto(0..1, 6) \ {<<>>},
    fmt <- v1, vals <- v2, data <- v3

-----------------------------------------------------------------------------
(* Bytes at the limits of what UTF-8 admits.                                *)
Utf8 == INSTANCE LuaUtf8 WITH
    Byte <- {97, 128, 143, 144, 159, 160, 193, 224, 240, 244}, MaxLen <- 4,
    Codes <- {0, 127, 128, 2047, 2048, 55296, 65535, 65536, 1114111},
    s <- v1, seen <- v2, status <- v3

(* Short texts over a few sets of characters, and strings to quote.         *)
Text(codes, n) == SeqOf(codes, n)
Chars == [NL |-> 10, CR |-> 13, QUOTE |-> 34, EQUAL |-> 61, BRA |-> 91, BACKSLASH |-> 92, KET |-> 93, BRACE |-> 123]
TextsOf ==
    LET Q == Chars.QUOTE  B == Chars.BACKSLASH
    IN  Text({Chars.BRA, Chars.KET, Chars.EQUAL, Chars.NL, Chars.CR}, 5)
        \cup Text({45, Chars.BRA, Chars.KET, Chars.NL, 97}, 5)
        \cup {<<Q>> \o x : x \in Text({B, Q, Chars.NL, Chars.CR, 122, 49}, 4)}
        \cup Text({48, 46, 120, 101, 43}, 4)
        \cup Text({Chars.BRACE, 97, Chars.NL, Chars.CR, 32, Chars.EQUAL}, 5)
        \cup {<<Q, B, 117, Chars.BRACE>> \o x \o <<Chars.BRACE + 2, Q>> : x \in Text({48, 55, 102}, 4)}
        \cup {<<Q, B, 120>> \o x \o <<Q>> : x \in Text({48, 57, 70, 103}, 3)}
        \cup Text({105, 102, 58, 126, 60, 62, 47, Chars.EQUAL}, 2)
Lex == INSTANCE LuaLex WITH
    Texts <- TextsOf,
    Strings <- Text({0, Chars.NL, Chars.CR, Chars.QUOTE, Chars.BACKSLASH, 48, Chars.KET, Chars.EQUAL, 127, 200}, 3),
    Levels <- {0, 1, 2}, Reserved <- {<<105, 102>>},
    text <- v1, spells <- v2, at <- v3, linenumber <- v4, lastline <- v5, t <- v6, lookahead <- v7,
    consumed <- v8

-----------------------------------------------------------------------------
(* Functions within functions, with bytes of eight values; strings of       *)
(* lengths around the limits of short strings and of a byte.               *)
Letters(n) == [k \in 1..n |-> (k + 4) % 8]
Constant(t, v) == [t |-> t, v |-> v]
Upvalue(instack, idx, n) == [instack |-> instack, idx |-> idx, name |-> Letters(n)]
Leaf ==
    [source |-> Letters(2), linedefined |-> 9, numparams |-> 1, code |-> <<5, 60>>, k |-> <<>>, p |-> <<>>,
     lineinfo |-> <<9, 10>>, locvars |-> <<>>, upvalues |-> <<Upvalue(1, 0, 0)>>]
Spelt == [Leaf EXCEPT !.k = [k \in 1..5 |-> Constant(IF k = 1 THEN 5 ELSE 6, Letters(3 + k - 1))]]
AllTypes == [Leaf EXCEPT !.k = <<Constant(1, 0), Constant(2, 1), Constant(3, 63), Constant(4, 7), Constant(5, <<>>)>>,
                       !.upvalues = <<>>, !.code = <<>>]
Outer == [Leaf EXCEPT !.p = <<Leaf, [AllTypes EXCEPT !.p = <<Leaf>>]>>,
                      !.locvars = <<[varname |-> Letters(7), startpc |-> 0, endpc |-> 2]>>,
                      !.upvalues = <<Upvalue(1, 0, 4), Upvalue(0, 1, 5)>>]
\* Functions of different files in one chunk, as luac puts them together.
Combined == [Outer EXCEPT !.source = Letters(3), !.p = <<Leaf, [Outer EXCEPT !.source = Letters(4)]>>]

Chunk == INSTANCE LuaChunk WITH
    Byte <- 8, Protos <- {Leaf, Spelt, AllTypes, Outer, Combined}, PieceSizes <- {1, 3, 200},
    f <- v1, strip <- v2, written <- v3, whole <- v4, loaded <- v5, step <- v6

ASSUME Chunk!ChunkAssumption

-----------------------------------------------------------------------------
(* Modules: a is in a library, with a.b in it; v-b has the name of an older *)
(* luaopen function.                                                       *)
A == <<"a">>
Sub == <<"a", ".", "b">>
Old == <<"v", "-", "b">>
Plain == <<"b">>
Modules == {A, Sub, Old, Plain}
FilesOf ==
    <<"y", "b">> :> [k |-> "lua"] @@ <<"z", "a", "/", "b">> :> [k |-> "lua"] @@ <<"z", "b">> :> [k |-> "bad"]
    @@ <<"c", "a">> :> [k |-> "lib", syms |-> {A, <<"a", "_", "b">>}]
    @@ <<"c", "v", "-", "b">> :> [k |-> "lib", syms |-> {Plain}]
    @@ <<"z", "v", "-", "b">> :> [k |-> "bad"]
Acyclic(n) == CASE n = A -> {Sub, Old, Plain} [] n \in {Sub, Old} -> {Plain} [] n = Plain -> {}
AnyOf(n) == Modules

Circles == INSTANCE LuaRequire WITH
    Names <- Modules, Files <- FilesOf, Environment <- <<";", ";", "y", "?">>, Default <- <<"x", "?">>,
    CPath <- <<"d", ";", "c", "?">>, Extras <- {<<";", "z", "?">>}, Requires <- AnyOf, Tampers <- TRUE,
    MAXCCALLS <- 2, Preloads <- {Sub}, MaxRuns <- 2, MaxPath <- 7,
    path <- v1, preload <- v2, loaded <- v3, clibs <- v4, frames <- v5, runs <- v6, done <- v7, closed <- v8
InOrder == INSTANCE LuaRequire WITH
    Names <- Modules, Files <- FilesOf, Environment <- <<";", ";", "y", "?">>, Default <- <<"x", "?">>,
    CPath <- <<"d", ";", "c", "?">>, Extras <- {<<";", "z", "?">>, <<";", ";">>}, Requires <- Acyclic, Tampers <- FALSE,
    MAXCCALLS <- 4, Preloads <- {Sub}, MaxRuns <- 3, MaxPath <- 9,
    path <- v1, preload <- v2, loaded <- v3, clibs <- v4, frames <- v5, runs <- v6, done <- v7, closed <- v8

-----------------------------------------------------------------------------
(* Texts of lines, and texts of a numeral with what may follow it.          *)
LinesOrNumerals ==
    LET short == SeqOf({"-", "0", "x", ".", "e", " "}, 4)
    IN  SeqOf({"0", "\n"}, 5) \cup short \cup {<<"0">> \o s : s \in {t \in short : Len(t) = 4}}
Read == INSTANCE LuaFileRead WITH
    Texts <- LinesOrNumerals, Digit <- {"0"}, HexDigit <- {"0", "e"},
    Formats <- {[kind |-> k, n |-> 0] : k \in {"n", "l", "L", "a"}} \cup {[kind |-> "count", n |-> n] : n \in 0..2},
    LUAL_BUFFERSIZE <- 2, L_MAXLENNUM <- 4, text <- v1, pos <- v2

ASSUME Read!ReadAssumption

(* Files, pipes and temporary files.                                        *)
Handles == INSTANCE LuaFile WITH
    Contents <- "f" :> <<>>, Kinds <- {"file", "pipe"}, LineFormats <- {<<>>},
    LUAL_BUFFERSIZE <- 2, L_MAXLENNUM <- 4, MaxHandles <- 2, MaxIterators <- 0,
    handles <- v1, streams <- v2, registry <- v3, held <- v4, known <- v5, iterators <- v6, phase <- v7
Lines == INSTANCE LuaFile WITH
    Contents <- "f" :> <<"0", "0", "\n", "\n", "a">>, Kinds <- {"file", "tmp"},
    LineFormats <- {<<>>, <<[kind |-> "n", n |-> 0], [kind |-> "l", n |-> 0]>>},
    LUAL_BUFFERSIZE <- 2, L_MAXLENNUM <- 4, MaxHandles <- 1, MaxIterators <- 1,
    handles <- v1, streams <- v2, registry <- v3, held <- v4, known <- v5, iterators <- v6, phase <- v7

-----------------------------------------------------------------------------
(* Strings of 1, 2 and 4 characters in buffers of one.                      *)
Letter == {"a", "b", "c", "d", "e", "f", "g"}
AddedStrings == {<<"a">>, <<"b", "c">>, <<"d", "e", "f", "g">>}

ASSUME BufferAssumption

-----------------------------------------------------------------------------
MCvars == <<part, vars, bufferVars, v1, v2, v3, v4, v5, v6, v7, v8>>

\* The variables that a part leaves out.
From9 == <<part, vars, bufferVars>>
From8 == <<v8, From9>>
From7 == <<v7, From8>>
From6 == <<v6, From7>>
From4 == <<v4, v5, From6>>
From3 == <<v3, From4>>
Unused(x) == x = "unused"
Unused8 == Unused(v8)
Unused7 == Unused(v7) /\ Unused8
Unused6 == Unused(v6) /\ Unused7
Unused4 == Unused(v4) /\ Unused(v5) /\ Unused6
Unused3 == Unused(v3) /\ Unused4

\* Where nothing is sorted the array is empty.
MCInit ==
    /\ part \in Parts
    /\ Init /\ BufferInit
    /\ input = <<>> <=> part # "sort"
    /\ \/ part \in {"sort", "buffer"} /\ Unused(v1) /\ Unused(v2) /\ Unused3
       \/ part = "captures" /\ Captures!Init /\ Unused4
       \/ part = "balance" /\ Balance!Init /\ Unused4
       \/ part = "pack" /\ Pack!Init /\ Unused4
       \/ part = "unpack" /\ Unpack!Init /\ Unused4
       \/ part = "utf8" /\ Utf8!Init /\ Unused4
       \/ part = "lex" /\ Lex!Init
       \/ part = "chunk" /\ Chunk!Init /\ Unused7
       \/ part = "circles" /\ Circles!Init
       \/ part = "inorder" /\ InOrder!Init
       \/ part = "read" /\ Read!Init /\ Unused3
       \/ part = "handles" /\ Handles!Init /\ Unused8
       \/ part = "lines" /\ Lines!Init /\ Unused8

MCNext ==
    \/ part = "sort" /\ Next /\ UNCHANGED <<part, bufferVars, v1, v2, v3, v4, v5, v6, v7, v8>>
    \/ part = "buffer" /\ BufferNext /\ UNCHANGED <<part, vars, v1, v2, v3, v4, v5, v6, v7, v8>>
    \/ part = "captures" /\ Captures!Next /\ UNCHANGED From4
    \/ part = "balance" /\ Balance!Next /\ UNCHANGED From4
    \/ part = "pack" /\ Pack!Next /\ UNCHANGED From4
    \/ part = "unpack" /\ Unpack!Next /\ UNCHANGED From4
    \/ part = "utf8" /\ Utf8!Next /\ UNCHANGED From4
    \/ part = "lex" /\ Lex!Next /\ UNCHANGED From9
    \/ part = "chunk" /\ Chunk!Next /\ UNCHANGED From7
    \/ part = "circles" /\ Circles!Next /\ UNCHANGED From9
    \/ part = "inorder" /\ InOrder!Next /\ UNCHANGED From9
    \/ part = "read" /\ Read!Next /\ UNCHANGED From3
    \/ part = "handles" /\ Handles!Next /\ UNCHANGED From8
    \/ part = "lines" /\ Lines!Next /\ UNCHANGED From8

MCSpec == MCInit /\ [][MCNext]_MCvars

-----------------------------------------------------------------------------
(* table.sort and buffers have their properties in LuaSort and LuaBuffer:    *)
(* SortsSafely and BuffersKept.                                            *)

(* A match is the one that the order of repetitions puts first, captures    *)
(* that were undone are not seen, find, gmatch and gsub agree on matches,   *)
(* a plain search finds what the pattern finds, malformed patterns fail.    *)
PatternsMean ==
    /\ part = "captures" =>
        Captures!FindsBest /\ Captures!CapturesUndone /\ Captures!SameMatches /\ Captures!MalformedIsRefused
    /\ part = "balance" => Balance!FindsBest /\ Balance!PlainIsSame

(* What was packed, dumped or quoted, and only that, is read back, in        *)
(* whatever pieces it comes; string.packsize is its size; no bit of a number *)
(* is dropped without an error.  Lines are counted, a look-ahead changes no  *)
(* token and no line; every code has one encoding in UTF-8, and the          *)
(* functions of utf8 agree on where characters begin.                       *)
ReadBack ==
    /\ part = "pack" => Pack!RoundTrip /\ Pack!SizeIsSize
    /\ part = "unpack" => Unpack!NothingDropped
    /\ part = "chunk" => Chunk!LoadsWhatWasDumped /\ Chunk!OnlyWholeLoads
    /\ part = "lex" => Lex!StringsReadBack /\ Lex!LinesCounted /\ Lex!LookaheadHides /\ Lex!LinesOfCode
    /\ part = "utf8" => Utf8!TypeInv /\ Utf8!OneEncoding /\ Utf8!LoopsAgree /\ Utf8!OffsetsFind

(* A module that is in no circle is loaded once, from the first readable     *)
(* file of the path; a library is opened once, is open while its loader      *)
(* runs, and is closed with the state.                                     *)
ModulesOnce ==
    /\ part = "circles" => Circles!LibrariesOnce
    /\ part = "inorder" => InOrder!LoadedOnce /\ InOrder!LibrariesOnce /\ InOrder!FirstReadable

(* Streams are closed once, by the right function, and never used later, by *)
(* scripts, iterators or the collector; reads consume what the formats       *)
(* name.                                                                   *)
FilesKept ==
    /\ part = "handles" => Handles!StreamsOnce /\ Handles!HandlesTell
    /\ part = "lines" => Lines!StreamsOnce /\ Lines!LinesOnce
    /\ part = "read" => Read!NumberIsLongest /\ Read!ReadsAreText
=============================================================================

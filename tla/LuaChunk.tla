------------------------------ MODULE LuaChunk ------------------------------
(***************************************************************************)
(* Precompiled chunks (ldump.c, lundump.c) and the pieces in which readers *)
(* give them to lua_load (lzio.c).  A byte has few values and an integer   *)
(* two bytes, so that lengths reach the limits of both.  Text is left to   *)
(* LuaParser.                                                              *)
(***************************************************************************)
EXTENDS Integers, Sequences, SequencesExt, TLC

CONSTANTS
    Byte,       \* values of a byte; the last marks a long length, 0xFF in the code
    Protos,     \* functions that are dumped
    PieceSizes  \* bound: sizes of a reader's pieces

ChunkAssumption == Byte \in Nat /\ Byte >= 8

VARIABLES
    f, strip,  \* what is dumped
    written,   \* what the writer accepted
    whole,     \* the writer accepted it all, and readers give all of it
    loaded,    \* [ok, v, nups]
    step       \* "dump", "load", "end"

vars == <<f, strip, written, whole, loaded, step>>

NULL == <<-1>>  \* no string
Tags == <<"nil", "boolean", "float", "integer", "short", "long">>
Marker == Byte - 1

(***************************************************************************)
(* Dump: a sequence of blocks, each one call of the writer.                *)
(***************************************************************************)
Bytes(n) == <<n % Byte, n \div Byte>>
Each(s, Op(_)) == FlattenSeq([i \in DOMAIN s |-> Op(s[i])])
DumpBlock(b) == IF b = <<>> THEN <<>> ELSE <<b>>
DumpByte(y) == <<<<y>>>>
DumpInt(x) == <<Bytes(x)>>

DumpString(s) ==
    LET size == Len(s) + 1 IN
    IF s = NULL THEN DumpByte(0)
    ELSE (IF size < Marker THEN DumpByte(size) ELSE DumpByte(Marker) \o DumpInt(size)) \o DumpBlock(s)

DumpVector(s) == DumpInt(Len(s)) \o DumpBlock(Each(s, Bytes))
DumpMany(s, Op(_)) == DumpInt(Len(s)) \o Each(s, Op)

DumpConstant(o) ==
    DumpByte(o.t) \o
    CASE Tags[o.t] = "nil" -> <<>>
      [] Tags[o.t] = "boolean" -> DumpByte(o.v)
      [] Tags[o.t] \in {"float", "integer"} -> DumpInt(o.v)
      [] Tags[o.t] \in {"short", "long"} -> DumpString(o.v)

DumpUpvalue(u) == DumpByte(u.instack) \o DumpByte(u.idx)
DumpLocVar(l) == DumpString(l.varname) \o DumpInt(l.startpc) \o DumpInt(l.endpc)
NameOf(u) == DumpString(u.name)
DumpDebug(p, s) ==
    IF s THEN DumpInt(0) \o DumpInt(0) \o DumpInt(0)
    ELSE DumpVector(p.lineinfo) \o DumpMany(p.locvars, DumpLocVar) \o DumpMany(p.upvalues, NameOf)

RECURSIVE DumpFunction(_, _, _)
DumpFunction(p, psource, s) ==
    DumpString(IF s \/ p.source = psource THEN NULL ELSE p.source)
    \o DumpInt(p.linedefined) \o DumpByte(p.numparams)
    \o DumpVector(p.code) \o DumpMany(p.k, DumpConstant) \o DumpMany(p.upvalues, DumpUpvalue)
    \o DumpMany(p.p, LAMBDA q : DumpFunction(q, p.source, s))
    \o DumpDebug(p, s)

\* Signature, version, format and data; sizes of int and the others; a number of each kind.
Literals == <<<<4, 5>>, <<6>>, <<0>>, <<1, 2>>>>
Sizes == <<<<2>>, <<2>>, <<1>>>>
Samples == <<Bytes(2 * Byte + 3), Bytes(Byte + 5)>>
DumpHeader == Literals \o Sizes \o Samples
LUA_SIGNATURE == Literals[1][1]

luaU_dump == DumpHeader \o DumpByte(Len(f.upvalues)) \o DumpFunction(f, NULL, strip)

(***************************************************************************)
(* Load.  A reader's state is the piece it is in and those to come; bytes  *)
(* that are missing are an error, which ends the load.                     *)
(***************************************************************************)
luaZ_init(pieces) == [buff |-> <<>>, rest |-> pieces, ok |-> TRUE]
Got(v, z) == [v |-> v, z |-> z]
Checked(z, holds) == [z EXCEPT !.ok = @ /\ holds]

Shorter(m, n) == IF m < n THEN m ELSE n
Joined(front, r) == Got(front \o r.v, r.z)
Without(z, m) == [z EXCEPT !.buff = SubSeq(@, m + 1, Len(@))]
Filled(z) == [z EXCEPT !.buff = Head(z.rest), !.rest = Tail(z.rest)]
EOZ(z) == z.rest = <<>> \/ Head(z.rest) = <<>>  \* luaZ_fill

\* Mutant: a read that ends in the middle of its block is taken for whole.
RECURSIVE luaZ_read_some(_, _)
luaZ_read_some(z, n) ==
    LET m == Shorter(n, Len(z.buff)) IN
    IF n = 0 THEN Got(<<>>, z)
    ELSE IF z.buff # <<>> THEN Joined(SubSeq(z.buff, 1, m), luaZ_read_some(Without(z, m), n - m))
    ELSE IF EOZ(z) THEN Got([i \in 1 .. n |-> 0], z)
    ELSE luaZ_read_some(Filled(z), n)

RECURSIVE luaZ_read(_, _)
luaZ_read(z, n) ==
    LET m == Shorter(n, Len(z.buff)) IN
    IF n = 0 THEN Got(<<>>, z)
    ELSE IF z.buff # <<>> THEN Joined(SubSeq(z.buff, 1, m), luaZ_read(Without(z, m), n - m))
    ELSE IF EOZ(z) THEN Got([i \in 1 .. n |-> 0], Checked(z, FALSE))
    ELSE luaZ_read(Filled(z), n)

ByteOf(r) == Got(r.v[1], r.z)
IntOf(r) == Got(r.v[1] + Byte * r.v[2], r.z)
LoadByte(z) == ByteOf(luaZ_read(z, 1))
LoadInt(z) == IntOf(luaZ_read(z, 2))

StringOf(size) == IF size.v = 0 THEN Got(NULL, size.z) ELSE luaZ_read(size.z, size.v - 1)
StringAfter(b) == StringOf(IF b.v = Marker THEN LoadInt(b.z) ELSE b)
LoadString(z) == StringAfter(LoadByte(z))

\* The variant of a string is that of its length, whatever the tag says.
MaxShort == 3
TagOf(y) == IF y \in DOMAIN Tags THEN Tags[y] ELSE "nil"
Constant(t, v) == Got([t |-> t, v |-> v.v], v.z)
StringConstant(v) == Constant(IF Len(v.v) <= MaxShort THEN 5 ELSE 6, v)
ConstantAfter(t) ==
    CASE TagOf(t.v) = "nil" -> Constant(t.v, Got(0, t.z))
      [] TagOf(t.v) = "boolean" -> Constant(t.v, LoadByte(t.z))
      [] TagOf(t.v) \in {"float", "integer"} -> Constant(t.v, LoadInt(t.z))
      [] TagOf(t.v) \in {"short", "long"} -> StringConstant(LoadString(t.z))
LoadConstant(z) == ConstantAfter(LoadByte(z))

\* A record gets one field more.
Put(r, name, x) == Got((name :> x.v) @@ r.v, x.z)
PutInt(r, name) == Put(r, name, LoadInt(r.z))
PutByte(r, name) == Put(r, name, LoadByte(r.z))

LoadUpvalue(z) == PutByte(PutByte(Got("name" :> NULL, z), "instack"), "idx")
LoadLocVar(z) == PutInt(PutInt(Put(Got(<<>>, z), "varname", LoadString(z)), "startpc"), "endpc")

RECURSIVE LoadTimes(_, _, _, _), LoadFunction(_, _)
LoadElement(kind, z, source) ==
    CASE kind = "int" -> LoadInt(z)
      [] kind = "string" -> LoadString(z)
      [] kind = "constant" -> LoadConstant(z)
      [] kind = "upvalue" -> LoadUpvalue(z)
      [] kind = "local" -> LoadLocVar(z)
      [] kind = "function" -> LoadFunction(z, source)

\* n elements of a kind, one after the other.
AndMore(kind, r, e, n, source) == LoadTimes(kind, Got(Append(r.v, e.v), e.z), n - 1, source)
LoadTimes(kind, r, n, source) ==
    IF n = 0 THEN r ELSE AndMore(kind, r, LoadElement(kind, r.z, source), n, source)
Many(kind, n, source) == LoadTimes(kind, Got(<<>>, n.z), n.v, source)
LoadMany(kind, z, source) == Many(kind, LoadInt(z), source)
PutMany(r, name, kind) == Put(r, name, LoadMany(kind, r.z, r.v.source))

\* The names of upvalues come last, after they were made without.
Named(r, names) ==
    Got([r.v EXCEPT !.upvalues =
            [i \in DOMAIN @ |-> IF i \in DOMAIN names.v THEN [@[i] EXCEPT !.name = names.v[i]] ELSE @[i]]],
        names.z)
LoadNames(r) == Named(r, LoadMany("string", r.z, r.v.source))
LoadDebug(r) == LoadNames(PutMany(PutMany(r, "lineinfo", "int"), "locvars", "local"))

FunctionOf(source, z) ==
    LoadDebug(PutMany(PutMany(PutMany(PutMany(
        PutByte(PutInt(Got("source" :> source, z), "linedefined"), "numparams"),
        "code", "int"), "k", "constant"), "upvalues", "upvalue"), "p", "function"))
FunctionAfter(given, psource) == FunctionOf(IF given.v = NULL THEN psource ELSE given.v, given.z)
LoadFunction(z, psource) == FunctionAfter(LoadString(z), psource)

LiteralRead(r, s) == Checked(r.z, r.v = s)
checkliteral(z, s) == LiteralRead(luaZ_read(z, Len(s)), s)

\* The first character of the signature was read before.
checkHeader(z) ==
    FoldLeft(checkliteral, z, <<Tail(Literals[1])>> \o Tail(Literals) \o Sizes \o Samples)

Main(p, nups) == [ok |-> p.z.ok, v |-> p.v, nups |-> nups]
MainAfter(nups) == Main(LoadFunction(nups.z, NULL), nups.v)
luaU_undump(z) == MainAfter(LoadByte(checkHeader(z)))

\* f_parser, for what does not start as text
Unloaded == [ok |-> FALSE, v |-> NULL, nups |-> 0]
ChunkAfter(c) == IF c.z.ok /\ c.v = LUA_SIGNATURE THEN luaU_undump(c.z) ELSE Unloaded
lua_load(pieces) == ChunkAfter(LoadByte(luaZ_init(pieces)))

-----------------------------------------------------------------------------
Pieces(s, size) ==
    [i \in 1 .. (Len(s) + size - 1) \div size |->
        SubSeq(s, (i - 1) * size + 1, IF i * size < Len(s) THEN i * size ELSE Len(s))]

Init ==
    /\ f \in Protos /\ strip \in BOOLEAN
    /\ written = <<>> /\ whole = FALSE /\ loaded = Unloaded /\ step = "dump"

\* The writer refuses block n, or none: what follows is not offered to it.
lua_dump(n) ==
    /\ step = "dump" /\ step' = "load"
    /\ n \in 1 .. Len(luaU_dump) + 1
    /\ written' = FlattenSeq(SubSeq(luaU_dump, 1, n - 1)) /\ whole' = (n > Len(luaU_dump))
    /\ UNCHANGED <<f, strip, loaded>>

Loads(size) ==
    /\ step = "load" /\ step' = "end"
    /\ loaded' = lua_load(Pieces(written, size))
    /\ UNCHANGED <<f, strip, written, whole>>

\* The reader ends early, with nothing or with an empty piece.
LoadsPart(size, n) ==
    /\ step = "load" /\ step' = "end"
    /\ whole /\ n < Len(written) /\ whole' = FALSE
    /\ loaded' = lua_load(Pieces(SubSeq(written, 1, n), size) \o <<<<>>>> \o Pieces(SubSeq(written, n + 1, Len(written)), size))
    /\ UNCHANGED <<f, strip, written>>

\* A chunk of another Lua: a byte of its header differs.
LoadsAlien(i, b) ==
    /\ step = "load" /\ step' = "end"
    /\ whole /\ written[i] # b /\ whole' = FALSE
    /\ written' = [written EXCEPT ![i] = b] /\ loaded' = lua_load(<<written'>>)
    /\ UNCHANGED <<f, strip>>

Next ==
    \/ step = "dump" /\ \E n \in 1 .. Len(luaU_dump) + 1 : lua_dump(n)
    \/ \E size \in PieceSizes :
         \/ Loads(size)
         \/ whole /\ step = "load" /\ \E n \in 0 .. Len(written) : LoadsPart(size, n)
    \/ whole /\ step = "load"
         /\ \E i \in 1 .. Len(FlattenSeq(DumpHeader)), b \in 0 .. Byte - 1 : LoadsAlien(i, b)

Spec == Init /\ [][Next]_vars

(***************************************************************************)
(* A function that was dumped and loaded, in whatever pieces, is the same  *)
(* function, with all functions inside it; with strip it is the same but   *)
(* for sources, lines and names.                                           *)
(***************************************************************************)
RECURSIVE Stripped(_)
Stripped(p) ==
    [p EXCEPT !.source = NULL, !.lineinfo = <<>>, !.locvars = <<>>,
              !.upvalues = [i \in DOMAIN @ |-> [@[i] EXCEPT !.name = NULL]],
              !.p = [i \in DOMAIN @ |-> Stripped(@[i])]]
LoadsWhatWasDumped ==
    whole /\ step = "end" =>
        loaded.ok /\ loaded.v = (IF strip THEN Stripped(f) ELSE f) /\ loaded.nups = Len(loaded.v.upvalues)

(***************************************************************************)
(* A chunk that a failing writer left, that a reader ends early, or that   *)
(* has another header is refused: no part of it is taken for a function.   *)
(***************************************************************************)
OnlyWholeLoads == ~whole => ~loaded.ok
=============================================================================

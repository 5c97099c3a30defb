------------------------------- MODULE LuaPack ------------------------------
(***************************************************************************)
(* string.pack, string.packsize and string.unpack (lstrlib.c:1108-1539),   *)
(* with bytes of few bits.  A format is a sequence of options <<kind, n>>, *)
(* as getoption reads them; an option "X" comes with the size of the       *)
(* option that it consumes.  Floats are left out.                          *)
(***************************************************************************)
EXTENDS Integers, Sequences, SequencesExt

CONSTANTS
    Byte,       \* the number of values of a byte
    SZINT,      \* bytes of a lua_Integer, and of a size_t
    Native,     \* nativeendian.little
    Formats,
    Ints, Strings, \* bound: the values that are packed
    Datas       \* bound: the strings that are unpacked

VARIABLES
    fmt, vals,  \* a format, and a value for each option: the bytes of a
                \* string, <<n>> for an integer, <<>> where there is none
    data        \* a string to unpack

vars == <<fmt, vals, data>>

Units == Byte ^ SZINT
MAX_SIZE == Units \div 2 \* bound: more than the length of any string here
Unsigned(n) == n % Units
Signed(u) == IF u >= Units \div 2 THEN u - Units ELSE u
PowersOf2 == {2 ^ k : k \in 0..6}
PAD == 0 \* LUAL_PACKPADBYTE
TakesValue(opt) == opt[1] \in {"int", "uint", "char", "string", "zstr"}

\* Lay out bytes, least significant first, in an endianness.
Ordered(bytes, little) == IF little THEN bytes ELSE Reverse(bytes)

-----------------------------------------------------------------------------
\* The size of an option itself, the one it aligns to, and its alignment at
\* an offset: -1 if that is no power of two.
OptSize(opt) ==
    CASE opt[1] \in {"int", "uint", "char", "string"} -> opt[2]
      [] opt[1] = "pad" -> 1
      [] OTHER -> 0
AlignSize(opt) == IF opt[1] = "X" THEN opt[2] ELSE OptSize(opt)

ToAlign(h, total, opt) ==
    LET align == IF AlignSize(opt) > h.maxalign THEN h.maxalign ELSE AlignSize(opt)
    IN  IF AlignSize(opt) <= 1 \/ opt[1] = "char" THEN 0
        ELSE IF align \notin PowersOf2 THEN -1
        ELSE (align - (total % align)) % align

\* The header after an option that configures.
Configured(h, opt) ==
    CASE opt[1] = "<" -> [h EXCEPT !.little = TRUE]
      [] opt[1] = ">" -> [h EXCEPT !.little = FALSE]
      [] opt[1] = "=" -> [h EXCEPT !.little = Native]
      [] opt[1] = "!" -> [h EXCEPT !.maxalign = opt[2]]
      [] OTHER -> h
initheader == [little |-> Native, maxalign |-> 1]

-----------------------------------------------------------------------------

packint(u, little, size, neg) ==
    Ordered([i \in 1..size |-> IF neg /\ i > SZINT THEN Byte - 1
                               ELSE (u \div Byte ^ (i - 1)) % Byte], little)

\* Mutant: the bytes that are not read are not looked at.
unpackint_unread(bytes, little, size, issigned) ==
    LET b == Ordered(bytes, little)
        limit == IF size <= SZINT THEN size ELSE SZINT
        res == FoldLeft(LAMBDA r, i : Byte * r + b[limit - i], 0, [i \in 1..limit |-> i - 1])
        mask == Byte ^ size \div 2
    IN  IF size < SZINT /\ issigned /\ res >= mask THEN <<res - 2 * mask>> ELSE <<Signed(res)>>

\* The integer in these bytes, or <<>> for an error.
unpackint(bytes, little, size, issigned) ==
    LET b == Ordered(bytes, little)
        limit == IF size <= SZINT THEN size ELSE SZINT
        res == FoldLeft(LAMBDA r, i : Byte * r + b[limit - i], 0, [i \in 1..limit |-> i - 1])
        mask == Byte ^ size \div 2
        unread == IF ~issigned \/ Signed(res) >= 0 THEN 0 ELSE Byte - 1
    IN  IF size < SZINT
        THEN <<IF issigned /\ res >= mask THEN res - 2 * mask ELSE res>>
        ELSE IF \E i \in limit + 1..size : b[i] # unread THEN <<>>
        ELSE <<Signed(res)>>

-----------------------------------------------------------------------------
\* Whether a value may be packed with an option.
Fits(opt, v) ==
    LET range == Byte ^ opt[2]
    IN  CASE opt[1] = "int" -> opt[2] < SZINT => (-(range \div 2) <= v[1] /\ v[1] < range \div 2)
          [] opt[1] = "uint" -> opt[2] < SZINT => Unsigned(v[1]) < range
          [] opt[1] = "char" -> Len(v) <= opt[2]
          [] opt[1] = "string" -> opt[2] >= SZINT \/ Len(v) < range
          [] opt[1] = "zstr" -> 0 \notin ToSet(v)
          [] OTHER -> TRUE

\* The bytes of a value; those of a string count.
Packed(h, opt, v) ==
    CASE opt[1] \in {"int", "uint"} ->
           packint(Unsigned(v[1]), h.little, opt[2], opt[1] = "int" /\ v[1] < 0)
      [] opt[1] = "char" -> v \o [i \in 1..opt[2] - Len(v) |-> PAD]
      [] opt[1] = "string" -> packint(Len(v), h.little, opt[2], FALSE) \o v
      [] opt[1] = "zstr" -> Append(v, 0)
      [] opt[1] = "pad" -> <<PAD>>
      [] OTHER -> <<>>

\* str_pack: [ok, out, h]; the total size is the length of what is out.
str_pack(f, vs) ==
    FoldLeft(LAMBDA s, i :
        LET n == ToAlign(s.h, Len(s.out), f[i])
        IN  IF ~s.ok \/ n = -1 \/ ~Fits(f[i], vs[i]) THEN [s EXCEPT !.ok = FALSE]
            ELSE [s EXCEPT !.h = Configured(@, f[i]),
                           !.out = @ \o [k \in 1..n |-> PAD] \o Packed(s.h, f[i], vs[i])],
        [ok |-> TRUE, out |-> <<>>, h |-> initheader], [i \in 1..Len(f) |-> i])

AddSize(s, opt) ==
    LET n == ToAlign(s.h, s.total, opt)
    IN  IF s.total = -1 \/ n = -1 \/ opt[1] \in {"string", "zstr"} THEN [s EXCEPT !.total = -1]
        ELSE [h |-> Configured(s.h, opt), total |-> s.total + n + OptSize(opt)]

\* str_packsize: -1 where it raises an error.
str_packsize(f) ==
    FoldLeft(AddSize, [h |-> initheader, total |-> 0], f).total

\* strlen of what is at a position: up to a zero, or the one behind the end.
strlen(d, pos) ==
    LET zeros == {i \in pos..Len(d) - 1 : d[i + 1] = 0}
    IN  IF zeros = {} THEN Len(d) - pos
        ELSE (CHOOSE i \in zeros : \A j \in zeros : i <= j) - pos

\* What an option reads at pos: <<value, bytes it takes>>, or <<>>.
Unpacked(h, d, pos, opt) ==
    LET bytes(n) == SubSeq(d, pos + 1, pos + n)
    IN  CASE opt[1] \in {"int", "uint"} ->
               LET r == unpackint(bytes(opt[2]), h.little, opt[2], opt[1] = "int")
               IN  IF r = <<>> THEN <<>> ELSE <<r, opt[2]>>
          [] opt[1] = "char" -> <<bytes(opt[2]), opt[2]>>
          [] opt[1] = "string" ->
               LET r == unpackint(bytes(opt[2]), h.little, opt[2], FALSE)
               IN  IF r = <<>> THEN <<>>
                   ELSE LET len == Unsigned(r[1])
                        IN  \* the sum wraps; luaS_newlstr refuses a string as long as that
                            IF (pos + len + opt[2]) % Units > Len(d) \/ len >= MAX_SIZE THEN <<>>
                            ELSE <<SubSeq(d, pos + opt[2] + 1, pos + opt[2] + len), opt[2] + len>>
          [] opt[1] = "zstr" ->
               <<SubSeq(d, pos + 1, pos + strlen(d, pos)), strlen(d, pos) + 1>>
          [] OTHER -> <<<<>>, OptSize(opt)>>

UnpackOption(s, d, opt) ==
    LET n == ToAlign(s.h, s.pos, opt)
    IN  IF ~s.ok \/ n = -1 \/ s.pos + n + OptSize(opt) > Len(d) THEN [s EXCEPT !.ok = FALSE]
        ELSE LET r == Unpacked(s.h, d, s.pos + n, opt)
             IN  IF r = <<>> THEN [s EXCEPT !.ok = FALSE]
                 ELSE [s EXCEPT !.h = Configured(@, opt), !.pos = @ + n + r[2],
                                !.vals = IF TakesValue(opt) THEN Append(@, r[1]) ELSE @]

str_unpack(f, d) ==
    FoldLeft(LAMBDA s, i : UnpackOption(s, d, f[i]),
             [ok |-> TRUE, pos |-> 0, vals |-> <<>>, h |-> initheader], [i \in 1..Len(f) |-> i])

-----------------------------------------------------------------------------
ValuesFor(opt) ==
    CASE opt[1] \in {"int", "uint"} -> {<<n>> : n \in Ints}
      [] opt[1] \in {"char", "string", "zstr"} -> Strings
      [] OTHER -> {<<>>}

Init == fmt = <<>> /\ vals = <<>> /\ data = <<>>
Pack ==
    /\ fmt = <<>> /\ fmt' \in Formats
    /\ vals' \in {v \in [1..Len(fmt') -> {<<n>> : n \in Ints} \cup Strings \cup {<<>>}] :
                    \A i \in 1..Len(fmt') : v[i] \in ValuesFor(fmt'[i])}
    /\ UNCHANGED data
Unpack == fmt = <<>> /\ fmt' \in Formats /\ data' \in Datas /\ UNCHANGED vals
Return == fmt # <<>> /\ fmt' = <<>> /\ vals' = <<>> /\ data' = <<>>
Next == Pack \/ Unpack \/ Return
Spec == Init /\ [][Next]_vars

Taken == {i \in 1..Len(fmt) : TakesValue(fmt[i])}
\* The values that are read back: a fixed-length string with its padding.
Expected(i) ==
    IF fmt[i][1] = "char" THEN Packed(initheader, fmt[i], vals[i]) ELSE vals[i]

-----------------------------------------------------------------------------
(* What was packed is unpacked, value by value, up to the last byte: in any *)
(* endianness, with any alignment and with integers shorter or longer than *)
(* those of Lua.                                                           *)
IsRead(r, out, taken) ==
    r.ok /\ r.pos = Len(out) /\ r.vals = [k \in 1..Len(taken) |-> Expected(taken[k])]
RoundTrip ==
    LET Back(p) == p.ok => IsRead(str_unpack(fmt, p.out), p.out, SetToSortSeq(Taken, <))
    IN  vals # <<>> => Back(str_pack(fmt, vals))

(* packsize tells how long the result of pack is.                          *)
SizeIsSize ==
    LET Size(p, n) == (n # -1 /\ p.ok) => Len(p.out) = n
    IN  vals # <<>> => Size(str_pack(fmt, vals), str_packsize(fmt))

(* No two values are packed alike: integers that were unpacked are packed   *)
(* into the same bytes again.  What the bytes behind a lua_Integer say is  *)
(* not dropped.                                                            *)
NothingDropped ==
    LET Values(r, taken) ==
            [i \in 1..Len(fmt) |->
               IF TakesValue(fmt[i]) THEN r.vals[CHOOSE k \in 1..Len(taken) : taken[k] = i] ELSE <<>>]
        Again(r, p) == p.ok /\ p.out = SubSeq(data, 1, r.pos)
        Packs(r) == r.ok => Again(r, str_pack(fmt, Values(r, SetToSortSeq(Taken, <))))
    IN  (fmt # <<>> /\ vals = <<>> /\ \A i \in 1..Len(fmt) : fmt[i][1] \in {"int", "uint", "<", ">", "string"})
            => Packs(str_unpack(fmt, data))
=============================================================================

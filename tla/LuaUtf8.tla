-------------------------------- MODULE LuaUtf8 ------------------------------
(***************************************************************************)
(* The UTF-8 of lutf8lib.c and of luaO_utf8esc.  A string is a sequence of *)
(* bytes; a C pointer s + p is the position p, from 0, and the byte behind *)
(* the last is the terminating zero.                                       *)
(***************************************************************************)
EXTENDS Integers, Sequences, SequencesExt

CONSTANTS
    Byte,         \* the bytes that strings are made of
    MaxLen,       \* the length of the longest string
    Codes,        \* code points that are encoded
    ERR

VARIABLES
    s,            \* the string that utf8.codes goes through
    seen,         \* <<position, code>> of each step so far
    status        \* "looping", "done" or "error"

vars == <<s, seen, status>>

MAXUNICODE == 1114111
At(x, p) == IF p < Len(x) THEN x[p + 1] ELSE 0
iscont(x, p) == At(x, p) \div 64 = 2

-----------------------------------------------------------------------------
\* What a first byte without the bits that its continuations take can hold.
RECURSIVE Bytes(_, _)
Bytes(x, mfb) ==
    IF x <= mfb THEN <<254 - 2 * mfb + x>>
    ELSE Append(Bytes(x \div 64, mfb \div 2), 128 + (x % 64))

luaO_utf8esc(x) == IF x < 128 THEN <<x>>
                   ELSE Append(Bytes(x \div 64, 31), 128 + (x % 64))

utfchar(codes) == FlattenSeq([k \in 1..Len(codes) |-> luaO_utf8esc(codes[k])])

\* How many of the bits of c below the first are set before one that is not.
Ones(c) == IF c < 192 THEN 0 ELSE IF c < 224 THEN 1 ELSE IF c < 240 THEN 2
           ELSE IF c < 248 THEN 3 ELSE 4 \* or more

\* The code at p and the position behind it.
utf8_decode(x, p) ==
    LET c == At(x, p)
        count == Ones(c)
        first == (c % (2 ^ (6 - count)))
        res == FoldLeft(LAMBDA r, k : r * 64 + (At(x, p + k) % 64), first, [k \in 1..count |-> k])
        limits == <<255, 127, 2047, 65535>>
    IN  IF c < 128 THEN [code |-> c, next |-> p + 1]
        ELSE IF count > 3 \/ \E k \in 1..count : ~iscont(x, p + k) THEN ERR
        ELSE IF res > MAXUNICODE \/ res <= limits[count + 1] THEN ERR
        ELSE [code |-> res, next |-> p + count + 1]

\* The codes of the characters that start in p..last - 1, or ERR.
RECURSIVE Decoded(_, _, _)
Decoded(x, p, last) ==
    LET d == utf8_decode(x, p)
        rest == Decoded(x, d.next, last)
    IN  IF p >= last THEN <<>>
        ELSE IF d = ERR THEN ERR
        ELSE IF rest = ERR THEN ERR ELSE <<d.code>> \o rest

u_posrelat(pos, len) == IF pos >= 0 THEN pos ELSE IF -pos > len THEN 0 ELSE len + pos + 1

codepoint(x, i, j) ==
    LET posi == u_posrelat(i, Len(x))
        pose == u_posrelat(j, Len(x))
    IN  IF posi < 1 \/ pose > Len(x) THEN ERR ELSE Decoded(x, posi - 1, pose)

\* utflen counts what Decoded lists; instead of ERR it gives a position.
RECURSIVE Count(_, _, _, _)
Count(x, p, last, n) ==
    LET d == utf8_decode(x, p)
    IN  IF p > last THEN [n |-> n]
        ELSE IF d = ERR THEN [bad |-> p + 1] ELSE Count(x, d.next, last, n + 1)

utflen(x, i, j) ==
    LET posi == u_posrelat(i, Len(x))
        posj == u_posrelat(j, Len(x))
    IN  IF ~(1 <= posi /\ posi - 1 <= Len(x)) \/ posj - 1 >= Len(x) THEN ERR
        ELSE Count(x, posi - 1, posj - 1, 0)

-----------------------------------------------------------------------------
RECURSIVE Back(_, _), Forth(_, _)
Back(x, p) == IF p > 0 /\ iscont(x, p) THEN Back(x, p - 1) ELSE p
Forth(x, p) == IF iscont(x, p) THEN Forth(x, p + 1) ELSE p

\* The position n characters before or after p, or ERR.
RECURSIVE Move(_, _, _)
Move(x, p, n) ==
    IF n = 0 THEN p + 1
    ELSE IF n < 0 THEN IF p > 0 THEN Move(x, Back(x, p - 1), n + 1) ELSE ERR
    ELSE IF p < Len(x) THEN Move(x, Forth(x, p + 1), n - 1) ELSE ERR

\* utf8.offset(x, n, i)
byteoffset(x, n, i) ==
    LET p == u_posrelat(i, Len(x)) - 1
    IN  IF ~(0 <= p /\ p <= Len(x)) THEN ERR
        ELSE IF n = 0 THEN Back(x, p) + 1
        ELSE IF iscont(x, p) THEN ERR
        ELSE Move(x, p, IF n > 0 THEN n - 1 ELSE n)

-----------------------------------------------------------------------------
Init == /\ s \in SeqOf(Byte, MaxLen)
        /\ seen = <<>>
        /\ status = "looping"

\* Mutant: nothing is said of continuation bytes behind a character.
iter_aux_lax ==
    LET n == IF seen = <<>> THEN 0 ELSE Forth(s, Last(seen)[1])
        d == utf8_decode(s, n)
    IN  /\ status = "looping"
        /\ IF n >= Len(s) THEN status' = "done" /\ seen' = seen
           ELSE IF d = ERR THEN status' = "error" /\ seen' = seen
           ELSE status' = status /\ seen' = Append(seen, <<n + 1, d.code>>)
        /\ UNCHANGED s

\* A step of "for p, c in utf8.codes(s)": the control variable is the last
\* position.
iter_aux ==
    LET n == IF seen = <<>> THEN 0 ELSE Forth(s, Last(seen)[1])
        d == utf8_decode(s, n)
    IN  /\ status = "looping"
        /\ IF n >= Len(s) THEN status' = "done" /\ seen' = seen
           ELSE IF d = ERR THEN status' = "error" /\ seen' = seen
           ELSE IF iscont(s, d.next) THEN status' = "error" /\ seen' = seen
           ELSE status' = status /\ seen' = Append(seen, <<n + 1, d.code>>)
        /\ UNCHANGED s

Next == iter_aux
Spec == Init /\ [][Next]_vars

-----------------------------------------------------------------------------
\* The loop gives positions of the string and codes that are in Unicode.
TypeInv ==
    /\ s \in SeqOf(Byte, MaxLen)
    /\ \A k \in 1..Len(seen) : seen[k][1] \in 1..Len(s) /\ seen[k][2] \in 0..MAXUNICODE
    /\ status \in {"looping", "done", "error"}

\* What the decoder accepts is the encoding of the code it gives, so that
\* no code has a second, longer encoding, and each code comes back.
OneEncoding ==
    /\ \A p \in 0..Len(s) - 1 :
          LET d == utf8_decode(s, p)
          IN  d # ERR => SubSeq(s, p + 1, d.next) = luaO_utf8esc(d.code)
    /\ \A c \in Codes :
          utf8_decode(luaO_utf8esc(c), 0) = [code |-> c, next |-> Len(luaO_utf8esc(c))]

\* The loop over utf8.codes, utf8.len and utf8.codepoint agree on which
\* strings are valid and on what is in them; a string that went through is
\* utf8.char of its codes.
LoopsAgree ==
    LET codes == [k \in 1..Len(seen) |-> seen[k][2]]
    IN  /\ status = "done" => /\ utflen(s, 1, -1) = [n |-> Len(seen)]
                              /\ Len(s) > 0 => codepoint(s, 1, -1) = codes
                              /\ utfchar(codes) = s
        /\ status = "error" => /\ "bad" \in DOMAIN utflen(s, 1, -1)
                               /\ codepoint(s, 1, -1) = ERR

\* In a valid string utf8.offset finds each character where the loop saw
\* it: from either end, and from any byte of it.
OffsetsFind ==
    status = "done" =>
    \A k \in 1..Len(seen) :
        /\ byteoffset(s, k, 1) = seen[k][1]
        /\ byteoffset(s, k - Len(seen) - 1, Len(s) + 1) = seen[k][1]
        /\ \A i \in seen[k][1]..(IF k = Len(seen) THEN Len(s) ELSE seen[k + 1][1] - 1) :
              byteoffset(s, 0, i) = seen[k][1]
=============================================================================

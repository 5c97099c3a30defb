---------------------------- MODULE LuaFileRead -----------------------------
(***************************************************************************)
(* What file:read does with the text of a file (liolib.c:376-608): the     *)
(* formats n, l, L, a, a number of characters and zero, one after another  *)
(* until one fails.  A position is the number of characters consumed.      *)
(***************************************************************************)
EXTENDS Naturals, Sequences

CONSTANTS
    Texts,           \* contents of files, sequences of characters
    Digit, HexDigit, \* the digits of the alphabet
    Formats,         \* what scripts give to read: Format("n"), "l", "L" and "a", and Count(n)
    LUAL_BUFFERSIZE,
    L_MAXLENNUM

ReadAssumption == LUAL_BUFFERSIZE \in Nat \ {0} /\ L_MAXLENNUM \in Nat \ {0}

VARIABLES text, pos

EOF == "EOF"
Failed == <<"nil">>
Format(kind) == [kind |-> kind, n |-> 0]
Count(n) == [kind |-> "count", n |-> n]
Shorter(m, n) == IF m < n THEN m ELSE n
getc(t, at) == IF at < Len(t) THEN t[at + 1] ELSE EOF
After(t, at) == IF at < Len(t) THEN at + 1 ELSE at
fread(t, at, n) == SubSeq(t, at + 1, Shorter(at + n, Len(t)))
Got(ok, v, at) == [ok |-> ok, v |-> v, pos |-> at]

(***************************************************************************)
(* Numbers.  A reader has the look-ahead character c, which is consumed.   *)
(***************************************************************************)
Reader(c, buff, at, over) == [c |-> c, buff |-> buff, pos |-> at, over |-> over]

nextc(t, rn) ==
    IF Len(rn.buff) >= L_MAXLENNUM THEN [rn EXCEPT !.over = TRUE]
    ELSE Reader(getc(t, rn.pos), Append(rn.buff, rn.c), After(t, rn.pos), rn.over)

\* A character of the set was consumed.
Advanced(rn, then) == Len(then.buff) > Len(rn.buff)
test2(t, rn, set) == IF rn.c \in set THEN nextc(t, rn) ELSE rn

RECURSIVE readdigits(_, _, _)
readdigits(t, rn, digits) ==
    LET Further(then) == IF Advanced(rn, then) THEN readdigits(t, then, digits) ELSE then
    IN  Further(test2(t, rn, digits))

\* What lua_stringtonumber accepts: signs, digits with a point, an exponent.
Unsigned(s) == IF s # <<>> /\ s[1] \in {"-", "+"} THEN Tail(s) ELSE s
AllIn(s, set) == s # <<>> /\ \A i \in DOMAIN s : s[i] \in set
Mantissa(s, digits) ==
    \/ AllIn(s, digits)
    \/ Len(s) > 1 /\ \E i \in DOMAIN s : s[i] = "." /\ \A k \in DOMAIN s \ {i} : s[k] \in digits
Scaled(s, digits, marks) ==
    \/ Mantissa(s, digits)
    \/ \E i \in DOMAIN s : /\ s[i] \in marks /\ Mantissa(SubSeq(s, 1, i - 1), digits)
                           /\ AllIn(Unsigned(SubSeq(s, i + 1, Len(s))), Digit)
Numeral(s) ==
    LET u == Unsigned(s)
        hex == Len(u) > 1 /\ u[1] = "0" /\ u[2] = "x"
    IN  IF hex THEN Scaled(SubSeq(u, 3, Len(u)), HexDigit, {"p"}) ELSE Scaled(u, Digit, {"e"})
lua_stringtonumber(s) == Numeral(s)

RECURSIVE PastSpaces(_, _)
PastSpaces(t, at) == IF getc(t, at) \in {" ", "\n"} THEN PastSpaces(t, at + 1) ELSE at

\* A reader and how many digits it had, after a run of digits, after a point
\* that may be followed by more, and after an exponent that a digit allows.
Counted(rn, count) == [rn |-> rn, count |-> count]
Run(t, rn, count, digits) ==
    LET After_(r) == Counted(r, count + Len(r.buff) - Len(rn.buff)) IN After_(readdigits(t, rn, digits))
Fraction(t, q, digits) ==
    LET Point(p) == IF Advanced(q.rn, p) THEN Run(t, p, q.count, digits) ELSE Counted(p, q.count)
    IN  Point(test2(t, q.rn, {"."}))
Exponent(t, q, marks) ==
    LET Mark(m) == IF Advanced(q.rn, m) THEN readdigits(t, test2(t, m, {"-", "+"}), Digit) ELSE m
    IN  Mark(IF q.count > 0 THEN test2(t, q.rn, marks) ELSE q.rn)
Rest(t, rn, count, digits, marks) ==
    Exponent(t, Fraction(t, Run(t, rn, count, digits), digits), marks)
Decimal(t, rn, count) == Rest(t, rn, count, Digit, {"e"})

read_number(t, at) ==
    LET Prefixed(zero, x) == IF Advanced(zero, x) THEN Rest(t, x, 0, HexDigit, {"p"}) ELSE Decimal(t, x, 1)
        Zero(signed, zero) ==
            IF Advanced(signed, zero) THEN Prefixed(zero, test2(t, zero, {"x"})) ELSE Decimal(t, zero, 0)
        Signed(rn) == Zero(rn, test2(t, rn, {"0"}))
        First(start) == Signed(test2(t, Reader(getc(t, start), <<>>, After(t, start), FALSE), {"-", "+"}))
        Result(last) == Got(~last.over /\ lua_stringtonumber(last.buff), last.buff,
                            IF last.c = EOF THEN last.pos ELSE last.pos - 1)  \* ungetc
    IN  Result(First(PastSpaces(t, at)))

(***************************************************************************)
(* Lines, characters and all the rest, in blocks of the auxiliary buffer.  *)
(***************************************************************************)
test_eof(t, at) == Got(getc(t, at) # EOF, <<>>, at)

\* What getc reads into a block: up to its size, or up to a newline or the end.
Block(t, at) ==
    LET most == fread(t, at, LUAL_BUFFERSIZE)
        ends == {i \in DOMAIN most : most[i] = "\n"}
    IN  IF ends = {} THEN most ELSE SubSeq(most, 1, (CHOOSE i \in ends : \A k \in ends : i <= k) - 1)

RECURSIVE LineFrom(_, _, _)
LineFrom(t, at, line) ==
    LET b == Block(t, at)
        next == getc(t, at + Len(b))
    IN  IF Len(b) = LUAL_BUFFERSIZE THEN LineFrom(t, at + Len(b), line \o b)
        ELSE [line |-> line \o b, c |-> next, pos |-> After(t, at + Len(b))]

read_line(t, at, chop) ==
    LET r == LineFrom(t, at, <<>>)
        line == IF ~chop /\ r.c = "\n" THEN Append(r.line, "\n") ELSE r.line
    IN  Got(r.c = "\n" \/ line # <<>>, line, r.pos)

RECURSIVE read_all(_, _, _)
read_all(t, at, all) ==
    LET b == fread(t, at, LUAL_BUFFERSIZE)
    IN  IF Len(b) = LUAL_BUFFERSIZE THEN read_all(t, at + Len(b), all \o b)
        ELSE Got(TRUE, all \o b, at + Len(b))

read_chars(t, at, n) == LET b == fread(t, at, n) IN Got(b # <<>>, b, at + Len(b))

ReadOne(t, at, format) ==
    CASE format.kind = "n" -> read_number(t, at)
      [] format.kind = "l" -> read_line(t, at, TRUE)
      [] format.kind = "L" -> read_line(t, at, FALSE)
      [] format.kind = "a" -> read_all(t, at, <<>>)
      [] format.kind = "count" -> IF format.n = 0 THEN test_eof(t, at) ELSE read_chars(t, at, format.n)

\* The results in order; a failure gives nil and ends the call.
RECURSIVE ReadFormats(_, _, _, _)
ReadFormats(t, at, formats, results) ==
    LET Then(r) == IF ~r.ok THEN Got(FALSE, Append(results, Failed), r.pos)
                   ELSE ReadFormats(t, r.pos, Tail(formats), Append(results, r.v))
    IN  IF formats = <<>> THEN Got(TRUE, results, at) ELSE Then(ReadOne(t, at, formats[1]))

g_read(t, at, formats) == ReadFormats(t, at, IF formats = <<>> THEN <<Format("l")>> ELSE formats, <<>>)

-----------------------------------------------------------------------------
Init == text \in Texts /\ pos = 0
f_read(format) == pos' = g_read(text, pos, <<format>>).pos /\ UNCHANGED text
Next == \E f \in Formats : f_read(f)
Spec == Init /\ [][Next]_<<text, pos>>

(***************************************************************************)
(* From every position that reads can reach, 'n' consumes the longest      *)
(* prefix of a numeral that fits the buffer, behind the spaces, no more    *)
(* and no less, and succeeds with a numeral that does not go on: numbers   *)
(* that follow each other can be read one by one.                          *)
(***************************************************************************)
NumeralPrefix(s) == Numeral(s) \/ Numeral(Append(s, "0"))
NumberIsLongest ==
    LET Longest(long) == CHOOSE n \in long : \A k \in long : k <= n
        Is(r, start, longest, piece) ==
            /\ r.pos = start + Shorter(longest, L_MAXLENNUM)
            /\ r.ok <=> longest <= L_MAXLENNUM /\ Numeral(piece)
            /\ r.ok => r.v = piece
        IsTo(r, start, n) == Is(r, start, n, SubSeq(text, start + 1, start + n))
        From(start) ==
            IsTo(read_number(text, pos), start,
                 Longest({n \in 0 .. Len(text) - start : NumeralPrefix(SubSeq(text, start + 1, start + n))}))
    IN  From(PastSpaces(text, pos))

(***************************************************************************)
(* The lines of the file, cut at its newlines, are what 'l' and 'L' give:  *)
(* the line that the position is in, with its newline or without; nothing  *)
(* only at the end; and counted reads and 'a' give the text as it is,      *)
(* whatever the size of the buffer.                                        *)
(***************************************************************************)
ReadsAreText ==
    LET newlines == {i \in pos + 1 .. Len(text) : text[i] = "\n"}
        end == IF newlines = {} THEN Len(text) ELSE CHOOSE i \in newlines : \A k \in newlines : i <= k
        whole == SubSeq(text, pos + 1, end)
        line == IF newlines = {} THEN whole ELSE SubSeq(text, pos + 1, end - 1)
        all == SubSeq(text, pos + 1, Len(text))
        more == pos < Len(text)
        Is(r, expected) == r.ok = expected.ok /\ r.v = expected.v /\ r.pos = expected.pos
    IN  \A e \in {<<<<Format("L")>>, Got(more, <<IF more THEN whole ELSE Failed>>, end)>>,
                  <<<<>>, Got(more, <<IF more THEN line ELSE Failed>>, end)>>,
                  <<<<Format("a")>>, Got(TRUE, <<all>>, Len(text))>>,
                  <<<<Format("L"), Format("a")>>,
                    IF more THEN Got(TRUE, <<whole, SubSeq(text, end + 1, Len(text))>>, Len(text))
                            ELSE Got(FALSE, <<Failed>>, end)>>,
                  <<<<Count(0), Count(2), Format("a")>>,
                    IF more THEN Got(TRUE, <<<<>>, fread(text, pos, 2), SubSeq(text, pos + 3, Len(text))>>, Len(text))
                            ELSE Got(FALSE, <<Failed>>, end)>>} :
            Is(g_read(text, pos, e[1]), e[2])
=============================================================================

-------------------------------- MODULE LuaLex -------------------------------
(***************************************************************************)
(* The lexical analyser, llex.c, with the token of look-ahead that the     *)
(* parser takes in a table constructor; and addquoted of lstrlib.c, which  *)
(* writes strings for it.  Characters are their codes; a position is that  *)
(* of the current character, and a text ends in EOZ.                       *)
(***************************************************************************)
EXTENDS Integers, Sequences, SequencesExt, TLC

CONSTANTS
    Texts,        \* texts of all sorts
    Strings,      \* strings that are quoted or put in long brackets
    Levels,       \* how many '=' the long brackets have
    Reserved,     \* the reserved words
    ERR, NONE

VARIABLES
    text,         \* what is analysed
    spells,       \* the string that text is to spell, or NONE
    at,           \* position of ls->current
    linenumber, lastline,
    t, lookahead, \* tokens; Start before the first one, NONE if there is no look-ahead
    consumed      \* the tokens the parser is through with

vars == <<text, spells, at, linenumber, lastline, t, lookahead, consumed>>

EOZ == -1
NL == 10
CR == 13
DOT == 46
BACKSLASH == 92
QUOTE == 34
EQUAL == 61
BRA == 91
KET == 93
BRACE == 123
Break == {NL, CR}
Blank == {32, 9, 11, 12}
Digit == 48..57
XDigit == Digit \cup 65..70 \cup 97..102
Alpha == 65..90 \cup 97..122 \cup {95}
U8 == INSTANCE LuaUtf8 WITH Byte <- 0..255, MaxLen <- 0, Codes <- {}, s <- text, seen <- <<>>, status <- ""

Cur(x, i) == IF i <= Len(x) THEN x[i] ELSE EOZ
\* The first position from i that is not in the set of characters C.
EndOf(x, i, C) == CHOOSE j \in i..Len(x) + 1 : Cur(x, j) \notin C /\ \A k \in i..j - 1 : x[k] \in C
HexValue(c) == IF c \in Digit THEN c - 48 ELSE IF c >= 97 THEN c - 87 ELSE c - 55
Number(x, i, j, base) == FoldLeft(LAMBDA r, c : r * base + HexValue(c), 0, SubSeq(x, i, j))

-----------------------------------------------------------------------------
\* What is read: where it ends, the line there and what it contributes.
Read(i, line, buf) == [i |-> i, line |-> line, buf |-> buf]

\* The position behind a line break, which may be of two characters.
inclinenumber(x, i) ==
    IF Cur(x, i + 1) \in Break /\ x[i + 1] # x[i] THEN i + 2 ELSE i + 1

skip_sep(x, i) ==
    LET e == EndOf(x, i + 1, {EQUAL})
        count == e - i - 1
    IN  [i |-> e, sep |-> IF Cur(x, e) = x[i] THEN count ELSE -count - 1]

RECURSIVE LongBody(_, _, _, _, _)
\* k is what skip_sep finds at a ']' at i.
AtKet(x, i, line, buf, sep, k) ==
    IF k.sep = sep THEN Read(k.i + 1, line, buf)
    ELSE LongBody(x, k.i, line, buf \o SubSeq(x, i, k.i - 1), sep)
LongBody(x, i, line, buf, sep) ==
    CASE Cur(x, i) = EOZ -> ERR
      [] Cur(x, i) = KET -> AtKet(x, i, line, buf, sep, skip_sep(x, i))
      [] Cur(x, i) \in Break -> LongBody(x, inclinenumber(x, i), line + 1, Append(buf, NL), sep)
      [] OTHER -> LongBody(x, i + 1, line, Append(buf, x[i]), sep)

\* i is behind the second '['.
read_long_string(x, i, line, sep) ==
    IF Cur(x, i) \in Break THEN LongBody(x, inclinenumber(x, i), line + 1, <<>>, sep)
    ELSE LongBody(x, i, line, <<>>, sep)

-----------------------------------------------------------------------------
\* Escapes, from the character behind the backslash.
Simple == 97 :> 7 @@ 98 :> 8 @@ 102 :> 12 @@ 110 :> NL @@ 114 :> CR @@ 116 :> 9 @@ 118 :> 11
          @@ BACKSLASH :> BACKSLASH @@ QUOTE :> QUOTE @@ 39 :> 39

readhexaesc(x, i, line) ==
    IF Cur(x, i + 1) \in XDigit /\ Cur(x, i + 2) \in XDigit
    THEN Read(i + 3, line, <<Number(x, i + 1, i + 2, 16)>>) ELSE ERR

Utf8Code(i, line, code) ==
    IF code > U8!MAXUNICODE THEN ERR ELSE Read(i, line, U8!luaO_utf8esc(code))
utf8esc(x, i, line) ==
    LET e == EndOf(x, i + 2, XDigit)
    IN  IF Cur(x, i + 1) # BRACE \/ Cur(x, i + 2) \notin XDigit \/ Cur(x, e) # BRACE + 2 THEN ERR
        ELSE Utf8Code(e + 1, line, Number(x, i + 2, e - 1, 16))

\* Up to three digits.
DecCode(i, line, code) == IF code > 255 THEN ERR ELSE Read(i, line, <<code>>)
readdecesc(x, i, line) ==
    LET e == IF EndOf(x, i, Digit) > i + 3 THEN i + 3 ELSE EndOf(x, i, Digit)
    IN  DecCode(e, line, Number(x, i, e - 1, 10))

\* The spaces behind "\z".
RECURSIVE Zap(_, _, _)
Zap(x, i, line) ==
    IF Cur(x, i) \in Break THEN Zap(x, inclinenumber(x, i), line + 1)
    ELSE IF Cur(x, i) \in Blank THEN Zap(x, i + 1, line)
    ELSE Read(i, line, <<>>)

Escape(x, i, line) ==
    LET c == Cur(x, i)
    IN  CASE c \in DOMAIN Simple -> Read(i + 1, line, <<Simple[c]>>)
          [] c = 120 -> readhexaesc(x, i, line)
          [] c = 117 -> utf8esc(x, i, line)
          [] c \in Break -> Read(inclinenumber(x, i), line + 1, <<NL>>)
          [] c = EOZ -> Read(i, line, <<>>)
          [] c = 122 -> Zap(x, i + 1, line)
          [] c \in Digit -> readdecesc(x, i, line)
          [] OTHER -> ERR

RECURSIVE Body(_, _, _, _, _)
Escaped(x, buf, del, e) == IF e = ERR THEN ERR ELSE Body(x, e.i, e.line, buf \o e.buf, del)
Body(x, i, line, buf, del) ==
    CASE Cur(x, i) = del -> Read(i + 1, line, buf)
      [] Cur(x, i) \in Break \cup {EOZ} -> ERR
      [] Cur(x, i) = BACKSLASH -> Escaped(x, buf, del, Escape(x, i + 1, line))
      [] OTHER -> Body(x, i + 1, line, Append(buf, x[i]), del)

read_string(x, i, line) == Body(x, i + 1, line, <<>>, x[i])

-----------------------------------------------------------------------------
\* Numerals: whatever looks like one is taken, and converted as a whole.
RECURSIVE NumeralEnd(_, _, _)
NumeralEnd(x, i, expo) ==
    LET j == IF Cur(x, i) \notin expo THEN i ELSE IF Cur(x, i + 1) \in {43, 45} THEN i + 2 ELSE i + 1
    IN  IF Cur(x, j) \in XDigit \cup {DOT} THEN NumeralEnd(x, j + 1, expo) ELSE j

IsHex(n) == Len(n) > 1 /\ n[1] = 48 /\ n[2] \in {120, 88}
\* Digits with at most one dot; then maybe an exponent.
IsFloat(n, digits, expo) ==
    \E k \in 1..Len(n) :
        LET sign == IF Cur(n, k + 2) \in {43, 45} THEN k + 3 ELSE k + 2
        IN  /\ \A m \in 1..k : n[m] \in digits \cup {DOT}
            /\ \E m \in 1..k : n[m] \in digits
            /\ \A m, o \in 1..k : n[m] = DOT /\ n[o] = DOT => m = o
            /\ \/ k = Len(n)
               \/ n[k + 1] \in expo /\ sign <= Len(n) /\ \A m \in sign..Len(n) : n[m] \in Digit

luaO_str2num(n) ==
    LET b == IF IsHex(n) THEN SubSeq(n, 3, Len(n)) ELSE n
        digits == IF IsHex(n) THEN XDigit ELSE Digit
    IN  IF b # <<>> /\ \A k \in 1..Len(b) : b[k] \in digits THEN "int"
        ELSE IF IsFloat(b, digits, IF IsHex(n) THEN {112, 80} ELSE {101, 69}) THEN "flt"
        ELSE "error"

-----------------------------------------------------------------------------
\* A token: what it is, what it means, where the text behind it begins and
\* the line there.
Token(kind, val, next, line) == [kind |-> kind, val |-> val, next |-> next, line |-> line]
Start == Token("start", <<>>, 1, 1)
TheString(r) == IF r = ERR THEN Token("error", <<>>, 0, 0) ELSE Token("string", r.buf, r.i, r.line)
TheNumber(x, i, e, line) == Token(luaO_str2num(SubSeq(x, i, e - 1)), SubSeq(x, i, e - 1), e, line)

\* "==", "<=", "<<", ">=", ">>", "//", "~=" and "::"
Pairs == {<<61, 61>>, <<60, 61>>, <<60, 60>>, <<62, 61>>, <<62, 62>>, <<47, 47>>, <<126, 61>>, <<58, 58>>}

read_numeral(x, i, first, line) ==
    LET hex == x[i] = 48 /\ Cur(x, i + 1) \in {120, 88}
    IN  TheNumber(x, first, IF hex THEN NumeralEnd(x, i + 2, {112, 80})
                                   ELSE NumeralEnd(x, i + 1, {101, 69}), line)

Word(x, i, line) ==
    LET e == EndOf(x, i, Alpha \cup Digit)
        w == SubSeq(x, i, e - 1)
    IN  Token(IF w \in Reserved THEN "reserved" ELSE "name", w, e, line)

Dots(x, i, line) ==
    LET n == IF Cur(x, i + 1) # DOT THEN 1 ELSE IF Cur(x, i + 2) # DOT THEN 2 ELSE 3
    IN  IF n = 1 /\ Cur(x, i + 1) \in Digit THEN read_numeral(x, i + 1, i, line)
        ELSE Token("op", SubSeq(x, i, i + n - 1), i + n, line)

\* Where a comment that begins at i ends, or ERR; k is what skip_sep finds
\* behind the hyphens.
EndOfLine(x, i) ==
    CHOOSE j \in i..Len(x) + 1 : /\ Cur(x, j) \in Break \cup {EOZ}
                                 /\ \A m \in i..j - 1 : x[m] \notin Break
Comment(x, i, line, k) ==
    IF Cur(x, i + 2) = BRA /\ k.sep >= 0 THEN read_long_string(x, k.i + 1, line, k.sep)
    ELSE Read(EndOfLine(x, i), line, <<>>)

\* k is what skip_sep finds at a '[' that '[' or '=' follows.
LongString(x, line, k) == TheString(IF k.sep >= 0 THEN read_long_string(x, k.i + 1, line, k.sep) ELSE ERR)

RECURSIVE llex(_, _, _)
Behind(x, r) == IF r = ERR THEN TheString(ERR) ELSE llex(x, r.i, r.line)
llex(x, i, line) ==
    LET c == Cur(x, i)
    IN  CASE c \in Break -> llex(x, inclinenumber(x, i), line + 1)
          [] c \in Blank -> llex(x, i + 1, line)
          [] c = 45 /\ Cur(x, i + 1) = 45 -> Behind(x, Comment(x, i, line, skip_sep(x, i + 2)))
          [] c = BRA /\ Cur(x, i + 1) \in {BRA, EQUAL} -> LongString(x, line, skip_sep(x, i))
          [] <<c, Cur(x, i + 1)>> \in Pairs -> Token("op", SubSeq(x, i, i + 1), i + 2, line)
          [] c \in {QUOTE, 39} -> TheString(read_string(x, i, line))
          [] c = DOT -> Dots(x, i, line)
          [] c \in Digit -> read_numeral(x, i, i, line)
          [] c = EOZ -> Token("eof", <<>>, i, line)
          [] c \in Alpha -> Word(x, i, line)
          [] OTHER -> Token("op", <<c>>, i + 1, line)

-----------------------------------------------------------------------------
IsControl(c) == c < 32 \/ c = 127
Dec3(n) == <<48 + (n \div 100), 48 + ((n \div 10) % 10), 48 + (n % 10)>>
Dec(n) == SubSeq(Dec3(n), IF n < 10 THEN 3 ELSE IF n < 100 THEN 2 ELSE 1, 3)

\* string.format("%q", s)

addquoted(s) ==
    LET Char(k) == IF s[k] \in {QUOTE, BACKSLASH, NL} THEN <<BACKSLASH, s[k]>>
                   ELSE IF IsControl(s[k])
                        THEN <<BACKSLASH>> \o (IF Cur(s, k + 1) \in Digit THEN Dec3(s[k]) ELSE Dec(s[k]))
                   ELSE <<s[k]>>
    IN  <<QUOTE>> \o FlattenSeq([k \in 1..Len(s) |-> Char(k)]) \o <<QUOTE>>

\* How a program writes a string in long brackets.
LongBracket(s, n) ==
    LET eq == [k \in 1..n |-> EQUAL]
    IN  <<BRA>> \o eq \o <<BRA, NL>> \o s \o <<KET>> \o eq \o <<KET>>

\* The closing bracket comes only at the end, and no line break has a CR.
FitsLongBracket(s, n) ==
    LET close == <<KET>> \o [k \in 1..n |-> EQUAL] \o <<KET>>
        all == s \o close
    IN  /\ \A k \in 1..Len(s) : SubSeq(all, k, k + n + 1) # close
        /\ CR \notin {s[k] : k \in 1..Len(s)}

-----------------------------------------------------------------------------
Init ==
    /\ \/ text \in Texts /\ spells = NONE
       \/ \E s \in Strings : text = addquoted(s) /\ spells = s
       \/ \E s \in Strings, n \in Levels :
             FitsLongBracket(s, n) /\ text = LongBracket(s, n) /\ spells = s
    /\ at = 1
    /\ linenumber = 1
    /\ lastline = 1
    /\ t = Start
    /\ lookahead = NONE
    /\ consumed = <<>>

Reading == t.kind \notin {"eof", "error"} /\ (lookahead # NONE => lookahead.kind # "error")

\* The parser is at a name that begins a field of a table.
AtField == t.kind = "name" /\ consumed # <<>> /\ Last(consumed).val = <<BRACE>>

\* The next token is read, as the current one or as look-ahead.
Taken(n) == t' = n /\ at' = n.next /\ linenumber' = n.line /\ lookahead' = NONE
Ahead(n) == lookahead' = n /\ at' = n.next /\ linenumber' = n.line

\* Mutant: the look-ahead is not discharged.
luaX_next_again ==
    /\ Reading
    /\ AtField => lookahead # NONE
    /\ lastline' = linenumber
    /\ consumed' = IF t = Start THEN consumed ELSE Append(consumed, t)
    /\ IF lookahead # NONE /\ lookahead.kind # "eof"
       THEN t' = lookahead /\ UNCHANGED <<lookahead, at, linenumber>>
       ELSE Taken(llex(text, at, linenumber))
    /\ UNCHANGED <<text, spells>>

\* The end of the text as look-ahead is no look-ahead: it is read again.
luaX_next ==
    /\ Reading
    /\ AtField => lookahead # NONE
    /\ lastline' = linenumber
    /\ consumed' = IF t = Start THEN consumed ELSE Append(consumed, t)
    /\ IF lookahead # NONE /\ lookahead.kind # "eof"
       THEN t' = lookahead /\ lookahead' = NONE /\ UNCHANGED <<at, linenumber>>
       ELSE Taken(llex(text, at, linenumber))
    /\ UNCHANGED <<text, spells>>

luaX_lookahead ==
    /\ AtField /\ lookahead = NONE
    /\ Ahead(llex(text, at, linenumber))
    /\ UNCHANGED <<text, spells, lastline, t, consumed>>

Next == luaX_next \/ luaX_lookahead
Spec == Init /\ [][Next]_vars

-----------------------------------------------------------------------------
\* The tokens without look-ahead.
RECURSIVE Tokens(_, _)
Tokens(x, n) ==
    IF n.kind \in {"eof", "error"} THEN <<n>> ELSE <<n>> \o Tokens(x, llex(x, n.next, n.line))

\* How many lines end before the position i, two different characters that
\* break a line being one break.
Lines(x, i) ==
    FoldLeft(LAMBDA l, c : IF c \notin Break THEN [l EXCEPT !.open = NONE]
                           ELSE IF l.open # NONE /\ l.open # <<c>> THEN [l EXCEPT !.open = NONE]
                           ELSE [n |-> l.n + 1, open |-> <<c>>],
             [n |-> 0, open |-> NONE], SubSeq(x, 1, i - 1)).n

\* A string that string.format("%q") wrote, or that stands in long brackets,
\* is read as it was.
StringsReadBack ==
    spells # NONE => llex(text, 1, 1) \in {Token("string", spells, Len(text) + 1, n) : n \in 1..Len(text) + 1}

\* Whatever the line breaks are in, blanks, comments or strings, a token is
\* on the line on which an editor shows its end.
LinesCounted ==
    \A k \in 1..Len(consumed) : consumed[k].line = 1 + Lines(text, consumed[k].next)

\* The parser sees each token once and in order, whether it looked ahead
\* or not.
LookaheadHides ==
    t # Start => Append(consumed, t) = SubSeq(Tokens(text, llex(text, 1, 1)), 1, Len(consumed) + 1)

\* The line that code is given, that of the last token consumed, is right
\* but for the name of a field, where it is that of the token behind it.
LinesOfCode ==
    consumed # <<>> /\ lastline # Last(consumed).line =>
        /\ Last(consumed).kind = "name"
        /\ Len(consumed) > 1 /\ consumed[Len(consumed) - 1].val = <<BRACE>>
        /\ lastline = t.line
=============================================================================

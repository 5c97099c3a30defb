----------------------------- MODULE LuaPattern ----------------------------
(***************************************************************************)
(* Pattern matching in lstrlib.c: the backtracking matcher, find, gmatch   *)
(* and gsub, against a definition of what a match is.                      *)
(*                                                                         *)
(* A pattern is a sequence of items: a character class that was read by    *)
(* classend is one item, as is "%b" (with its two characters), "%f" (with  *)
(* its set) and "%1".  Positions count from 0, as offsets do.              *)
(***************************************************************************)
EXTENDS Integers, Sequences, FiniteSets, SequencesExt, FiniteSetsExt

CONSTANTS
    Char,        \* the characters of subjects
    Class,       \* the set of characters of each class; "[" is malformed
    Frontier,    \* the set of "%f", of characters and "end"
    Subjects, Patterns,
    MAXCAPTURES, \* LUA_MAXCAPTURES
    MAXCCALLS,   \* the depth of recursion
    NULL,
    ERR          \* an error was raised

VARIABLES subject, pattern, asked

vars == <<subject, pattern, asked>>

CAP_UNFINISHED == -1
CAP_POSITION == -2
Repeats == {"*", "+", "?", "-"}
Specials == Repeats \cup {"^", "$", "(", ")", ".", "[", "[^a]", "%1", "%b", "%f"}

\* The item at p, "end" behind the last.
Item(p) == IF p <= Len(pattern) THEN pattern[p] ELSE "end"
CharAt(s) == IF s \in 0..Len(subject) - 1 THEN subject[s + 1] ELSE "end"

-----------------------------------------------------------------------------
(***************************************************************************)
(* The matcher.  caps are the captures of the match state, with its level  *)
(* as length; every call gives where the match ends, or NULL, or ERR,  *)
(* and the captures it leaves.                                             *)
(***************************************************************************)
Result(at, caps) == [at |-> at, caps |-> caps]
Error(caps) == Result(ERR, caps)

singlematch(s, p) == s < Len(subject) /\ CharAt(s) \in Class[Item(p)]

Unfinished(caps) == {l \in DOMAIN caps : caps[l].len = CAP_UNFINISHED}

\* What a capture holds, for one that is finished.
Text(cap) == SubSeq(subject, cap.init + 1, cap.init + cap.len)

\* A position capture has a length that no rest of a subject has.
match_capture(s, caps) ==
    IF 1 > Len(caps) \/ 1 \in Unfinished(caps) THEN ERR
    ELSE LET len == caps[1].len
         IN  IF /\ len # CAP_POSITION
                /\ len <= Len(subject) - s
                /\ Text(caps[1]) = SubSeq(subject, s + 1, s + len)
             THEN s + len ELSE NULL

\* The end of a balanced string of "a" and "b" from s.
RECURSIVE Balance(_, _)

Balance(s, cont) ==
    IF s >= Len(subject) THEN NULL
    ELSE LET c == cont + (CASE CharAt(s) = "a" -> 1 [] CharAt(s) = "b" -> -1 [] OTHER -> 0)
         IN  IF c = 0 THEN s + 1 ELSE Balance(s + 1, c)
matchbalance(s) == IF CharAt(s) = "a" THEN Balance(s + 1, 1) ELSE NULL

RECURSIVE match(_, _, _, _), Loop(_, _, _, _), Repeat(_, _, _, _, _)

\* A match that failed undoes what was done for it.
Undone(r) == IF r.at = NULL THEN Result(NULL, Front(r.caps)) ELSE r
start_capture(s, p, what, caps, d) ==
    IF Len(caps) >= MAXCAPTURES THEN Error(caps)
    ELSE Undone(match(s, p, Append(caps, [init |-> s, len |-> what]), d))

Reopened(r, l) == IF r.at = NULL THEN Result(NULL, [r.caps EXCEPT ![l].len = CAP_UNFINISHED]) ELSE r
end_capture(s, p, caps, d) ==
    LET l == Max(Unfinished(caps)) \* capture_to_close
    IN  IF Unfinished(caps) = {} THEN Error(caps)
        ELSE Reopened(match(s, p, [caps EXCEPT ![l].len = s - caps[l].init], d), l)

\* Mutant: only the longest run is tried.
max_expand_longest(s, p, caps, d) ==
    LET runs == {i \in 0..Len(subject) - s : \A j \in 0..i - 1 : singlematch(s + j, p)}
    IN  match(s + Max(runs), p + 2, caps, d)

\* The longest run of the single item at p from s, then shorter ones.
max_expand(s, p, caps, d) ==
    LET runs == {i \in 0..Len(subject) - s : \A j \in 0..i - 1 : singlematch(s + j, p)}
    IN  Repeat(s, Max(runs), p, caps, d)
OrFewer(r, s, i, p, d) == IF r.at # NULL THEN r ELSE Repeat(s, i - 1, p, r.caps, d)
Repeat(s, i, p, caps, d) ==
    IF i < 0 THEN Result(NULL, caps) ELSE OrFewer(match(s + i, p + 2, caps, d), s, i, p, d)

RECURSIVE min_expand(_, _, _, _)
OrMore(r, s, p, d) ==
    IF r.at # NULL THEN r ELSE IF singlematch(s, p) THEN min_expand(s + 1, p, r.caps, d) ELSE r
min_expand(s, p, caps, d) == OrMore(match(s, p + 2, caps, d), s, p, d)

\* A single item with its suffix.
OrWithout(r, s, p, d) == IF r.at # NULL THEN r ELSE Loop(s, p + 2, r.caps, d)
Default(s, p, caps, d) ==
    LET suffix == Item(p + 1)
    IN  IF Item(p) = "[" THEN Error(caps) \* classend
        ELSE IF ~singlematch(s, p)
        THEN IF suffix \in {"*", "?", "-"} THEN Loop(s, p + 2, caps, d) ELSE Result(NULL, caps)
        ELSE CASE suffix = "?" -> OrWithout(match(s + 1, p + 2, caps, d), s, p, d)
               [] suffix = "+" -> max_expand(s + 1, p, caps, d)
               [] suffix = "*" -> max_expand(s, p, caps, d)
               [] suffix = "-" -> min_expand(s, p, caps, d)
               [] OTHER -> Loop(s + 1, p + 1, caps, d)

\* match without its call: continues at p, or fails.
Continue(s, p, caps, d) ==
    IF s = NULL THEN Result(NULL, caps)
    ELSE IF s = ERR THEN Error(caps)
    ELSE Loop(s, p, caps, d)

Previous(s) == IF s = 0 THEN "end" ELSE CharAt(s - 1)

Loop(s, p, caps, d) ==
    CASE p > Len(pattern) -> Result(s, caps)
      [] Item(p) = "(" ->
           IF Item(p + 1) = ")" THEN start_capture(s, p + 2, CAP_POSITION, caps, d)
           ELSE start_capture(s, p + 1, CAP_UNFINISHED, caps, d)
      [] Item(p) = ")" -> end_capture(s, p + 1, caps, d)
      [] Item(p) = "$" /\ p = Len(pattern) ->
           Result(IF s = Len(subject) THEN s ELSE NULL, caps)
      [] Item(p) = "%b" -> Continue(matchbalance(s), p + 1, caps, d)
      [] Item(p) = "%f" ->
           Continue(IF Previous(s) \notin Frontier /\ CharAt(s) \in Frontier THEN s ELSE NULL,
                    p + 1, caps, d)
      [] Item(p) = "%1" -> Continue(match_capture(s, caps), p + 1, caps, d)
      [] OTHER -> Default(s, p, caps, d)

match(s, p, caps, d) == IF d = 0 THEN Error(caps) ELSE Loop(s, p, caps, d - 1)

-----------------------------------------------------------------------------
(***************************************************************************)
(* The functions of the library                                            *)
(***************************************************************************)
posrelat(pos, len) == IF pos >= 0 THEN pos ELSE IF -pos > len THEN 0 ELSE len + pos + 1

Anchored == Item(1) = "^"
First == IF Anchored THEN 2 ELSE 1

\* push_captures: the whole match stands for captures that there are not.
Captures(caps, s, e) ==
    IF Unfinished(caps) # {} THEN ERR
    ELSE IF caps = <<>> THEN <<[init |-> s, len |-> e - s]>> ELSE caps

\* str_find_aux from the offset s1: <<start, end, captures>>, NULL or ERR.
RECURSIVE FindFrom(_)
FoundOrNext(r, s1) ==
    CASE r.at = ERR -> ERR
      [] r.at # NULL -> IF Captures(r.caps, s1, r.at) = ERR THEN ERR
                        ELSE <<s1, r.at, Captures(r.caps, s1, r.at)>>
      [] s1 < Len(subject) /\ ~Anchored -> FindFrom(s1 + 1)
      [] OTHER -> NULL
FindFrom(s1) == FoundOrNext(match(s1, First, <<>>, MAXCCALLS), s1)

str_find(init) ==
    LET i == IF posrelat(init, Len(subject)) < 1 THEN 1 ELSE posrelat(init, Len(subject))
    IN  IF i > Len(subject) + 1 THEN NULL ELSE FindFrom(i - 1)

nospecials == ToSet(pattern) \cap Specials = {}

\* lmemfind: where the pattern is, as it stands; each time its first
\* character is found, the rest is compared.
RECURSIVE lmemfind(_)

lmemfind(s1) ==
    LET at == {i \in s1..Len(subject) - Len(pattern) : subject[i + 1] = pattern[1]}
    IN  IF pattern = <<>> THEN s1
        ELSE IF at = {} THEN NULL
        ELSE LET i == Min(at)
             IN  IF SubSeq(subject, i + 2, i + Len(pattern)) = Tail(pattern) THEN i
                 ELSE lmemfind(i + 1)

\* One call of the iterator: the first match that does not end where the
\* last one did, or <<>>.
gmatch_aux(src, lastmatch) ==
    LET found == {s \in src..Len(subject) :
                    match(s, 1, <<>>, MAXCCALLS).at \notin {NULL, lastmatch}}
    IN  IF found = {} THEN <<>> ELSE <<Min(found), match(Min(found), 1, <<>>, MAXCCALLS).at>>

RECURSIVE gmatch(_, _)
AndFurther(m) ==
    IF m = <<>> THEN <<>> ELSE IF m[2] = ERR THEN <<<<ERR>>>> ELSE <<m>> \o gmatch(m[2], m[2])
gmatch(src, lastmatch) == AndFurther(gmatch_aux(src, lastmatch))

\* str_gsub: the pieces of the result, <<"match", s, e>> for a replacement
\* and <<"copy", s, e>> for characters of the subject.
RECURSIVE str_gsub(_, _, _)
RestFrom(src) == <<<<"copy", src, Len(subject)>>>>
Replaced(e, src, lastmatch, n) ==
    IF e = ERR THEN <<<<ERR>>>>
    ELSE IF e \notin {NULL, lastmatch}
    THEN <<<<"match", src, e>>>> \o (IF Anchored THEN RestFrom(e) ELSE str_gsub(e, e, n - 1))
    ELSE IF src < Len(subject)
    THEN <<<<"copy", src, src + 1>>>>
           \o (IF Anchored THEN RestFrom(src + 1) ELSE str_gsub(src + 1, lastmatch, n))
    ELSE RestFrom(src)
str_gsub(src, lastmatch, n) ==
    IF n = 0 THEN RestFrom(src) ELSE Replaced(match(src, First, <<>>, MAXCCALLS).at, src, lastmatch, n)

-----------------------------------------------------------------------------
Init == subject = <<>> /\ pattern = <<>> /\ asked = FALSE
Ask ==
    /\ ~asked /\ asked' = TRUE
    /\ subject' \in Subjects /\ pattern' \in Patterns
Again == asked /\ asked' = FALSE /\ subject' = <<>> /\ pattern' = <<>>
Next == Ask \/ Again
Spec == Init /\ [][Next]_vars

-----------------------------------------------------------------------------
(***************************************************************************)
(* What a match is.  The pattern is a sequence of elements; a way to match *)
(* says how often each is repeated.                                        *)
(***************************************************************************)
RECURSIVE Elements(_)
Elements(p) ==
    CASE p > Len(pattern) -> <<>>
      [] Item(p) = "(" /\ Item(p + 1) = ")" -> <<[kind |-> "()", p |-> p]>> \o Elements(p + 2)
      [] Item(p) \in {"(", ")", "%b", "%f", "%1"} \/ (Item(p) = "$" /\ p = Len(pattern)) ->
           <<[kind |-> Item(p), p |-> p]>> \o Elements(p + 1)
      [] OTHER -> IF Item(p + 1) \in Repeats
                  THEN <<[kind |-> Item(p + 1), p |-> p]>> \o Elements(p + 2)
                  ELSE <<[kind |-> "1", p |-> p]>> \o Elements(p + 1)

Counts(e) ==
    CASE e.kind = "1" -> {1} [] e.kind = "?" -> 0..1
      [] e.kind = "+" -> 1..Len(subject) [] e.kind \in {"*", "-"} -> 0..Len(subject)
      [] OTHER -> {0}

\* Where the parenthesis that closes element i is, for nested ones.
Depth(es, i) ==
    Cardinality({j \in 1..i : es[j].kind = "("}) - Cardinality({j \in 1..i : es[j].kind = ")"})
Closing(es, i) ==
    Min({j \in i + 1..Len(es) : Depth(es, j) = Depth(es, i) - 1})
WellFormed ==
    LET es == Elements(First)
    IN  /\ "[" \notin ToSet(pattern)
        /\ \A i \in 1..Len(es) : Depth(es, i) >= 0
        /\ es # <<>> => Depth(es, Len(es)) = 0
        /\ \A i \in 1..Len(es) : es[i].kind = "%1" =>
             \E j \in 1..i - 1 : \/ es[j].kind = "()" /\ \A k \in 1..j - 1 : es[k].kind # "("
                                 \/ /\ es[j].kind = "(" /\ Closing(es, j) < i
                                    /\ \A k \in 1..j - 1 : es[k].kind \notin {"(", "()"}

\* Where each element ends if they start at s: a function of 0..Len(es), or
\* NULL from the first that does not match.
Balanced(s, e) ==
    /\ CharAt(s) = "a"
    /\ LET sum(k) == Cardinality({j \in s..k - 1 : CharAt(j) = "a"})
                       - Cardinality({j \in s..k - 1 : CharAt(j) = "b"})
       IN  sum(e) = 0 /\ \A k \in s + 1..e - 1 : sum(k) > 0
Ends(es, n, s) ==
    LET ends[i \in 0..Len(es)] ==
          IF i = 0 THEN s
          ELSE LET at == ends[i - 1]
                   to == at + n[i]
               IN  CASE at = NULL -> NULL
                     [] es[i].kind \in {"(", ")", "()"} -> at
                     [] es[i].kind = "$" -> IF at = Len(subject) THEN at ELSE NULL
                     [] es[i].kind = "%f" ->
                          IF Previous(at) \notin Frontier /\ CharAt(at) \in Frontier
                          THEN at ELSE NULL
                     [] es[i].kind = "%b" ->
                          IF \E e \in at + 1..Len(subject) : Balanced(at, e)
                          THEN CHOOSE e \in at + 1..Len(subject) : Balanced(at, e) ELSE NULL
                     [] es[i].kind = "%1" ->
                          LET o == Min({j \in 1..i : es[j].kind \in {"(", "()"}})
                              text == SubSeq(subject, ends[o] + 1, ends[Closing(es, o)])
                          IN  IF /\ es[o].kind = "(" /\ at + Len(text) <= Len(subject)
                                 /\ SubSeq(subject, at + 1, at + Len(text)) = text
                              THEN at + Len(text) ELSE NULL
                     [] OTHER ->
                          IF to <= Len(subject) /\ \A j \in at..to - 1 : singlematch(j, es[i].p)
                          THEN to ELSE NULL
    IN  ends

Lazy(e) == e.kind = "-"
\* The ways to match at s; the best is the first in the order of the
\* elements, with more repetitions before fewer, and fewer first for "-".
Ways(es, s) ==
    {n \in [1..Len(es) -> 0..Len(subject) + 1] :
       /\ \A i \in 1..Len(es) : n[i] \in Counts(es[i])
       /\ Ends(es, n, s)[Len(es)] # NULL}
Before(es, m, n) ==
    \E i \in 1..Len(es) : /\ \A j \in 1..i - 1 : m[j] = n[j]
                          /\ IF Lazy(es[i]) THEN m[i] < n[i] ELSE m[i] > n[i]
Best(es, s) == CHOOSE n \in Ways(es, s) : \A m \in Ways(es, s) : ~Before(es, m, n)

\* The captures of a way, in the order of their opening.
CapturesOf(es, n, s) ==
    LET ends == Ends(es, n, s)
        opens == SetToSortSeq({i \in 1..Len(es) : es[i].kind \in {"(", "()"}}, <)
        cap(i) == [init |-> ends[i], len |-> IF es[i].kind = "()" THEN CAP_POSITION
                                             ELSE ends[Closing(es, i)] - ends[i]]
    IN  [k \in 1..Len(opens) |-> cap(opens[k])]

\* What a match at s gives.
Matched(s, e, caps) == <<s, e, IF caps = <<>> THEN <<[init |-> s, len |-> e - s]>> ELSE caps>>
MatchBy(es, n, s) == Matched(s, Ends(es, n, s)[Len(es)], CapturesOf(es, n, s))
MatchOf(es, s) == IF Ways(es, s) = {} THEN NULL ELSE MatchBy(es, Best(es, s), s)
MatchAt(s) == MatchOf(Elements(First), s)

-----------------------------------------------------------------------------
(* The matcher gives the best of all ways to match, with its captures, and  *)
(* find the first position that has one.                                   *)
FindsBest ==
    asked /\ WellFormed =>
      LET starts == {s \in 0..(IF Anchored THEN 0 ELSE Len(subject)) : MatchAt(s) # NULL}
      IN  str_find(1) = IF starts = {} THEN NULL ELSE MatchAt(Min(starts))

(* lstrlib.c:603: between two attempts the match state is as at the start:  *)
(* a failed match leaves no captures.                                      *)
CapturesUndone ==
    asked => \A s \in 0..Len(subject) :
      LET r == match(s, First, <<>>, MAXCCALLS) IN r.at = NULL => r.caps = <<>>

(* A pattern without special characters is found as it stands at the same   *)
(* place, and from any position given from the front or the back.          *)
PlainIsSame ==
    asked /\ nospecials =>
      \A init \in -3..4 :
        LET i == Max({1, posrelat(init, Len(subject))})
            plain == IF i > Len(subject) + 1 THEN NULL ELSE lmemfind(i - 1)
        IN  /\ str_find(init) = NULL <=> plain = NULL
            /\ plain # NULL => str_find(init)[1] = plain /\ str_find(init)[2] = plain + Len(pattern)

(* gmatch and gsub see the same matches: none overlap, an empty one does    *)
(* not follow another match at once, and gsub keeps what is between them.  *)
SameMatches ==
    asked /\ WellFormed /\ ~Anchored =>
      LET pieces == str_gsub(0, NULL, Len(subject) + 1)
          matches == SelectSeq(pieces, LAMBDA q : q[1] = "match")
          found == gmatch(0, NULL)
      IN  /\ found = [i \in 1..Len(matches) |-> <<matches[i][2], matches[i][3]>>]
          /\ pieces[1][2] = 0 /\ pieces[Len(pieces)][3] = Len(subject)
          /\ \A i \in 1..Len(pieces) - 1 : pieces[i][3] = pieces[i + 1][2]
          /\ \A i \in 1..Len(found) - 1 :
               found[i][2] < found[i + 1][1] \/ found[i + 1][1] < found[i + 1][2]

(* A malformed pattern never gives captures: it is refused, or fails to     *)
(* match before its error is seen.                                         *)
MalformedIsRefused ==
    asked /\ ~WellFormed /\ str_find(1) \notin {NULL, ERR} =>
      \A cap \in ToSet(str_find(1)[3]) : cap.len # CAP_UNFINISHED
=============================================================================

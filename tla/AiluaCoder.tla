----------------------------- MODULE AiluaCoder -----------------------------
(***************************************************************************)
(* Terms to Lua values and back: erlang_to_lua, lua_to_erlang and          *)
(* is_erl_boxer of c_src/ailua_coder.c, with the Lua stack they work on.   *)
(* Numbers are naturals that both directions keep (their width is module   *)
(* AiluaNumbers).                                                          *)
(*                                                                         *)
(* Erlang terms:  atom (name), bin (bytes), num (n), flt (a float equal to *)
(* n), list (elems), map (pairs, in the order of the iterator), other (a   *)
(* tuple, a pid, ...).                                                     *)
(* Lua values:  nil, bool (b), num (n), str (bytes), func, and table, with *)
(* its array part, its hash part (entries in the order of lua_next) and    *)
(* its metatable: "none", "mark" (of to_erl_map and of maps from Erlang),  *)
(* "unmark" (_ERL_MAP = false) or "bare" (without the field).              *)
(***************************************************************************)
EXTENDS Integers, Sequences, LuaBorder, SequencesExt

CONSTANTS
    Spelling, \* name of an atom or a field -> its bytes
    Wide,    \* the names that have no Latin-1 encoding
    Nul,     \* the byte that ends C strings
    ErlTerms, \* terms a client sends
    LuaValue, \* values a script returns
    Fuel     \* bound: iterations of one lua_next loop

VARIABLES
    stack,   \* the Lua stack: the slots above ci->func
    sent,    \* what the client sent or the script made (history)
    status,  \* "ready", "pushed", "refused", "raised", "answered"
    answer   \* the term lua_to_erlang made

vars == <<stack, sent, status, answer>>

Nil == [t |-> "nil"]
Bool(b) == [t |-> "bool", b |-> b]
Str(bytes) == [t |-> "str", bytes |-> bytes]
Num(n) == [t |-> "num", n |-> n]
Table(arr, hash, meta) == [t |-> "table", arr |-> arr, hash |-> hash, meta |-> meta]

Atom(name) == [t |-> "atom", name |-> name]
Bin(bytes) == [t |-> "bin", bytes |-> bytes]
List(elems) == [t |-> "list", elems |-> elems]
Map(pairs) == [t |-> "map", pairs |-> pairs]

\* What a C variable of type ERL_NIF_TERM holds before it is assigned.
Garbage == [t |-> "garbage"]

Top(s) == s[Len(s)]
Pop(s, n) == SubSeq(s, 1, Len(s) - n)

\* The bytes of a C string: up to the first Nul.
CString(bytes) ==
    SubSeq(bytes, 1, SelectInSeq(Append(bytes, Nul), LAMBDA c : c = Nul) - 1)

-----------------------------------------------------------------------------
(***************************************************************************)
(* Tables                                                                  *)
(***************************************************************************)
\* Numbers that have an integer value are integer keys.
IsIndex(key, t) == key.t = "num" /\ key.n \in 1..Len(t.arr)

Entries(t) ==
    [i \in 1..Len(t.arr) |-> <<Num(i), t.arr[i]>>] \o t.hash

\* The entries lua_next visits, in its order.
Live(t) == SelectSeq(Entries(t), LAMBDA e : e[2] # Nil)

\* lua_rawset and lua_rawseti, with a key that is not nil.  An entry of the
\* hash part keeps its place, and its place only, when it becomes nil.
RawSet(t, key, value) ==
    IF IsIndex(key, t) THEN [t EXCEPT !.arr[key.n] = value]
    ELSE IF \E i \in 1..Len(t.hash) : t.hash[i][1] = key
         THEN [t EXCEPT !.hash =
                 [i \in DOMAIN @ |-> IF @[i][1] = key THEN <<key, value>> ELSE @[i]]]
         ELSE [t EXCEPT !.hash = Append(@, <<key, value>>)]

RawGet(t, key) ==
    LET found == {i \in 1..Len(Entries(t)) : Entries(t)[i][1] = key}
    IN  IF found = {} THEN Nil ELSE Entries(t)[CHOOSE i \in found : TRUE][2]

Present(t) == {Live(t)[i][1].n : i \in {j \in 1..Len(Live(t)) : Live(t)[j][1].t = "num"}}
RawLen(t) == Border(Present(t) \cap Nat, Len(t.arr), t.hash = <<>>)

Mark == "_ERL_MAP"
MetaTable(meta) ==
    Table(<<>>, IF meta = "bare" THEN <<>>
                ELSE <<<<Str(Spelling[Mark]), Bool(meta = "mark")>>>>, "none")

-----------------------------------------------------------------------------
(***************************************************************************)
(* erlang_to_lua.  The outcome "refused" is the return value 0, "raised"   *)
(* a Lua error outside any lua_pcall; both leave the stack as it is.       *)
(***************************************************************************)

Outcome(how, s) == [how |-> how, s |-> s]
Pushed(s, v) == Outcome("ok", Append(s, v))

\* 'len == n && strncmp(buffer, word, k) == 0'; len counts the terminator.
Reads(bytes, n, word, k) ==
    Len(bytes) + 1 = n /\ SubSeq(bytes, 1, k) = SubSeq(Spelling[word], 1, k)

\* A name that is not Latin-1 leaves the buffer empty.
AtomValue(name) ==
    LET bytes == IF name \in Wide THEN <<>> ELSE Spelling[name]
    IN  CASE Reads(bytes, 4, "nil", 3) \/ Reads(bytes, 10, "undefined", 9)
                \/ Reads(bytes, 5, "null", 4) -> Nil
          [] Reads(bytes, 5, "true", 4) -> Bool(TRUE)
          [] Reads(bytes, 5, "false", 4) -> Bool(FALSE)
          [] OTHER -> Str(CString(bytes))

\* Mutant: the first element goes to index 0.
StoreAtZero(s, i) ==
    Append(Pop(s, 2), RawSet(s[Len(s) - 1], Num(i - 1), Top(s)))

\* lua_rawseti(L, -2, i): the top of the stack goes into the table below it.
StoreAt(s, i) ==
    Append(Pop(s, 2), RawSet(s[Len(s) - 1], Num(i), Top(s)))

\* lua_rawset(L, -3)
StoreEntry(s) ==
    Append(Pop(s, 3), RawSet(s[Len(s) - 2], s[Len(s) - 1], Top(s)))

RECURSIVE ErlangToLua(_, _), ListToLua(_, _, _), MapToLua(_, _, _)

ErlangToLua(term, s) ==
    CASE term.t = "atom" -> Pushed(s, AtomValue(term.name))
      [] term.t = "bin" -> Pushed(s, Str(term.bytes))
      [] term.t \in {"num", "flt"} -> Pushed(s, Num(term.n))
      [] term.t = "list" ->
           ListToLua(term.elems, 1,
               Append(s, Table([i \in 1..Len(term.elems) |-> Nil], <<>>, "none")))
      [] term.t = "map" ->
           MapToLua(term.pairs, 1,
               Append(s, Table([i \in 1..Len(term.pairs) |-> Nil], <<>>, "mark")))
      [] OTHER -> Outcome("refused", s)

ListToLua(elems, i, s) ==
    IF i > Len(elems) THEN Outcome("ok", s)
    ELSE LET r == ErlangToLua(elems[i], s)
         IN  IF r.how # "ok" THEN r ELSE ListToLua(elems, i + 1, StoreAt(r.s, i))

MapToLua(pairs, i, s) ==
    IF i > Len(pairs) THEN Outcome("ok", s)
    ELSE LET k == ErlangToLua(pairs[i][1], s)
             v == ErlangToLua(pairs[i][2], k.s)
         IN  IF k.how # "ok" THEN k
             ELSE IF v.how # "ok" THEN v
             ELSE IF v.s[Len(v.s) - 1] = Nil THEN Outcome("raised", v.s)
             ELSE MapToLua(pairs, i + 1, StoreEntry(v.s))

-----------------------------------------------------------------------------
(***************************************************************************)
(* lua_to_erlang(L, i) on the stack s.  A function leaves the term that    *)
(* 'out' points to as it was, old.                                         *)
(***************************************************************************)
\* strncpy stops at the first Nul and fills the rest with more of them.
Copied(bytes) ==
    LET n == Len(CString(bytes))
    IN  [i \in 1..Len(bytes) |-> IF i <= n THEN bytes[i] ELSE Nul]

\* What lua_gettable finds at index i, the metatables of values being
\* without __index; only strings and tables can be indexed.
FieldAt(s, i) ==
    IF s[i].t = "table" THEN RawGet(s[i], Str(Spelling[Mark])) ELSE Nil

\* Mutant: the field is popped, the metatable never.
is_erl_boxer_keeping(s, i) ==
    IF s[i].meta = "none" THEN [how |-> "ok", s |-> s, r |-> FALSE]
    ELSE LET pushed == Append(s, MetaTable(s[i].meta))
         IN  [how |-> "ok", s |-> pushed, r |-> FieldAt(pushed, i + 1) = Bool(TRUE)]

\* The metatable is pushed, and looked for at i + 1; when the field is nil
\* it stays on the stack.
is_erl_boxer(s, i) ==
    IF s[i].meta = "none" THEN [how |-> "ok", s |-> s, r |-> FALSE]
    ELSE LET pushed == Append(s, MetaTable(s[i].meta))
         IN  IF pushed[i + 1].t \notin {"table", "str"}
             THEN [how |-> "raised", s |-> pushed, r |-> FALSE]
             ELSE [how |-> "ok",
                   s |-> IF FieldAt(pushed, i + 1) = Nil THEN pushed ELSE s,
                   r |-> FieldAt(pushed, i + 1) = Bool(TRUE)]

\* enif_make_map_put
MapPut(pairs, key, value) ==
    Append(SelectSeq(pairs, LAMBDA p : p[1] # key), <<key, value>>)

\* lua_next: the first live entry after the key at the top of the stack.
NextEntry(t, key) ==
    LET from == IF key = Nil THEN 0
                ELSE SelectInSeq(Entries(t), LAMBDA e : e[1] = key)
    IN  SelectInSubSeq(Entries(t), from + 1, Len(Entries(t)), LAMBDA e : e[2] # Nil)
KnownKey(t, key) == key = Nil \/ \E i \in DOMAIN Entries(t) : Entries(t)[i][1] = key

RECURSIVE LuaToErlang(_, _, _), MapToErlang(_, _, _, _, _, _), ListToErlang(_, _, _, _, _)

Converted(s, term) == [how |-> "ok", s |-> s, term |-> term]
Fails(how, s) == [how |-> how, s |-> s, term |-> Garbage]

LuaToErlang(s, i, old) ==
    LET v == s[i]
    IN  CASE v.t = "nil" -> Converted(s, Atom("undefined"))
          [] v.t = "num" -> Converted(s, [t |-> "num", n |-> v.n])
          [] v.t = "bool" -> Converted(s, Atom(IF v.b THEN "true" ELSE "false"))
          [] v.t = "str" -> Converted(s, Bin(Copied(v.bytes)))
          [] v.t = "table" ->
               LET box == is_erl_boxer(s, i)
               IN  IF box.how # "ok" THEN Fails(box.how, box.s)
                   ELSE IF box.r
                   THEN MapToErlang(Append(box.s, Nil), i, <<>>, Garbage, Garbage, Fuel)
                   ELSE ListToErlang(box.s, i, 1, <<>>, Garbage)
          [] OTHER -> Converted(s, old)

\* One turn of the lua_next loop; key and val are what key_term and val_term
\* hold from the turn before.
MapToErlang(s, i, pairs, key, val, fuel) ==
    LET t == s[i]
        next == NextEntry(t, Top(s))
    IN  IF fuel = 0 THEN Fails("loops", s)
        ELSE IF ~KnownKey(t, Top(s)) THEN Fails("raised", s)
        ELSE IF next = 0 THEN Converted(Pop(s, 1), Map(pairs))
        ELSE LET turn == Pop(s, 1) \o Entries(t)[next]
                 k == LuaToErlang(turn, Len(s), key)
                 v == LuaToErlang(k.s, Len(s) + 1, val)
             IN  IF k.how # "ok" THEN k
                 ELSE IF v.how # "ok" THEN v
                 ELSE MapToErlang(Pop(v.s, 1), i, MapPut(pairs, k.term, v.term),
                                  k.term, v.term, fuel - 1)

ListToErlang(s, i, k, elems, cell) ==
    IF k > RawLen(s[i]) THEN Converted(s, List(elems))
    ELSE LET turn == Append(s, RawGet(s[i], Num(k)))
             e == LuaToErlang(turn, Len(turn), cell)
         IN  IF e.how # "ok" THEN e
             ELSE ListToErlang(Pop(e.s, 1), i, k + 1, Append(elems, e.term), e.term)

-----------------------------------------------------------------------------
Base == <<Num(7)>> \* what was on the stack before

Init ==
    /\ stack = Base
    /\ sent = Nil
    /\ status = "ready"
    /\ answer = Garbage

\* ailua_call pushes an argument.
Send(term) ==
    /\ status = "ready"
    /\ sent' = term
    /\ LET r == ErlangToLua(term, stack)
       IN  stack' = r.s /\ status' = IF r.how = "ok" THEN "pushed" ELSE r.how
    /\ UNCHANGED answer

\* A function returns a value of its own.
Make(value) ==
    /\ status = "ready"
    /\ sent' = value
    /\ stack' = Append(stack, value)
    /\ status' = "pushed"
    /\ UNCHANGED answer

\* ailua_call converts the topmost result: the value of a function that
\* returns what it was given, or the value it made.
Answer ==
    /\ status = "pushed"
    /\ LET r == LuaToErlang(stack, Len(stack), Garbage)
       IN  /\ stack' = r.s
           /\ answer' = r.term
           /\ status' = IF r.how = "ok" THEN "answered" ELSE r.how
    /\ UNCHANGED sent

Next ==
    \/ \E term \in ErlTerms : Send(term)
    \/ \E value \in LuaValue : Make(value)
    \/ Answer

Spec == Init /\ [][Next]_vars

-----------------------------------------------------------------------------
(***************************************************************************)
(* Reference definitions.                                                  *)
(***************************************************************************)
NilLike(term) == term.t = "atom" /\ term.name \in {"nil", "null", "undefined"}

\* Terms with their maps as sets of entries, to compare them.
RECURSIVE AsSets(_)
AsSets(term) ==
    CASE term.t = "list" -> List([i \in DOMAIN term.elems |-> AsSets(term.elems[i])])
      [] term.t = "map" ->
           Map({<<AsSets(term.pairs[i][1]), AsSets(term.pairs[i][2])>> :
                  i \in DOMAIN term.pairs})
      [] OTHER -> term

(* What README.md:71-78 says becomes of a term that a function returns as   *)
(* it got it: atoms are strings except for the booleans and nil, entries    *)
(* whose value is nil are not there.                                       *)
RECURSIVE Documented(_)
Documented(term) ==
    CASE NilLike(term) -> Atom("undefined")
      [] term.t = "atom" /\ ~NilLike(term) ->
           IF term.name \in {"true", "false"} THEN term ELSE Bin(Spelling[term.name])
      [] term.t = "flt" -> [t |-> "num", n |-> term.n]
      [] term.t = "list" ->
           List([i \in DOMAIN term.elems |-> Documented(term.elems[i])])
      [] term.t = "map" ->
           LET kept == SelectSeq(term.pairs, LAMBDA p : ~NilLike(p[2]))
           IN  Map([i \in DOMAIN kept |->
                      <<Documented(kept[i][1]), Documented(kept[i][2])>>])
      [] OTHER -> term

(* Terms with nothing in them that the code treats in a way of its own:     *)
(* the atoms it misreads, names that are not Latin-1, zero bytes, holes in  *)
(* lists, keys that are nil or maps or equal as Lua keys.                  *)
RECURSIVE Regular(_)
Regular(term) ==
    CASE term.t = "atom" ->
           /\ term.name \notin Wide \cup {"false", "fals"}
           /\ Nul \notin Range(Spelling[term.name])
      [] term.t = "bin" -> Nul \notin Range(term.bytes)
      [] term.t = "list" ->
           \A i \in DOMAIN term.elems : Regular(term.elems[i]) /\ ~NilLike(term.elems[i])
      [] term.t = "map" ->
           /\ \A i \in DOMAIN term.pairs :
                /\ Regular(term.pairs[i][1]) /\ Regular(term.pairs[i][2])
                /\ ~NilLike(term.pairs[i][1]) /\ term.pairs[i][1].t # "map"
           /\ \A i, j \in DOMAIN term.pairs :
                Documented(term.pairs[i][1]) = Documented(term.pairs[j][1]) => i = j
      [] OTHER -> term.t # "other"

IsErl(term) == term.t \in {"atom", "bin", "flt", "list", "map", "other"}

\* Lua values whose tables have no metatable but the mark, and whose keys
\* have none at all.
RECURSIVE Tame(_)
Tame(v) ==
    v.t = "table" =>
        /\ v.meta \in {"none", "mark"}
        /\ \A i \in DOMAIN Entries(v) :
             /\ Tame(Entries(v)[i][1]) /\ Tame(Entries(v)[i][2])
             /\ Entries(v)[i][1].t = "table" => Entries(v)[i][1].meta = "none"

-----------------------------------------------------------------------------
(***************************************************************************)
(* Properties.                                                             *)
(***************************************************************************)
\* The values on the stack are Lua values: no table, however deep, has a
\* nil key or a key twice (MapToLua stores what clients choose).
RECURSIVE IsLua(_)
IsLua(v) ==
    /\ v.t \in {"nil", "bool", "num", "str", "func", "table"}
    /\ v.t = "table" =>
         \A i, j \in DOMAIN Entries(v) :
           /\ Entries(v)[i][1] # Nil
           /\ Entries(v)[i][1] = Entries(v)[j][1] => i = j
           /\ IsLua(Entries(v)[i][1]) /\ IsLua(Entries(v)[i][2])

\* The stack, what is answered and the status have their types.
TypeOK ==
    /\ \A i \in 1..Len(stack) : IsLua(stack[i])
    /\ answer.t \in {"garbage", "atom", "bin", "num", "list", "map"}
    /\ status \in {"ready", "pushed", "refused", "raised", "loops", "answered"}

(* A regular term that a script returns as it got it comes back as the      *)
(* README says, however lists and maps are nested.                         *)
RoundTrip ==
    (status # "ready" /\ IsErl(sent) /\ Regular(sent)) =>
        /\ status \in {"pushed", "answered"}
        /\ status = "answered" => AsSets(answer) = AsSets(Documented(sent))

(* A list with undefined among its elements comes back as a prefix of       *)
(* itself that ends before one of them: nothing is reordered or invented.  *)
HolesTruncate ==
    (status = "answered" /\ IsErl(sent) /\ sent.t = "list") =>
        LET n == Len(answer.elems)
        IN  /\ n <= Len(sent.elems)
            /\ n < Len(sent.elems) => NilLike(sent.elems[n + 1])
            /\ \A i \in 1..n : NilLike(sent.elems[i]) => answer.elems[i] = Atom("undefined")

(* The stack is as deep after a conversion as before, and no error leaves   *)
(* it, as long as no table has a metatable of the script's own and no key  *)
(* has one; so for every nesting of marked maps and lists.                 *)
TameConverts ==
    LET v == Top(stack)
    IN  /\ (status = "pushed" /\ Tame(v)) =>
              LET r == LuaToErlang(stack, Len(stack), Garbage)
              IN  r.how = "ok" /\ r.s = stack
        /\ status = "pushed" => Pop(stack, 1) = Base

(* When a term is refused, whatever was built of it lies above what was on  *)
(* the stack, and is at least one slot if the term is nested: the caller   *)
(* cannot go on as if nothing had been pushed.                             *)
RefusedLeavesBelow ==
    status \in {"refused", "raised", "loops", "answered"} =>
        /\ Len(stack) >= Len(Base) /\ SubSeq(stack, 1, Len(Base)) = Base
        /\ status = "refused" => (sent.t \in {"list", "map"} <=> Len(stack) > Len(Base))
=============================================================================

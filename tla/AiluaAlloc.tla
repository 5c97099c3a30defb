----------------------------- MODULE AiluaAlloc -----------------------------
(***************************************************************************)
(* Making and closing a virtual machine: ailua_alloc, _set_lua_path and    *)
(* ailua_free of c_src/ailua.c, with the allocations that may fail and the *)
(* buffer in which the new package.path is put together.  At the end: the  *)
(* proof that what a caller gets is right for every path and default path. *)
(***************************************************************************)
EXTENDS Integers, Sequences, SequenceTheorems, WellFoundedInduction, TLAPS

CONSTANTS
    Byte,
    Semicolon, Nul, \* two bytes
    DefaultPath,    \* package.path as luaL_openlibs leaves it (no Nul)
    Paths           \* the binaries given to new/1

CreationAssumption ==
    /\ Semicolon \in Byte /\ Nul \in Byte /\ Semicolon # Nul
    /\ Paths \subseteq Seq(Byte) /\ DefaultPath \in Seq(Byte)
    /\ \A i \in 1..Len(DefaultPath) : DefaultPath[i] # Nul

VARIABLES
    pc,      \* the next statement, or how the attempt ended
    path,    \* the argument; NULL for new/0
    live,    \* what is allocated: "ailua", "L", "buffer"
    field,   \* ailua->L: "unset" or "L"
    depth,   \* slots used on the Lua stack
    buffer,  \* the bytes of the buffer
    package  \* package.path

vars == <<pc, path, live, field, depth, buffer, package>>

NULL == <<"NULL">>

Init ==
    /\ pc = "alloc"
    /\ path \in Paths \cup {NULL}
    /\ live = {} /\ field = "unset" /\ depth = 0
    /\ buffer = <<>> /\ package = DefaultPath

\* enif_alloc and luaL_newstate, both before the result of either is tested.
Alloc ==
    /\ pc = "alloc"
    /\ \E got \in SUBSET {"ailua", "L"} :
         /\ live' = got
         /\ pc' = IF got = {"ailua", "L"} THEN "openlibs" ELSE "error"
    /\ UNCHANGED <<path, field, depth, buffer, package>>

\* luaL_openlibs runs outside lua_pcall: out of memory is a panic.
OpenLibs ==
    /\ pc = "openlibs"
    /\ pc' \in {"dostring", "aborted"}
    /\ UNCHANGED <<path, live, field, depth, buffer, package>>

\* An error leaves its message on the stack, of a state that is closed next.
DoString ==
    /\ pc = "dostring"
    /\ \/ /\ pc' = IF path = NULL THEN "done" ELSE "set_lua_path"
          /\ field' = IF path = NULL THEN "L" ELSE field
          /\ UNCHANGED depth
       \/ /\ pc' = "error"
          /\ depth' = depth + 1
          /\ UNCHANGED field
    /\ UNCHANGED <<path, live, buffer, package>>

extra_len == IF path[1] # Semicolon THEN 2 ELSE 1

BufferSize == Len(path) + Len(DefaultPath) + extra_len

\* lua_getglobal, lua_getfield, enif_alloc and memset.
GetPath ==
    /\ pc = "set_lua_path"
    /\ IF path = <<>>
       THEN /\ pc' = "done" /\ field' = "L"
            /\ UNCHANGED <<live, depth, buffer>>
       ELSE \/ /\ pc' = "concat"
               /\ live' = live \cup {"buffer"}
               /\ depth' = depth + 2
               /\ buffer' = [i \in 1..BufferSize |-> Nul]
               /\ UNCHANGED field
            \/ /\ pc' = "error" \* the two slots are popped
               /\ UNCHANGED <<live, depth, buffer, field>>
    /\ UNCHANGED <<path, package>>

\* The bytes of a C string: up to the first Nul.
Terminated(bytes, k) ==
    /\ \A i \in 1..k : bytes[i] # Nul
    /\ k < Len(bytes) => bytes[k + 1] = Nul
CString(bytes) == SubSeq(bytes, 1, CHOOSE k \in 0..Len(bytes) : Terminated(bytes, k))

\* strncpy(buf + from, bytes, n): n bytes, Nul after the end of the string.
Strncpy(buf, from, bytes, n) ==
    LET s == CString(bytes)
    IN  [i \in 1..(IF from + n > Len(buf) THEN from + n ELSE Len(buf)) |->
           IF i \in (from + 1)..(from + n)
           THEN IF i - from <= Len(s) THEN s[i - from] ELSE Nul
           ELSE IF i <= Len(buf) THEN buf[i] ELSE Nul]

\* Mutant: the path replaces the default path.
ConcatOnly == Strncpy(buffer, 0, path, Len(path))

\* The path is copied behind the default path, and behind a separator.
Concat ==
    LET b == Strncpy(buffer, 0, DefaultPath, Len(DefaultPath))
        separated == IF extra_len = 2 THEN Strncpy(b, Len(DefaultPath), <<Semicolon>>, 1) ELSE b
    IN  Strncpy(separated, Len(DefaultPath) + extra_len - 1, path, Len(path))

\* Without a leading ';' strncpy is given the character as a pointer: the
\* read at address 59 ends the node.
WritePath ==
    /\ pc = "concat"
    /\ IF extra_len = 2
       THEN /\ pc' = "segfault"
            /\ UNCHANGED buffer
       ELSE /\ pc' = "setfield"
            /\ buffer' = Concat
    /\ UNCHANGED <<path, live, field, depth, package>>

SetField ==
    /\ pc = "setfield"
    /\ package' = CString(buffer)
    /\ depth' = depth - 2
    /\ live' = live \ {"buffer"}
    /\ field' = "L"
    /\ pc' = "done"
    /\ UNCHANGED <<path, buffer>>

\* Mutant: the structure is freed, the state is not closed.
ErrorKeepsState ==
    /\ pc = "error"
    /\ live' = live \ {"ailua"}
    /\ depth' = 0
    /\ pc' = "failed"
    /\ UNCHANGED <<path, field, buffer, package>>

\* The error label.
Error ==
    /\ pc = "error"
    /\ live' = live \ {"L", "ailua"}
    /\ depth' = 0
    /\ pc' = "failed"
    /\ UNCHANGED <<path, field, buffer, package>>

\* ailua_free, by the destructor of the resource.
Free ==
    /\ pc = "done"
    /\ live' = live \ (IF field = "L" THEN {"L", "ailua"} ELSE {"ailua"})
    /\ pc' = "closed"
    /\ UNCHANGED <<path, field, depth, buffer, package>>

Next ==
    Alloc \/ OpenLibs \/ DoString \/ GetPath \/ WritePath \/ SetField \/ Error \/ Free

Spec == Init /\ [][Next]_vars

-----------------------------------------------------------------------------
TypeOK ==
    /\ path \in Paths \cup {NULL}
    /\ live \subseteq {"ailua", "L", "buffer"}
    /\ field \in {"unset", "L"}
    /\ depth \in 0..3
    /\ pc \in {"alloc", "openlibs", "dostring", "set_lua_path", "concat", "setfield",
               "error", "failed", "done", "closed", "aborted", "segfault"}

(* However ailua_alloc ends, and after ailua_free, exactly what the caller  *)
(* owns is allocated; a caller that gets NULL owns nothing.                *)
NothingLost ==
    /\ pc \in {"failed", "closed"} => live = {}
    /\ pc = "done" => live = {"ailua", "L"} /\ field = "L"

(* A new machine starts with an empty stack, on which ailua_call relies     *)
(* when it counts return values with lua_gettop.                           *)
CleanStart == pc = "done" => depth = 0

(* A machine that was made looks for modules first where it always does and *)
(* then where the path says, up to a zero byte in it.                      *)
PathAppended ==
    pc \in {"setfield", "done"} =>
        (IF pc = "done" THEN package ELSE CString(buffer)) =
            IF path \in {NULL, <<>>} THEN DefaultPath ELSE DefaultPath \o CString(path)

(* Every byte goes into the buffer, and a terminator is left behind them.   *)
(* The branch for paths without ';' never gets there, but what it is meant *)
(* to write fits as well.                                                  *)
InsideBuffer ==
    pc = "concat" => Len(Concat) = Len(buffer) /\ Concat[Len(buffer)] = Nul

(* A machine is made whole or not at all: however ailua_alloc ends exactly  *)
(* what the caller owns is allocated, the stack of a new machine is empty,  *)
(* its package.path is the default with the given path behind it, and it    *)
(* was written inside the buffer.                                          *)
MachineCreated == TypeOK /\ NothingLost /\ CleanStart /\ PathAppended /\ InsideBuffer

-----------------------------------------------------------------------------
(***************************************************************************)
(* Proofs.  The inductive invariant says at each statement what has been   *)
(* allocated, how deep the stack is, and what the buffer and package.path  *)
(* hold.                                                                   *)
(***************************************************************************)
Before(statements) == pc \in statements => field = "unset" /\ package = DefaultPath
Whole == DefaultPath \o CString(path)

CreationInv ==
    /\ TypeOK
    /\ Before({"alloc", "openlibs", "dostring", "set_lua_path", "concat", "setfield"})
    /\ pc = "alloc" => live = {} /\ depth = 0
    /\ pc \in {"openlibs", "dostring", "set_lua_path"} => live = {"ailua", "L"} /\ depth = 0
    /\ pc = "set_lua_path" => path \in Paths \ {NULL}
    /\ pc \in {"concat", "setfield"} =>
         /\ live = {"ailua", "L", "buffer"} /\ depth = 2
         /\ path \in Paths /\ path \notin {NULL, <<>>}
    /\ pc = "concat" => buffer = [i \in 1..BufferSize |-> Nul]
    /\ pc = "setfield" => CString(buffer) = Whole
    /\ pc = "error" => live \subseteq {"ailua", "L"}
    /\ pc \in {"failed", "closed"} => live = {}
    /\ pc = "done" =>
         /\ live = {"ailua", "L"} /\ field = "L" /\ depth = 0
         /\ package = IF path \in {NULL, <<>>} THEN DefaultPath ELSE Whole

(* A set of natural numbers has a least one.                                *)
LEMMA LeastElement ==
    ASSUME NEW T, T \subseteq Nat, T # {}
    PROVE  \E x \in T : \A y \in T : x <= y
<1> DEFINE R == OpToRel(<, Nat)
<1>1. IsWellFoundedOn(R, Nat)
  BY NatLessThanWellFounded
<1>2. \A x, y \in Nat : y < x => <<y, x>> \in R
  BY DEF OpToRel
<1> HIDE DEF R
<1>3. PICK x \in T : \A y \in T : ~(<<y, x>> \in R)
  BY <1>1, WFMin
<1>4. ASSUME NEW y \in T PROVE x <= y
  <2>1. x \in Nat /\ y \in Nat
    OBVIOUS
  <2>2. ~(y < x)
    BY <1>2, <1>3, <2>1
  <2> QED BY <2>1, <2>2
<1> QED BY <1>4

(* Every string of bytes ends somewhere as a string of C, at one place.     *)
LEMMA StringEnds ==
    ASSUME NEW s \in Seq(Byte)
    PROVE  \E k \in 0..Len(s) : Terminated(s, k)
<1>1. Len(s) \in Nat
  BY LenProperties
<1>2. CASE \A i \in 1..Len(s) : s[i] # Nul
  BY <1>1, <1>2 DEF Terminated
<1>3. CASE \E i \in 1..Len(s) : s[i] = Nul
  <2> DEFINE T == {i \in 1..Len(s) : s[i] = Nul}
  <2>0. T \subseteq Nat /\ T # {}
    BY <1>1, <1>3
  <2> HIDE DEF T
  <2>1. PICK i \in T : \A j \in T : i <= j
    BY <2>0, LeastElement
  <2> USE DEF T
  <2>2. i - 1 \in 0..Len(s) /\ i \in Nat
    BY <1>1, <2>1
  <2>3. \A j \in 1..i - 1 : s[j] # Nul
    BY <1>1, <2>1, <2>2
  <2>4. s[i - 1 + 1] = Nul
    BY <2>1, <2>2
  <2> QED BY <2>2, <2>3, <2>4 DEF Terminated
<1> QED BY <1>2, <1>3

LEMMA StringEndsOnce ==
    ASSUME NEW s \in Seq(Byte), NEW k \in 0..Len(s), Terminated(s, k)
    PROVE  CString(s) = SubSeq(s, 1, k)
<1>1. Len(s) \in Nat
  BY LenProperties
<1>2. \A m \in 0..Len(s) : Terminated(s, m) => m = k
  BY <1>1 DEF Terminated
<1>3. (CHOOSE m \in 0..Len(s) : Terminated(s, m)) = k
  BY <1>2
<1> QED BY <1>3 DEF CString

LEMMA StringBytes ==
    ASSUME NEW s \in Seq(Byte)
    PROVE  \E k \in 0..Len(s) :
             /\ Terminated(s, k)
             /\ CString(s) \in Seq(Byte) /\ Len(CString(s)) = k
             /\ \A i \in 1..k : CString(s)[i] = s[i]
<1>1. PICK k \in 0..Len(s) : Terminated(s, k)
  BY StringEnds
<1>2. Len(s) \in Nat /\ \A i \in 1..k : s[i] \in Byte
  BY LenProperties, ElementOfSeq
<1>3. CString(s) = SubSeq(s, 1, k)
  BY <1>1, StringEndsOnce
<1> QED BY <1>1, <1>2, <1>3, SubSeqProperties

(* strncpy changes n bytes, if the buffer has them.                         *)
LEMMA Strncpies ==
    ASSUME CreationAssumption, NEW buf \in Seq(Byte), NEW from \in Nat, NEW s \in Seq(Byte), NEW n \in Nat,
           from + n <= Len(buf)
    PROVE  /\ Strncpy(buf, from, s, n) \in Seq(Byte)
           /\ Len(Strncpy(buf, from, s, n)) = Len(buf)
           /\ \A i \in 1..Len(buf) :
                Strncpy(buf, from, s, n)[i] =
                  IF i > from /\ i <= from + n
                  THEN IF i - from <= Len(CString(s)) THEN CString(s)[i - from] ELSE Nul
                  ELSE buf[i]
<1> DEFINE c == CString(s)
           e(i) == IF i > from /\ i <= from + n
                   THEN IF i - from <= Len(c) THEN c[i - from] ELSE Nul
                   ELSE buf[i]
<1>1. Len(buf) \in Nat /\ c \in Seq(Byte) /\ Len(c) \in Nat /\ Nul \in Byte
  BY LenProperties, StringBytes DEF CreationAssumption
<1> HIDE DEF c
<1>2. \A i \in 1..Len(buf) : e(i) \in Byte
  BY <1>1, ElementOfSeq
<1>3. Strncpy(buf, from, s, n) = [i \in 1..Len(buf) |-> e(i)]
  <2>1. (IF from + n > Len(buf) THEN from + n ELSE Len(buf)) = Len(buf)
    BY <1>1
  <2>2. \A i \in 1..Len(buf) : i \in (from + 1)..(from + n) <=> i > from /\ i <= from + n
    BY <1>1
  <2> QED BY <1>1, <2>1, <2>2 DEF Strncpy, c
<1> HIDE DEF e
<1>4. [i \in 1..Len(buf) |-> e(i)] \in Seq(Byte)
  BY <1>1, <1>2, IsASeq
<1>5. Len([i \in 1..Len(buf) |-> e(i)]) = Len(buf)
  BY <1>1, <1>4, LenProperties
<1> QED BY <1>1, <1>3, <1>4, <1>5 DEF e, c

(* The default path, then the path up to a zero byte, then zeros: all of    *)
(* it fits into the buffer, whatever the path begins with.                 *)
LEMMA Concatenated ==
    ASSUME CreationAssumption, path \in Paths, path # <<>>, buffer = [i \in 1..BufferSize |-> Nul]
    PROVE  /\ BufferSize \in Nat \ {0} /\ Len(buffer) = BufferSize
           /\ Len(Concat) = BufferSize /\ Concat[BufferSize] = Nul
           /\ extra_len = 1 => CString(Concat) = Whole
<1> DEFINE D == Len(DefaultPath)
           n == Len(path)
           size == BufferSize
           b == Strncpy(buffer, 0, DefaultPath, D)
           sep == IF extra_len = 2 THEN Strncpy(b, D, <<Semicolon>>, 1) ELSE b
<1>1. /\ path \in Seq(Byte) /\ DefaultPath \in Seq(Byte) /\ Nul \in Byte
      /\ <<Semicolon>> \in Seq(Byte) /\ Len(<<Semicolon>>) = 1
  BY DEF CreationAssumption
<1>2. D \in Nat /\ n \in Nat \ {0} /\ extra_len \in {1, 2} /\ size = n + D + extra_len
  BY <1>1, EmptySeq, LenProperties DEF extra_len, BufferSize
<1>fit. /\ size \in Nat /\ extra_len \in Int /\ 0 + D <= size /\ D + 1 <= size
        /\ D + extra_len - 1 \in Nat /\ D + extra_len - 1 + n <= size
  BY <1>2
<1>3. buffer \in Seq(Byte) /\ Len(buffer) = size /\ \A i \in 1..size : buffer[i] = Nul
  <2>1. [i \in 1..size |-> Nul] \in Seq(Byte)
    BY <1>1, <1>2, IsASeq
  <2>2. Len([i \in 1..size |-> Nul]) = size
    BY <1>2, <2>1, LenProperties
  <2> QED BY <2>1, <2>2
<1>4. CString(DefaultPath) = DefaultPath
  <2>1. Terminated(DefaultPath, D) /\ D \in 0..D
    BY <1>2 DEF Terminated, CreationAssumption
  <2>2. CString(DefaultPath) = SubSeq(DefaultPath, 1, D)
    BY <1>1, <2>1, StringEndsOnce
  <2>3. SubSeq(DefaultPath, 1, D) = DefaultPath
    BY <1>1, <1>2
  <2> QED BY <2>2, <2>3
<1> HIDE DEF D, n, size
<1>5. /\ b \in Seq(Byte) /\ Len(b) = size
      /\ \A i \in 1..size : b[i] = IF i <= D THEN DefaultPath[i] ELSE Nul
  <2>1. 0 + D <= Len(buffer)
    BY ONLY <1>fit, <1>3
  <2>2. /\ b \in Seq(Byte) /\ Len(b) = Len(buffer)
        /\ \A i \in 1..Len(buffer) :
             b[i] = IF i > 0 /\ i <= 0 + D
                    THEN IF i - 0 <= Len(CString(DefaultPath)) THEN CString(DefaultPath)[i - 0] ELSE Nul
                    ELSE buffer[i]
    BY ONLY CreationAssumption, <1>1, <1>2, <1>3, <2>1, Strncpies
  <2> QED BY ONLY <1>2, <1>fit, <1>3, <1>4, <2>2 DEF D
<1> HIDE DEF b
<1>6. /\ sep \in Seq(Byte) /\ Len(sep) = size
      /\ \A i \in 1..D : sep[i] = DefaultPath[i]
      /\ \A i \in 1..size : i > D + extra_len - 1 => sep[i] = Nul
  <2>1. CASE extra_len = 1
    BY <1>2, <1>5, <2>1
  <2>2. CASE extra_len = 2
    <3>1. D + 1 <= Len(b)
      BY ONLY <1>fit, <1>5
    <3>2. /\ Strncpy(b, D, <<Semicolon>>, 1) \in Seq(Byte)
          /\ Len(Strncpy(b, D, <<Semicolon>>, 1)) = Len(b)
          /\ \A i \in 1..Len(b) :
               ~(i > D /\ i <= D + 1) => Strncpy(b, D, <<Semicolon>>, 1)[i] = b[i]
      <4> DEFINE t == <<Semicolon>>
      <4>1. t \in Seq(Byte) /\ 1 \in Nat /\ D \in Nat /\ b \in Seq(Byte)
        BY <1>1, <1>2, <1>5
      <4> HIDE DEF t
      <4>2. /\ Strncpy(b, D, t, 1) \in Seq(Byte)
            /\ Len(Strncpy(b, D, t, 1)) = Len(b)
            /\ \A i \in 1..Len(b) :
                 Strncpy(b, D, t, 1)[i] =
                   IF i > D /\ i <= D + 1
                   THEN IF i - D <= Len(CString(t)) THEN CString(t)[i - D] ELSE Nul
                   ELSE b[i]
        BY ONLY CreationAssumption, <3>1, <4>1, Strncpies
      <4> QED BY ONLY <4>2 DEF t
    <3> QED BY <1>2, <1>5, <2>2, <3>2
  <2> QED BY <1>2, <2>1, <2>2
<1> HIDE DEF sep
<1>7. Concat = Strncpy(sep, D + extra_len - 1, path, n)
  BY DEF Concat, b, sep, D, n
<1>8. /\ Concat \in Seq(Byte) /\ Len(Concat) = size
      /\ \A i \in 1..size :
           Concat[i] = IF i > D + extra_len - 1 /\ i <= D + extra_len - 1 + n
                       THEN IF i - (D + extra_len - 1) <= Len(CString(path))
                            THEN CString(path)[i - (D + extra_len - 1)] ELSE Nul
                       ELSE sep[i]
  <2>1. D + extra_len - 1 \in Nat /\ D + extra_len - 1 + n <= Len(sep)
    BY ONLY <1>fit, <1>6
  <2> DEFINE from == D + extra_len - 1
  <2> HIDE DEF from
  <2>2. /\ Strncpy(sep, from, path, n) \in Seq(Byte)
        /\ Len(Strncpy(sep, from, path, n)) = Len(sep)
        /\ \A i \in 1..Len(sep) :
             Strncpy(sep, from, path, n)[i] =
               IF i > from /\ i <= from + n
               THEN IF i - from <= Len(CString(path)) THEN CString(path)[i - from] ELSE Nul
               ELSE sep[i]
    <3>1. from \in Nat /\ from + n <= Len(sep)
      BY ONLY <2>1 DEF from
    <3>2. sep \in Seq(Byte) /\ path \in Seq(Byte) /\ n \in Nat
      BY ONLY <1>1, <1>2, <1>6
    <3> QED BY ONLY CreationAssumption, <3>1, <3>2, Strncpies
  <2> QED BY ONLY <1>6, <1>7, <2>2 DEF from
<1>9. Concat[size] = Nul
  BY <1>2, <1>6, <1>8
<1>10. ASSUME extra_len = 1 PROVE CString(Concat) = Whole
  <2>1. PICK k \in 0..n :
          /\ Terminated(path, k) /\ CString(path) \in Seq(Byte) /\ Len(CString(path)) = k
          /\ \A i \in 1..k : CString(path)[i] = path[i]
    BY <1>1, StringBytes DEF n
  <2>2. \A i \in 1..size : Concat[i] = IF i <= D THEN DefaultPath[i]
                                       ELSE IF i <= D + k THEN CString(path)[i - D] ELSE Nul
    BY <1>2, <1>6, <1>8, <1>10, <2>1
  <2>3. D + k \in 0..size /\ D + k + 1 \in 1..size
    BY <1>2, <1>10
  <2>4. Terminated(Concat, D + k)
    <3>1. \A i \in 1..D : DefaultPath[i] # Nul
      BY DEF CreationAssumption, D
    <3>2. \A i \in 1..k : CString(path)[i] # Nul
      BY <2>1 DEF Terminated
    <3>3. ASSUME NEW i \in 1..D + k PROVE Concat[i] # Nul
      <4>1. i \in 1..size
        BY <1>2, <2>3
      <4>2. CASE i <= D
        BY <1>2, <2>2, <3>1, <4>1, <4>2
      <4>3. CASE ~(i <= D)
        BY <1>2, <2>2, <3>2, <4>1, <4>3
      <4> QED BY <4>2, <4>3
    <3>4. Concat[D + k + 1] = Nul
      BY <1>2, <2>2, <2>3
    <3> QED BY <3>3, <3>4 DEF Terminated
  <2>5. CString(Concat) = SubSeq(Concat, 1, D + k)
    BY <1>8, <2>3, <2>4, StringEndsOnce
  <2>6. /\ SubSeq(Concat, 1, D + k) \in Seq(Byte) /\ Len(SubSeq(Concat, 1, D + k)) = D + k
        /\ \A i \in 1..D + k : SubSeq(Concat, 1, D + k)[i] = Concat[i]
    <3>1. \A i \in 1..D + k : Concat[i] \in Byte
      BY <1>2, <1>8, <2>3, ElementOfSeq
    <3> QED BY <1>2, <2>3, <3>1, SubSeqProperties
  <2>7. /\ Whole \in Seq(Byte) /\ Len(Whole) = D + k
        /\ \A i \in 1..D + k : Whole[i] = IF i <= D THEN DefaultPath[i] ELSE CString(path)[i - D]
    BY <1>1, <2>1, ConcatProperties DEF Whole, D
  <2>8. \A i \in 1..D + k : SubSeq(Concat, 1, D + k)[i] = Whole[i]
    BY <1>2, <2>2, <2>3, <2>6, <2>7
  <2>9. SubSeq(Concat, 1, D + k) = Whole
    BY <2>6, <2>7, <2>8, SeqEqual
  <2> QED BY <2>5, <2>9
<1> QED BY <1>2, <1>3, <1>8, <1>9, <1>10 DEF size

LEMMA CreationInvInit ==
    ASSUME CreationAssumption, Init
    PROVE  CreationInv
BY DEF Init, CreationInv, TypeOK, Before

(* Each statement of ailua_alloc, its error label, and ailua_free.          *)
LEMMA CreationInvNext ==
    ASSUME CreationAssumption, CreationInv, [Next]_vars
    PROVE  CreationInv'
<1>1. CASE Alloc
  BY <1>1 DEF Alloc, CreationInv, TypeOK, Before, Whole
<1>2. CASE OpenLibs
  BY <1>2 DEF OpenLibs, CreationInv, TypeOK, Before, Whole
<1>3. CASE DoString
  BY <1>3 DEF DoString, CreationInv, TypeOK, Before, Whole
<1>4. CASE GetPath
  <2>1. BufferSize' = BufferSize
    BY <1>4 DEF GetPath, BufferSize, extra_len
  <2>2. CASE path = <<>>
    BY <1>4, <2>2 DEF GetPath, CreationInv, TypeOK, Before
  <2>3. CASE path # <<>> /\ pc' = "concat"
    <3>1. /\ path \in Paths /\ path' = path /\ package' = package /\ field' = field
          /\ path # NULL /\ live' = {"ailua", "L", "buffer"} /\ depth' = 2
          /\ package = DefaultPath /\ field = "unset"
      BY <1>4, <2>3 DEF GetPath, CreationInv, Before
    <3>2. buffer' = [i \in 1..BufferSize' |-> Nul]
      BY <1>4, <2>1, <2>3 DEF GetPath
    <3> QED BY <2>3, <3>1, <3>2 DEF CreationInv, TypeOK, Before
  <2>4. CASE path # <<>> /\ pc' = "error"
    BY <1>4, <2>4 DEF GetPath, CreationInv, TypeOK, Before
  <2> QED BY <1>4, <2>2, <2>3, <2>4 DEF GetPath
<1>5. CASE WritePath
  <2>1. path \in Paths /\ path \notin {NULL, <<>>} /\ buffer = [i \in 1..BufferSize |-> Nul]
    BY <1>5 DEF WritePath, CreationInv
  <2>2. CASE extra_len = 2
    BY <1>5, <2>2 DEF WritePath, CreationInv, TypeOK, Before
  <2>3. CASE extra_len = 1
    <3>1. CString(Concat) = Whole
      BY <2>1, <2>3, Concatenated
    <3>2. CString(buffer') = Whole'
      BY <1>5, <2>3, <3>1 DEF WritePath, Whole
    <3> QED BY <1>5, <2>3, <3>2 DEF WritePath, CreationInv, TypeOK, Before
  <2> QED BY <2>2, <2>3 DEF extra_len
<1>6. CASE SetField
  <2>1. package' = Whole'
    BY <1>6 DEF SetField, CreationInv, Whole
  <2> QED BY <1>6, <2>1 DEF SetField, CreationInv, TypeOK, Before
<1>7. CASE Error
  BY <1>7 DEF Error, CreationInv, TypeOK, Before
<1>8. CASE Free
  BY <1>8 DEF Free, CreationInv, TypeOK, Before
<1>9. CASE UNCHANGED vars
  <2>1. Whole' = Whole /\ BufferSize' = BufferSize /\ CString(buffer)' = CString(buffer)
    BY <1>9 DEF vars, Whole, BufferSize, extra_len
  <2> QED BY <1>9, <2>1 DEF vars, CreationInv, TypeOK, Before
<1> QED BY <1>1, <1>2, <1>3, <1>4, <1>5, <1>6, <1>7, <1>8, <1>9 DEF Next

LEMMA CreationInvImplies ==
    ASSUME CreationAssumption, CreationInv
    PROVE  MachineCreated
<1>1. TypeOK /\ NothingLost /\ CleanStart
  BY DEF CreationInv, NothingLost, CleanStart
<1>2. PathAppended
  BY DEF CreationInv, PathAppended, Whole
<1>3. InsideBuffer
  <2>1. ASSUME pc = "concat"
        PROVE  path \in Paths /\ path # <<>> /\ buffer = [i \in 1..BufferSize |-> Nul]
    BY <2>1 DEF CreationInv
  <2> QED BY <2>1, Concatenated DEF InsideBuffer
<1> QED BY <1>1, <1>2, <1>3 DEF MachineCreated

(* Whatever the default path and the path are, and whichever allocation     *)
(* fails: what ailua_alloc gives is a whole machine with both paths, or     *)
(* nothing, and the buffer is not overrun.                                 *)
THEOREM CreationIsSafe ==
    ASSUME CreationAssumption
    PROVE  Spec => []MachineCreated
<1>1. Init => CreationInv
  BY CreationInvInit
<1>2. CreationInv /\ [Next]_vars => CreationInv'
  BY CreationInvNext
<1>3. CreationInv => MachineCreated
  BY CreationInvImplies
<1> QED BY <1>1, <1>2, <1>3, PTL DEF Spec
=============================================================================

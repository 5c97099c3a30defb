------------------------------- MODULE LuaBuffer -----------------------------
(***************************************************************************)
(* luaL_Buffer of lauxlib.c: a string that grows in an array of the C      *)
(* function that builds it, and then in a block of memory that a userdata  *)
(* on the Lua stack, the box, owns.  Building one may call a function that *)
(* builds another (string.gsub, table.concat with metamethods); memory may *)
(* run out anywhere.  At the end: the proof that no byte and no block is   *)
(* lost, whatever the sizes and wherever memory runs out.                  *)
(***************************************************************************)
EXTENDS Integers, Sequences, SequencesExt, FiniteSets, FiniteSetTheorems, TLAPS

CONSTANTS
    Character,        \* characters
    Additions,       \* strings that are added
    LUAL_BUFFERSIZE, \* characters in the array of a luaL_Buffer
    SIZE,            \* size_t counts modulo SIZE
    Blocks, Boxes,   \* bounds: memory blocks and userdata there are at a time
    MaxFrames,       \* bound: functions that build a string, each within another
    Initb,           \* the array initb of a luaL_Buffer
    NoBlock,         \* the NULL of a box that owns no block
    FAIL             \* the allocator fails

(* The length of every string is a size_t.                                  *)
BufferAssumption ==
    /\ SIZE \in Nat /\ LUAL_BUFFERSIZE \in 1..SIZE - 1
    /\ \A q \in Additions : q \in Seq(Character) /\ Len(q) < SIZE
    /\ \A block \in Blocks : block \notin {Initb, NoBlock, FAIL}

VARIABLES
    stack,   \* the Lua stack: boxes and strings
    boxes,   \* the block of each box, or NoBlock
    heap,    \* [size, bytes] of each block
    frames,  \* per function that builds a string: its luaL_Buffer B, and the
             \* height of the stack and what was added (for the properties)
    answers  \* <<what was added, what was left on the stack>> by the
             \* string that was just finished, or <<>>

bufferVars == <<stack, boxes, heap, frames, answers>>

Box(x) == <<"box", x>>
String(s) == <<"string", s>>
\* All that the functions below change.
now == [stack |-> stack, boxes |-> boxes, heap |-> heap, B |-> Last(frames), ok |-> TRUE]
Drop(f, k) == [x \in DOMAIN f \ {k} |-> f[x]]
Set(f, k, v) == [x \in DOMAIN f \cup {k} |-> IF x = k THEN v ELSE f[x]]
Left(a, b) == (a - b) % SIZE \* of size_t
Bytes(s) == IF s.B.b = Initb THEN s.B.initb ELSE s.heap[s.B.b].bytes

buffonstack(s) == s.B.b # Initb

-----------------------------------------------------------------------------
\* Memory is a block, maybe the old one, or FAIL.
resizebox(s, idx, newsize, mem) ==
    LET box == s.stack[Len(s.stack) + 1 + idx][2]
        old == s.boxes[box]
        bytes == IF old = NoBlock THEN <<>> ELSE s.heap[old].bytes
        free == Drop(s.heap, old)
    IN  IF newsize = 0 \/ mem = FAIL
        THEN [s EXCEPT !.heap = free, !.boxes[box] = NoBlock, !.ok = newsize = 0]
        ELSE [s EXCEPT !.heap = Set(free, mem, [size |-> newsize, bytes |-> bytes]),
                       !.boxes[box] = mem]

newbox(s, newsize, box, mem) ==
    resizebox([s EXCEPT !.stack = Append(@, Box(box)), !.boxes = Set(@, box, NoBlock)],
              -1, newsize, mem)

luaL_prepbuffsize(s, sz, box, mem) ==
    LET n == s.B.n
        double == (s.B.size * 2) % SIZE
        newsize == IF Left(double, n) < sz THEN (n + sz) % SIZE ELSE double
        larger == IF buffonstack(s) THEN resizebox(s, -1, newsize, mem)
                  ELSE LET new == newbox(s, newsize, box, mem)
                       IN  IF new.ok THEN [new EXCEPT !.heap[mem].bytes = Bytes(s)] ELSE new
    IN  IF Left(s.B.size, n) >= sz THEN s
        ELSE IF newsize < n \/ Left(newsize, n) < sz THEN [s EXCEPT !.ok = FALSE]
        ELSE IF larger.ok THEN [larger EXCEPT !.B.b = mem, !.B.size = newsize] ELSE larger

Written(s, p) ==
    LET at == [s EXCEPT !.B.n = @ + Len(p)]
    IN  IF buffonstack(s) THEN [at EXCEPT !.heap[s.B.b].bytes = @ \o p]
        ELSE [at EXCEPT !.B.initb = @ \o p]

luaL_addlstring(s, p, box, mem) ==
    LET room == luaL_prepbuffsize(s, Len(p), box, mem)
    IN  IF p = <<>> THEN s ELSE IF room.ok THEN Written(room, p) ELSE room

Removed(s, idx) == [s EXCEPT !.stack = RemoveAt(@, Len(@) + 1 + idx)]

\* The string on top of the stack goes below the box while it is added, and
\* the box may be made meanwhile.
luaL_addvalue(s, box, mem) ==
    LET top == Len(s.stack)
        p == s.stack[top][2]
        put == IF buffonstack(s)
               THEN [s EXCEPT !.stack = InsertAt(SubSeq(@, 1, top - 1), top - 1, String(p))] ELSE s
        added == luaL_addlstring(put, p, box, mem)
    IN  IF added.ok THEN Removed(added, IF buffonstack(added) THEN -2 ELSE -1) ELSE added

\* Mutant: the block stays, without its box.
luaL_pushresult_keep(s) ==
    LET push == [s EXCEPT !.stack = Append(@, String(Bytes(s)))]
    IN  IF buffonstack(s) THEN [Removed(push, -2) EXCEPT !.boxes[push.stack[Len(push.stack) - 1][2]] = NoBlock]
        ELSE push

luaL_pushresult(s) ==
    LET push == [s EXCEPT !.stack = Append(@, String(Bytes(s)))]
    IN  IF buffonstack(s) THEN Removed(resizebox(push, -2, 0, FAIL), -2) ELSE push

-----------------------------------------------------------------------------
luaL_buffinit(height) ==
    [b |-> Initb, n |-> 0, size |-> LUAL_BUFFERSIZE, initb |-> <<>>, base |-> height, added |-> <<>>]

Free(all, used) == all \ DOMAIN used

\* An error ends the functions down to one that is called in protected mode.
Unwind(s, fs, k) ==
    /\ stack' = SubSeq(s.stack, 1, fs[k].base)
    /\ frames' = SubSeq(fs, 1, k - 1)
    /\ boxes' = s.boxes
    /\ heap' = s.heap
    /\ answers' = <<>>

Noted(B, p) == [B EXCEPT !.added = @ \o p]

Become(s, p) ==
    IF s.ok THEN /\ stack' = s.stack
                 /\ boxes' = s.boxes
                 /\ heap' = s.heap
                 /\ frames' = [frames EXCEPT ![Len(frames)] = Noted(s.B, p)]
                 /\ answers' = <<>>
    ELSE \E k \in 1..Len(frames) : Unwind(s, frames, k)

\* A string that the function computed is on top of the stack.
AtValue == stack # <<>> /\ Last(stack)[1] = "string"

\* A function starts to build a string.
Start ==
    /\ Len(frames) < MaxFrames /\ ~AtValue
    /\ frames' = Append(frames, luaL_buffinit(Len(stack)))
    /\ answers' = <<>> /\ UNCHANGED <<stack, boxes, heap>>

\* A block for the box of the function that runs: the one it has may do.
Memory == {FAIL} \cup Free(Blocks, heap) \cup
          (IF Last(frames).b \in DOMAIN heap THEN {Last(frames).b} ELSE {})

AddString ==
    /\ frames # <<>> /\ ~AtValue
    /\ \E p \in Additions, box \in Free(Boxes, boxes), mem \in Memory :
          Become(luaL_addlstring(now, p, box, mem), p)

Compute ==
    /\ frames # <<>> /\ ~AtValue
    /\ \E p \in Additions : stack' = Append(stack, String(p))
    /\ answers' = <<>>
    /\ UNCHANGED <<boxes, heap, frames>>

AddValue ==
    /\ frames # <<>> /\ AtValue
    /\ \E box \in Free(Boxes, boxes), mem \in Memory :
          Become(luaL_addvalue(now, box, mem), Last(stack)[2])

\* The string is ready; a function that called for it finds it on top of the
\* stack, as if it had computed it.
Finish ==
    LET s == luaL_pushresult(now)
        result == SubSeq(s.stack, Last(frames).base + 1, Len(s.stack))
    IN  /\ frames # <<>> /\ ~AtValue
        /\ answers' = <<Last(frames).added, result>>
        /\ frames' = SubSeq(frames, 1, Len(frames) - 1)
        /\ stack' = IF Len(frames) = 1 THEN <<>> ELSE s.stack
        /\ boxes' = s.boxes
        /\ heap' = s.heap

\* Memory runs out where the result is made, or the function fails otherwise.
Error == frames # <<>> /\ \E k \in 1..Len(frames) : Unwind(now, frames, k)

\* The collector finalizes a box that no stack slot refers to.
boxgc ==
    \E x \in DOMAIN boxes :
        /\ Box(x) \notin ToSet(stack)
        /\ heap' = Drop(heap, boxes[x])
        /\ boxes' = Drop(boxes, x)
        /\ UNCHANGED <<stack, frames, answers>>

BufferInit == stack = <<>> /\ boxes = <<>> /\ heap = <<>> /\ frames = <<>> /\ answers = <<>>
BufferNext == Start \/ AddString \/ Compute \/ AddValue \/ Finish \/ Error \/ boxgc
BufferSpec == BufferInit /\ [][BufferNext]_bufferVars

-----------------------------------------------------------------------------
\* Where the bytes of a buffer are.
BytesOf(f) == IF f.b = Initb THEN f.initb ELSE heap[f.b].bytes

\* A buffer holds what was added to it, in order, and so does the string
\* that is made of it, which is all that it leaves on the stack.
NothingLost ==
    /\ \A k \in 1..Len(frames) : BytesOf(frames[k]) = frames[k].added
    /\ answers # <<>> => answers[2] = <<String(answers[1])>>

\* A buffer never holds more than the memory it stands in has room for.
InBounds ==
    \A k \in 1..Len(frames) :
        LET f == frames[k]
        IN  f.n = Len(BytesOf(f)) /\ f.n <= f.size
            /\ f.size = IF f.b = Initb THEN LUAL_BUFFERSIZE ELSE heap[f.b].size

\* Between two calls the stack of a function that builds a string holds its
\* box and nothing else but a value to be added, where the next call looks
\* for them.
BoxInPlace ==
    \A k \in 1..Len(frames) :
        LET top == IF k = Len(frames) THEN Len(stack) ELSE frames[k + 1].base
            own == SubSeq(stack, frames[k].base + 1, top)
            held == IF k = Len(frames) /\ AtValue THEN SubSeq(own, 1, Len(own) - 1) ELSE own
        IN  IF frames[k].b = Initb THEN held = <<>>
            ELSE Len(held) = 1 /\ boxes[held[1][2]] = frames[k].b

\* Whatever fails, each block has one box, which frees it: none is lost and
\* none freed twice.
EachBlockHasItsBox ==
    \A m \in DOMAIN heap : Cardinality({x \in DOMAIN boxes : boxes[x] = m}) = 1

(* A buffer loses no byte, writes none outside its memory, finds its box    *)
(* where it left it, and loses or frees twice no block of memory, whatever *)
(* fails and whoever reenters.                                             *)
BuffersKept == NothingLost /\ InBounds /\ BoxInPlace /\ EachBlockHasItsBox

-----------------------------------------------------------------------------
(* The inductive invariant.  Every block has one box.                       *)
Item == {<<"box", x>> : x \in Boxes} \cup {<<"string", q>> : q \in Seq(Character)}
luaL_Buffer ==
    [b : Blocks \cup {Initb}, n : Nat, size : 0..SIZE - 1, initb : Seq(Character), base : Nat, added : Seq(Character)]

Owned(bx, hp) ==
    /\ DOMAIN bx \subseteq Boxes /\ DOMAIN hp \subseteq Blocks
    /\ \A x \in DOMAIN bx : bx[x] \in DOMAIN hp \cup {NoBlock}
    /\ \A mem \in DOMAIN hp : hp[mem] \in [size : Nat, bytes : Seq(Character)]
    /\ \A x, y \in DOMAIN bx : bx[x] = bx[y] /\ bx[x] # NoBlock => x = y
    /\ \A mem \in DOMAIN hp : \E x \in DOMAIN bx : bx[x] = mem

\* The stack is made of items; the boxes on it are not finalized.
Stacked(st, bx) ==
    /\ st \in Seq(Item)
    /\ \A k \in 1..Len(st) : st[k][1] = "box" => st[k][2] \in DOMAIN bx

\* A buffer holds what was added, in the array or in the block of its box.
Holds(f, st, bx, hp) ==
    /\ f \in luaL_Buffer /\ f.n = Len(f.added) /\ f.n <= f.size
    /\ f.b = Initb => f.initb = f.added /\ f.size = LUAL_BUFFERSIZE
    /\ f.b # Initb =>
        /\ f.b \in DOMAIN hp /\ hp[f.b].bytes = f.added /\ hp[f.b].size = f.size
        /\ f.base + 1 <= Len(st)
        /\ \E x \in DOMAIN bx : st[f.base + 1] = Box(x) /\ bx[x] = f.b
Height(f) == IF f.b = Initb THEN f.base ELSE f.base + 1

\* Functions that build strings stand one above the other.
Nested(st, fs) ==
    /\ \A k, l \in 1..Len(fs) : fs[k].b = fs[l].b /\ fs[k].b # Initb => k = l
    /\ \A k, l \in 1..Len(fs) : k < l => Height(fs[k]) <= fs[l].base
    /\ \A k \in 1..Len(fs) - 1 : Height(fs[k]) = fs[k + 1].base
    /\ Len(fs) > 0 => fs[1].base = 0
    /\ \A k \in 1..Len(fs) : fs[k].base > 0 => st[fs[k].base][1] = "box"

Valued == Len(stack) > 0 /\ stack[Len(stack)][1] = "string"
BufferInv ==
    /\ Stacked(stack, boxes) /\ Owned(boxes, heap)
    /\ frames \in Seq(luaL_Buffer)
    /\ \A k \in 1..Len(frames) : Holds(frames[k], stack, boxes, heap)
    /\ Nested(stack, frames)
    /\ Len(stack) = (IF Len(frames) = 0 THEN 0 ELSE Height(frames[Len(frames)]) + (IF Valued THEN 1 ELSE 0))
    /\ answers # <<>> => answers[2] = <<String(answers[1])>>

-----------------------------------------------------------------------------
(* What a function does to the memory leaves what lies below its buffer as  *)
(* it is: b is the block of the buffer, base the height it began at.       *)
Safe(st, bx, hp, s, base, b) ==
    /\ Stacked(s.stack, s.boxes) /\ Owned(s.boxes, s.heap)
    /\ base <= Len(st) /\ base <= Len(s.stack) /\ \A k \in 1..base : s.stack[k] = st[k]
    /\ \A mem \in DOMAIN hp \ {b} : mem \in DOMAIN s.heap /\ s.heap[mem] = hp[mem]
    /\ \A x \in DOMAIN bx : x \in DOMAIN s.boxes /\ (bx[x] \notin {b, NoBlock} => s.boxes[x] = bx[x])

LEMMA Fields ==
    ASSUME BufferAssumption, NEW f \in luaL_Buffer
    PROVE  /\ f.b \in Blocks \cup {Initb} /\ f.n \in Nat /\ f.size \in 0..SIZE - 1 /\ f.base \in Nat
           /\ f.initb \in Seq(Character) /\ f.added \in Seq(Character)
           /\ Height(f) \in Nat /\ f.base <= Height(f) /\ Height(f) <= f.base + 1
           /\ f.b # Initb => f.b # NoBlock /\ f.b # FAIL
  BY DEF luaL_Buffer, Height, BufferAssumption

(* The buffers of the functions that called are kept.                       *)
LEMMA SafeHolds ==
    ASSUME BufferAssumption, NEW st, NEW bx, NEW hp, NEW s, NEW base \in Nat, NEW b,
           Safe(st, bx, hp, s, base, b),
           NEW f, Holds(f, st, bx, hp), Height(f) <= base, f.b # b
    PROVE  Holds(f, s.stack, s.boxes, s.heap)
  <1>1. f \in luaL_Buffer /\ f.n = Len(f.added) /\ f.n <= f.size
        /\ (f.b = Initb => f.initb = f.added /\ f.size = LUAL_BUFFERSIZE)
    BY DEF Holds
  <1>2. ASSUME f.b # Initb
        PROVE  /\ f.b \in DOMAIN s.heap /\ s.heap[f.b].bytes = f.added /\ s.heap[f.b].size = f.size
               /\ f.base + 1 <= Len(s.stack)
               /\ \E x \in DOMAIN s.boxes : s.stack[f.base + 1] = Box(x) /\ s.boxes[x] = f.b
    <2>1. f.b \in DOMAIN hp /\ hp[f.b].bytes = f.added /\ hp[f.b].size = f.size
      BY <1>2 DEF Holds
    <2>2. PICK x \in DOMAIN bx : st[f.base + 1] = Box(x) /\ bx[x] = f.b
      BY <1>2 DEF Holds
    <2>3. f.b \in Blocks /\ f.b # NoBlock
      BY <1>1, <1>2 DEF luaL_Buffer, BufferAssumption
    <2>4. x \in DOMAIN s.boxes /\ s.boxes[x] = f.b
      BY <2>2, <2>3 DEF Safe
    <2>5. f.base + 1 \in 1..base /\ Len(s.stack) \in Nat
      BY <1>1, <1>2 DEF Height, luaL_Buffer, Safe, Stacked
    <2>6. s.stack[f.base + 1] = Box(x) /\ f.base + 1 <= Len(s.stack)
      BY <2>5, <2>2 DEF Safe
    <2> QED BY <2>1, <2>4, <2>6 DEF Safe
  <1> QED BY <1>1, <1>2 DEF Holds

(* What functions that called have built does not change with what lies     *)
(* above it on the stack.                                                  *)
LEMMA Below ==
    ASSUME BufferAssumption, BufferInv, NEW k \in 1..Len(frames), NEW s,
           Safe(stack, boxes, heap, s, frames[k].base, frames[Len(frames)].b),
           NEW fs, fs = SubSeq(frames, 1, k - 1)
    PROVE  /\ fs \in Seq(luaL_Buffer) /\ Len(fs) = k - 1
           /\ \A l \in 1..k - 1 : Holds(fs[l], s.stack, s.boxes, s.heap)
           /\ Nested(s.stack, fs)
           /\ k > 1 => frames[k].base = Height(fs[k - 1])
           /\ k = 1 => frames[k].base = 0
           /\ frames[k].base \in Nat
           /\ frames[k].base > 0 => s.stack[frames[k].base][1] = "box"
  <1> DEFINE n == Len(frames)
             top == frames[n]
  <1>1. n \in Nat /\ k \in 1..n /\ frames \in Seq(luaL_Buffer) /\ n \in 1..n /\ top \in luaL_Buffer
    BY DEF BufferInv
  <1>2. \A l \in 1..n : frames[l] \in luaL_Buffer /\ frames[l].base \in Nat /\ Height(frames[l]) \in Nat
                        /\ frames[l].base <= Height(frames[l])
    <2>1. \A l \in 1..n : frames[l] \in luaL_Buffer
      BY <1>1
    <2> QED BY <2>1, Fields
  <1>3. /\ fs \in Seq(luaL_Buffer) /\ Len(fs) = k - 1
        /\ \A l \in 1..k - 1 : fs[l] = frames[l]
    BY <1>1
  <1>4. \A l \in 1..k - 1 : l \in 1..n /\ l < n /\ l < k
    BY <1>1
  <1>5. \A l \in 1..k - 1 : Holds(frames[l], s.stack, s.boxes, s.heap)
    <2> TAKE l \in 1..k - 1
    <2>1. Holds(frames[l], stack, boxes, heap)
      BY <1>4 DEF BufferInv
    <2>2. frames[l].b # Initb => frames[l].b # top.b
      BY <1>1, <1>4 DEF BufferInv, Nested
    <2>3. Height(frames[l]) <= frames[k].base
      BY <1>4, <1>1 DEF BufferInv, Nested
    <2>4. CASE frames[l].b # top.b
      BY <2>1, <2>3, <2>4, <1>2, SafeHolds
    <2>5. CASE frames[l].b = Initb
      BY <2>1, <2>5 DEF Holds
    <2> QED BY <2>2, <2>4, <2>5
  <1>6. \A l \in 1..k : frames[l].base > 0 => s.stack[frames[l].base][1] = "box"
    <2> SUFFICES ASSUME NEW l \in 1..k, frames[l].base > 0 PROVE s.stack[frames[l].base][1] = "box"
      OBVIOUS
    <2>1. l \in 1..n
      BY <1>1
    <2>2. frames[l].base <= frames[k].base
      <3>1. CASE l = k
        BY <3>1, <2>1, <1>2
      <3>2. CASE l < k
        <4>1. Height(frames[l]) <= frames[k].base
          BY <3>2, <2>1 DEF BufferInv, Nested
        <4> QED BY <4>1, <2>1, <1>2
      <3> QED BY <3>1, <3>2, <1>1
    <2>3. stack[frames[l].base][1] = "box" /\ frames[l].base \in 1..frames[k].base
      BY <2>1, <2>2, <1>2 DEF BufferInv, Nested
    <2> QED BY <2>3 DEF Safe
  <1>7. Nested(s.stack, fs)
    <2>1. Nested(stack, frames)
      BY DEF BufferInv
    <2>2. \A l \in 1..k - 1 : l \in 1..k
      BY <1>1
    <2>3. k - 1 > 0 => fs[1] = frames[1] /\ n > 0
      BY <1>1, <1>3
    <2>4. \A l \in 1..(k - 1) - 1 : l \in 1..k - 1 /\ l + 1 \in 1..k - 1 /\ l \in 1..n - 1
      BY <1>1
    <2> HIDE DEF n, top
    <2> QED BY <2>1, <2>2, <2>3, <2>4, <1>1, <1>3, <1>4, <1>6 DEF Nested, n
  <1>8. CASE k = 1
    <2>1. frames[k].base = 0
      BY <1>8, <1>1 DEF BufferInv, Nested
    <2> QED BY <2>1, <1>8, <1>3, <1>5, <1>7
  <1>9. CASE k > 1
    <2>1. k - 1 \in 1..k - 1 /\ k - 1 \in 1..n - 1 /\ (k - 1) + 1 = k
      BY <1>9, <1>1
    <2>2. Height(frames[k - 1]) = frames[k].base
      BY <2>1 DEF BufferInv, Nested
    <2>3. k \in 1..k
      BY <1>9
    <2> QED BY <2>1, <2>2, <2>3, <1>9, <1>1, <1>2, <1>3, <1>5, <1>6, <1>7
  <1>10. k = 1 \/ k > 1
    BY <1>1
  <1> HIDE DEF n, top
  <1> QED BY <1>8, <1>9, <1>10

(* An error leaves the buffers below the function that is called in         *)
(* protected mode.                                                         *)
LEMMA UnwindKeeps ==
    ASSUME BufferAssumption, BufferInv, NEW s, NEW k \in 1..Len(frames),
           Safe(stack, boxes, heap, s, frames[Len(frames)].base, frames[Len(frames)].b),
           Unwind(s, frames, k)
    PROVE  BufferInv'
  <1> DEFINE n == Len(frames)
             top == frames[n]
             base == frames[k].base
             next == [stack |-> stack', boxes |-> boxes', heap |-> heap']
  <1>1. n \in Nat /\ k \in 1..n /\ frames \in Seq(luaL_Buffer) /\ n \in 1..n /\ top \in luaL_Buffer
        /\ frames[k] \in luaL_Buffer
    BY DEF BufferInv
  <1>2. /\ stack' = SubSeq(s.stack, 1, base) /\ frames' = SubSeq(frames, 1, k - 1)
        /\ boxes' = s.boxes /\ heap' = s.heap /\ answers' = <<>>
    BY DEF Unwind
  <1>3. base \in Nat /\ top.base \in Nat /\ base <= top.base
    <2>1. base \in Nat /\ Height(frames[k]) \in Nat /\ base <= Height(frames[k]) /\ top.base \in Nat
      BY <1>1, Fields
    <2>2. k < n => Height(frames[k]) <= top.base
      BY <1>1 DEF BufferInv, Nested
    <2> HIDE DEF base
    <2>3. CASE k < n
      BY <2>1, <2>2, <2>3
    <2>4. CASE k = n
      BY <2>1, <2>4 DEF base
    <2> QED BY <2>3, <2>4, <1>1
  <1>4. s.stack \in Seq(Item) /\ Len(s.stack) \in Nat /\ top.base <= Len(s.stack)
    BY DEF Safe, Stacked
  <1> HIDE DEF top, base
  <1>5. /\ stack' \in Seq(Item) /\ Len(stack') = base /\ \A l \in 1..base : stack'[l] = s.stack[l]
    <2>1. base \in 0..Len(s.stack)
      BY <1>3, <1>4
    <2> QED BY <2>1, <1>2, <1>4
  <1>6. Stacked(stack', boxes') /\ Owned(boxes', heap')
    <2>1. \A l \in 1..base : l \in 1..Len(s.stack)
      BY <1>3, <1>4
    <2> QED BY <2>1, <1>2, <1>3, <1>5 DEF Safe, Stacked
  <1>7. Safe(stack, boxes, heap, next, frames[k].base, frames[Len(frames)].b)
    <2>1. Safe(stack, boxes, heap, s, top.base, top.b)
      BY DEF top
    <2>2. base <= Len(stack) /\ \A l \in 1..base : l \in 1..top.base /\ l \in 1..base
      BY <2>1, <1>3 DEF Safe, BufferInv, Stacked
    <2>3. \A l \in 1..base : stack'[l] = stack[l]
      BY <2>1, <2>2, <1>5 DEF Safe
    <2>4. Safe(stack, boxes, heap, next, base, top.b)
      BY <2>1, <2>2, <2>3, <1>2, <1>3, <1>5, <1>6 DEF Safe
    <2> QED BY <2>4 DEF base, top
  <1>8. /\ frames' \in Seq(luaL_Buffer) /\ Len(frames') = k - 1
        /\ \A l \in 1..k - 1 : Holds(frames'[l], stack', boxes', heap')
        /\ Nested(stack', frames')
        /\ k > 1 => base = Height(frames'[k - 1])
        /\ k = 1 => base = 0
        /\ base > 0 => stack'[base][1] = "box"
    <2>1. /\ frames' \in Seq(luaL_Buffer) /\ Len(frames') = k - 1
          /\ \A l \in 1..k - 1 : Holds(frames'[l], next.stack, next.boxes, next.heap)
          /\ Nested(next.stack, frames')
          /\ k > 1 => frames[k].base = Height(frames'[k - 1])
          /\ k = 1 => frames[k].base = 0
          /\ frames[k].base > 0 => next.stack[frames[k].base][1] = "box"
      <3> HIDE DEF next
      <3> QED BY <1>2, <1>7, Below
    <2> QED BY <2>1 DEF base
  <1>9. ~Valued'
    BY <1>3, <1>5, <1>8 DEF Valued
  <1>10. Len(stack') = (IF Len(frames') = 0 THEN 0 ELSE Height(frames'[Len(frames')]) + (IF Valued' THEN 1 ELSE 0))
    <2>1. CASE k = 1
      BY <2>1, <1>5, <1>8
    <2>2. CASE k > 1
      BY <2>2, <1>3, <1>5, <1>8, <1>9
    <2> QED BY <2>1, <2>2, <1>1
  <1> QED BY <1>2, <1>6, <1>8, <1>10 DEF BufferInv

IsState(s) == s = [stack |-> s.stack, boxes |-> s.boxes, heap |-> s.heap, B |-> s.B, ok |-> s.ok]

Resized(r, s, x) ==
    /\ IsState(r) /\ r.stack = s.stack /\ r.B = s.B
    /\ Owned(r.boxes, r.heap) /\ DOMAIN r.boxes = DOMAIN s.boxes
    /\ \A y \in DOMAIN s.boxes \ {x} : r.boxes[y] = s.boxes[y]
    /\ \A block \in DOMAIN s.heap \ {s.boxes[x]} :
         block \in DOMAIN r.heap /\ r.heap[block] = s.heap[block]

(* A box gets another block, or none; all else stays.                       *)
LEMMA ResizeKeeps ==
    ASSUME BufferAssumption, NEW s, IsState(s), Owned(s.boxes, s.heap),
           NEW idx \in Int, NEW x \in DOMAIN s.boxes, s.stack[Len(s.stack) + 1 + idx] = Box(x),
           NEW newsize \in Nat,
           NEW mem \in {FAIL} \cup (Blocks \ DOMAIN s.heap) \cup ({s.boxes[x]} \ {NoBlock}),
           NEW r, r = resizebox(s, idx, newsize, mem)
    PROVE  /\ Resized(r, s, x)
           /\ (newsize = 0 \/ mem = FAIL) => (r.ok <=> newsize = 0)
           /\ (newsize # 0 /\ mem # FAIL) =>
                /\ (r.ok <=> s.ok) /\ r.boxes[x] = mem /\ mem \in DOMAIN r.heap
                /\ r.heap[mem] = [size |-> newsize,
                                  bytes |-> IF s.boxes[x] = NoBlock THEN <<>> ELSE s.heap[s.boxes[x]].bytes]
  <1> DEFINE old == s.boxes[x]
             bytes == IF old = NoBlock THEN <<>> ELSE s.heap[old].bytes
             free == Drop(s.heap, old)
  <1>1. s.stack[Len(s.stack) + 1 + idx][2] = x
    BY DEF Box
  <1>2. r = IF newsize = 0 \/ mem = FAIL
            THEN [s EXCEPT !.heap = free, !.boxes[x] = NoBlock, !.ok = newsize = 0]
            ELSE [s EXCEPT !.heap = Set(free, mem, [size |-> newsize, bytes |-> bytes]), !.boxes[x] = mem]
    BY <1>1 DEF resizebox
  <1>3. /\ DOMAIN free = DOMAIN s.heap \ {old}
        /\ \A block \in DOMAIN s.heap \ {old} : free[block] = s.heap[block]
    BY DEF Drop
  <1>4. bytes \in Seq(Character)
    BY DEF Owned
  <1>5. \A y \in DOMAIN s.boxes \ {x} : s.boxes[y] # old \/ old = NoBlock
    BY DEF Owned
  <1>6. \A block \in DOMAIN s.heap : block \in Blocks /\ block # NoBlock /\ block # FAIL
    BY DEF Owned, BufferAssumption
  <1> HIDE DEF free, bytes
  <1>7. CASE newsize = 0 \/ mem = FAIL
    <2>1. /\ r.stack = s.stack /\ r.B = s.B /\ r.heap = free /\ (r.ok <=> newsize = 0)
          /\ r.boxes = [s.boxes EXCEPT ![x] = NoBlock]
          /\ IsState(r)
      BY <1>2, <1>7 DEF IsState
    <2>2. /\ DOMAIN r.boxes = DOMAIN s.boxes /\ r.boxes[x] = NoBlock
          /\ \A y \in DOMAIN s.boxes \ {x} : r.boxes[y] = s.boxes[y]
      BY <2>1
    <2>3. Owned(r.boxes, r.heap)
      <3>1. \A y \in DOMAIN r.boxes : r.boxes[y] \in DOMAIN r.heap \cup {NoBlock}
        BY <2>1, <2>2, <1>3, <1>5 DEF Owned
      <3>2. \A block \in DOMAIN r.heap : \E y \in DOMAIN r.boxes : r.boxes[y] = block
        <4> TAKE block \in DOMAIN r.heap
        <4>1. PICK y \in DOMAIN s.boxes : s.boxes[y] = block
          BY <2>1, <1>3 DEF Owned
        <4>2. y # x
          BY <4>1, <2>1, <1>3
        <4> QED BY <4>1, <4>2, <2>2
      <3>3. \A y, z \in DOMAIN r.boxes : r.boxes[y] = r.boxes[z] /\ r.boxes[y] # NoBlock => y = z
        BY <2>2 DEF Owned
      <3> QED BY <3>1, <3>2, <3>3, <2>1, <2>2, <1>3 DEF Owned
    <2> QED BY <2>1, <2>2, <2>3, <1>3, <1>7 DEF Resized
  <1>8. CASE newsize # 0 /\ mem # FAIL
    <2>1. /\ r.stack = s.stack /\ r.B = s.B /\ r.ok = s.ok
          /\ r.heap = Set(free, mem, [size |-> newsize, bytes |-> bytes])
          /\ r.boxes = [s.boxes EXCEPT ![x] = mem]
          /\ IsState(r)
      BY <1>2, <1>8 DEF IsState
    <2>2. /\ DOMAIN r.boxes = DOMAIN s.boxes /\ r.boxes[x] = mem
          /\ \A y \in DOMAIN s.boxes \ {x} : r.boxes[y] = s.boxes[y]
      BY <2>1
    <2>3. /\ DOMAIN r.heap = DOMAIN free \cup {mem}
          /\ r.heap[mem] = [size |-> newsize, bytes |-> bytes]
          /\ \A block \in DOMAIN free \ {mem} : r.heap[block] = s.heap[block]
      BY <2>1, <1>3 DEF Set
    <2>4. mem \in Blocks /\ mem # NoBlock /\ (mem \notin DOMAIN s.heap \/ mem = old)
      BY <1>8, <1>6 DEF Owned, BufferAssumption
    <2>5. \A y \in DOMAIN s.boxes \ {x} : s.boxes[y] # mem
      BY <2>4, <1>5 DEF Owned
    <2>6. Owned(r.boxes, r.heap)
      <3>1. \A y \in DOMAIN r.boxes : r.boxes[y] \in DOMAIN r.heap \cup {NoBlock}
        BY <2>2, <2>3, <1>3, <1>5 DEF Owned
      <3>2. \A block \in DOMAIN r.heap : \E y \in DOMAIN r.boxes : r.boxes[y] = block
        <4> TAKE block \in DOMAIN r.heap
        <4>1. CASE block = mem
          BY <4>1, <2>2
        <4>2. CASE block # mem
          <5>1. PICK y \in DOMAIN s.boxes : s.boxes[y] = block
            BY <4>2, <2>3, <1>3 DEF Owned
          <5>2. y # x
            BY <5>1, <4>2, <2>3, <1>3
          <5> QED BY <5>1, <5>2, <2>2
        <4> QED BY <4>1, <4>2
      <3>3. \A y, z \in DOMAIN r.boxes : r.boxes[y] = r.boxes[z] /\ r.boxes[y] # NoBlock => y = z
        BY <2>2, <2>5 DEF Owned
      <3>4. \A block \in DOMAIN r.heap : r.heap[block] \in [size : Nat, bytes : Seq(Character)]
        BY <2>3, <1>3, <1>4 DEF Owned
      <3> QED BY <3>1, <3>2, <3>3, <3>4, <2>2, <2>3, <2>4, <1>3 DEF Owned
    <2>7. \A block \in DOMAIN s.heap \ {old} : block \in DOMAIN r.heap /\ r.heap[block] = s.heap[block]
      BY <2>3, <2>4, <1>3
    <2> QED BY <2>1, <2>2, <2>3, <2>6, <2>7, <1>8 DEF bytes, Resized
  <1> QED BY <1>7, <1>8

(* Where there is room, or the sizes do not overflow, what is added fits.   *)
LEMMA SizesAdd ==
    ASSUME BufferAssumption, NEW size \in 0..SIZE - 1, NEW n \in Nat, n <= size, NEW sz \in Nat
    PROVE  Left(size, n) >= sz => n + sz <= size
  <1>1. size - n \in 0..SIZE - 1 /\ SIZE \in Nat \ {0}
    BY DEF BufferAssumption
  <1>2. (size - n) % SIZE = size - n
    BY <1>1
  <1> QED BY <1>2 DEF Left
LEMMA SizesWrap ==
    ASSUME BufferAssumption, NEW k \in Nat
    PROVE  k % SIZE \in 0..SIZE - 1
  BY DEF BufferAssumption

(* The buffer f can be added to: its box, if it has one, is on top.         *)
Ready(s, f, st, bx, hp) ==
    /\ IsState(s) /\ s.boxes = bx /\ s.heap = hp /\ s.B = f /\ s.ok
    /\ Stacked(s.stack, bx) /\ Owned(bx, hp) /\ Holds(f, st, bx, hp)
    /\ f.base <= Len(st) /\ f.base <= Len(s.stack) /\ \A k \in 1..f.base : s.stack[k] = st[k]
    /\ f.b # Initb => \E x \in DOMAIN bx : s.stack[Len(s.stack)] = Box(x) /\ bx[x] = f.b

(* The buffer of r is where it was, or in a block of its own, and holds     *)
(* bytes; a box that it needed is on top of what was there.                *)
Buffered(r, f, s, bx, hp, box, bytes) ==
    /\ IsState(r) /\ r.B \in luaL_Buffer
    /\ r.B.base = f.base /\ r.B.added = f.added
    /\ r.B.b \in {f.b} \cup (Blocks \ DOMAIN hp)
    /\ r.B.b = Initb =>
         f.b = Initb /\ r.stack = s.stack /\ r.B.initb = bytes /\ r.B.size = LUAL_BUFFERSIZE
    /\ r.B.b # Initb =>
         /\ r.B.b \in DOMAIN r.heap /\ r.heap[r.B.b] = [size |-> r.B.size, bytes |-> bytes]
         /\ r.stack = IF f.b = Initb THEN Append(s.stack, Box(box)) ELSE s.stack
         /\ \E x \in DOMAIN r.boxes : r.stack[Len(r.stack)] = Box(x) /\ r.boxes[x] = r.B.b

(* What is written to another block than the buffer's goes unnoticed.       *)
LEMMA ReadySafe ==
    ASSUME BufferAssumption, NEW s, NEW f, NEW st, NEW bx, NEW hp, Ready(s, f, st, bx, hp)
    PROVE  Safe(st, bx, hp, s, f.base, f.b) /\ Safe(st, bx, hp, [s EXCEPT !.ok = FALSE], f.base, f.b)
           /\ f \in luaL_Buffer
  <1>1. /\ [s EXCEPT !.ok = FALSE].stack = s.stack /\ [s EXCEPT !.ok = FALSE].boxes = s.boxes
        /\ [s EXCEPT !.ok = FALSE].heap = s.heap
    BY DEF Ready, IsState
  <1> QED BY <1>1 DEF Ready, Safe, Holds

(* The memory of a buffer grows (luaL_prepbuffsize).                        *)
LEMMA PrepKeeps ==
    ASSUME BufferAssumption, NEW s, NEW f, NEW st, NEW bx, NEW hp, Ready(s, f, st, bx, hp),
           NEW sz \in Nat \ {0}, NEW box \in Boxes \ DOMAIN bx,
           NEW mem \in {FAIL} \cup (Blocks \ DOMAIN hp) \cup ({f.b} \cap DOMAIN hp)
    PROVE  LET r == luaL_prepbuffsize(s, sz, box, mem)
           IN  /\ Safe(st, bx, hp, r, f.base, f.b)
               /\ r.ok => /\ Buffered(r, f, s, bx, hp, box, f.added)
                          /\ r.B.n = f.n /\ f.n + sz <= r.B.size
  <1> DEFINE r == luaL_prepbuffsize(s, sz, box, mem)
             n == f.n
             double == (f.size * 2) % SIZE
             newsize == IF Left(double, n) < sz THEN (n + sz) % SIZE ELSE double
             new == newbox(s, newsize, box, mem)
             larger == IF buffonstack(s) THEN resizebox(s, -1, newsize, mem)
                       ELSE IF new.ok THEN [new EXCEPT !.heap[mem].bytes = Bytes(s)] ELSE new
  <1>1. /\ f \in luaL_Buffer /\ n \in Nat /\ f.size \in 0..SIZE - 1 /\ n <= f.size /\ f.added \in Seq(Character)
        /\ s.B = f /\ Safe(st, bx, hp, s, f.base, f.b) /\ n = Len(f.added)
        /\ Safe(st, bx, hp, [s EXCEPT !.ok = FALSE], f.base, f.b)
        /\ f.b \in Blocks \cup {Initb} /\ f.base \in Nat
    BY ReadySafe, Fields DEF Ready, Holds
  <1>2. r = IF Left(f.size, n) >= sz THEN s
            ELSE IF newsize < n \/ Left(newsize, n) < sz THEN [s EXCEPT !.ok = FALSE]
            ELSE IF larger.ok THEN [larger EXCEPT !.B.b = mem, !.B.size = newsize] ELSE larger
    BY <1>1 DEF luaL_prepbuffsize
  <1>3. newsize \in 0..SIZE - 1
    <2>1. f.size * 2 \in Nat /\ n + sz \in Nat
      BY <1>1
    <2> QED BY <2>1, SizesWrap
  <1> HIDE DEF n, newsize, double
  <1>4. CASE Left(f.size, n) >= sz
    <2>1. r = s /\ n + sz <= f.size
      BY <1>1, <1>2, <1>4, SizesAdd
    <2>2. f.b # Initb => /\ f.b \in DOMAIN hp /\ hp[f.b] = [size |-> f.size, bytes |-> f.added]
      BY DEF Ready, Holds, Owned
    <2> QED BY <2>1, <2>2, <1>1 DEF Ready, Buffered, Holds, n
  <1>5. CASE ~(Left(f.size, n) >= sz) /\ (newsize < n \/ Left(newsize, n) < sz)
    <2>1. r = [s EXCEPT !.ok = FALSE] /\ r.ok = FALSE
      BY <1>2, <1>5 DEF Ready, IsState
    <2> QED BY <2>1, <1>1
  <1>6. CASE ~(Left(f.size, n) >= sz) /\ ~(newsize < n \/ Left(newsize, n) < sz)
    <2>1. n + sz <= newsize /\ newsize \in Nat \ {0}
      <3>1. n <= newsize /\ (Left(newsize, n) >= sz => n + sz <= newsize)
        BY <1>1, <1>3, <1>6, SizesAdd
      <3>2. Left(newsize, n) >= sz
        <4>1. newsize - n \in 0..SIZE - 1
          BY <1>1, <1>3, <3>1 DEF BufferAssumption
        <4>2. Left(newsize, n) \in 0..SIZE - 1
          BY <4>1, SizesWrap DEF Left
        <4> QED BY <4>2, <1>6, <1>1
      <3> QED BY <3>1, <3>2, <1>1, <1>3
    <2>2. r = IF larger.ok THEN [larger EXCEPT !.B.b = mem, !.B.size = newsize] ELSE larger
      BY <1>2, <1>6
    <2> HIDE DEF r, larger
    \* It is enough to look at the larger memory.
    <2>3. ASSUME IsState(larger), larger.B = f, Safe(st, bx, hp, larger, f.base, f.b),
                 larger.ok =>
                   /\ mem \in Blocks /\ mem \in DOMAIN larger.heap
                   /\ larger.heap[mem] = [size |-> newsize, bytes |-> f.added]
                   /\ larger.stack = IF f.b = Initb THEN Append(s.stack, Box(box)) ELSE s.stack
                   /\ \E x \in DOMAIN larger.boxes :
                        larger.stack[Len(larger.stack)] = Box(x) /\ larger.boxes[x] = mem
          PROVE  /\ Safe(st, bx, hp, r, f.base, f.b)
                 /\ r.ok => Buffered(r, f, s, bx, hp, box, f.added) /\ r.B.n = f.n /\ f.n + sz <= r.B.size
      <3>1. CASE ~larger.ok
        BY <2>2, <2>3, <3>1
      <3>2. CASE larger.ok
        <4>1. /\ r.stack = larger.stack /\ r.heap = larger.heap /\ r.boxes = larger.boxes
              /\ r.B = [f EXCEPT !.b = mem, !.size = newsize] /\ IsState(r)
          BY <2>2, <2>3, <3>2 DEF IsState
        <4>2. mem \in Blocks /\ mem # Initb /\ mem \in {f.b} \cup (Blocks \ DOMAIN hp)
          BY <2>3, <3>2 DEF BufferAssumption
        <4>3. /\ r.B \in luaL_Buffer /\ r.B.b = mem /\ r.B.size = newsize /\ r.B.base = f.base
              /\ r.B.added = f.added /\ r.B.n = f.n
          BY <4>1, <4>2, <1>1, <1>3 DEF luaL_Buffer
        <4>4. Safe(st, bx, hp, r, f.base, f.b)
          BY <4>1, <2>3 DEF Safe
        <4>5. Buffered(r, f, s, bx, hp, box, f.added)
          BY <4>1, <4>2, <4>3, <2>3, <3>2 DEF Buffered
        <4> QED BY <4>3, <4>4, <4>5, <2>1 DEF n
      <3> QED BY <3>1, <3>2
    <2>4. ASSUME f.b # Initb
          PROVE  /\ Safe(st, bx, hp, r, f.base, f.b)
                 /\ r.ok => Buffered(r, f, s, bx, hp, box, f.added) /\ r.B.n = f.n /\ f.n + sz <= r.B.size
      <3>1. PICK x \in DOMAIN bx : s.stack[Len(s.stack)] = Box(x) /\ bx[x] = f.b
        BY <2>4 DEF Ready
      <3>2. larger = resizebox(s, -1, newsize, mem)
        BY <2>4, <1>1 DEF larger, buffonstack
      <3>3. Len(s.stack) + 1 + (-1) = Len(s.stack)
        BY DEF Ready, Stacked
      <3>4. /\ f.b \in DOMAIN hp /\ f.b # NoBlock /\ hp[f.b].bytes = f.added /\ f.b \in Blocks
            /\ IsState(s) /\ Owned(s.boxes, s.heap) /\ s.boxes = bx /\ s.heap = hp /\ s.ok
        BY <2>4, <1>1 DEF Ready, Holds, BufferAssumption
      <3>5. mem \in {FAIL} \cup (Blocks \ DOMAIN s.heap) \cup ({s.boxes[x]} \ {NoBlock})
        BY <3>1, <3>4
      <3>6. /\ IsState(larger) /\ larger.stack = s.stack /\ larger.B = s.B
            /\ Owned(larger.boxes, larger.heap) /\ DOMAIN larger.boxes = DOMAIN s.boxes
            /\ \A y \in DOMAIN s.boxes \ {x} : larger.boxes[y] = s.boxes[y]
            /\ \A block \in DOMAIN s.heap \ {f.b} :
                 block \in DOMAIN larger.heap /\ larger.heap[block] = s.heap[block]
            /\ mem = FAIL => ~larger.ok
            /\ mem # FAIL => /\ larger.boxes[x] = mem /\ mem \in DOMAIN larger.heap
                             /\ larger.heap[mem] = [size |-> newsize, bytes |-> hp[f.b].bytes]
        <4>1. s.stack[Len(s.stack) + 1 + (-1)] = Box(x) /\ x \in DOMAIN s.boxes
          BY <3>1, <3>3, <3>4
        <4>2. newsize \in Nat /\ newsize # 0
          BY <2>1
        <4>3. /\ Resized(larger, s, x)
              /\ (newsize = 0 \/ mem = FAIL) => (larger.ok <=> newsize = 0)
              /\ (newsize # 0 /\ mem # FAIL) =>
                   /\ larger.boxes[x] = mem /\ mem \in DOMAIN larger.heap
                   /\ larger.heap[mem] = [size |-> newsize,
                        bytes |-> IF s.boxes[x] = NoBlock THEN <<>> ELSE s.heap[s.boxes[x]].bytes]
          BY <4>1, <4>2, <3>2, <3>4, <3>5, ResizeKeeps
        <4>4. mem = FAIL => ~larger.ok
          BY <4>2, <4>3
        <4> QED BY <4>2, <4>3, <4>4, <3>1, <3>4 DEF Resized
      <3>7. Safe(st, bx, hp, larger, f.base, f.b)
        BY <3>1, <3>4, <3>6, <1>1 DEF Safe, Stacked
      <3>8. mem # FAIL => mem \in Blocks
        BY <3>4
      <3>9. larger.stack = IF f.b = Initb THEN Append(s.stack, Box(box)) ELSE s.stack
        BY <2>4, <3>6
      <3>10. larger.ok =>
               /\ mem \in Blocks /\ mem \in DOMAIN larger.heap
               /\ larger.heap[mem] = [size |-> newsize, bytes |-> f.added]
               /\ \E y \in DOMAIN larger.boxes :
                    larger.stack[Len(larger.stack)] = Box(y) /\ larger.boxes[y] = mem
        <4> SUFFICES ASSUME larger.ok, mem # FAIL
                     PROVE  /\ mem \in Blocks /\ mem \in DOMAIN larger.heap
                            /\ larger.heap[mem] = [size |-> newsize, bytes |-> f.added]
                            /\ \E y \in DOMAIN larger.boxes :
                                 larger.stack[Len(larger.stack)] = Box(y) /\ larger.boxes[y] = mem
          BY <3>6
        <4>1. x \in DOMAIN larger.boxes /\ larger.stack[Len(larger.stack)] = Box(x) /\ larger.boxes[x] = mem
          BY <3>1, <3>4, <3>6
        <4> QED BY <4>1, <3>4, <3>6, <3>8
      <3>11. IsState(larger) /\ larger.B = f
        BY <3>6, <1>1
      <3> QED BY <2>3, <3>7, <3>9, <3>10, <3>11
    <2>5. ASSUME f.b = Initb
          PROVE  /\ Safe(st, bx, hp, r, f.base, f.b)
                 /\ r.ok => Buffered(r, f, s, bx, hp, box, f.added) /\ r.B.n = f.n /\ f.n + sz <= r.B.size
      <3> DEFINE s1 == [s EXCEPT !.stack = Append(@, Box(box)), !.boxes = Set(@, box, NoBlock)]
      <3>1. /\ IsState(s) /\ s.boxes = bx /\ s.heap = hp /\ s.ok /\ s.stack \in Seq(Item)
            /\ f.initb = f.added /\ Stacked(s.stack, bx) /\ Owned(bx, hp)
        BY <2>5 DEF Ready, Holds, Stacked
      <3>2. /\ IsState(s1) /\ s1.stack = Append(s.stack, Box(box)) /\ s1.boxes = Set(bx, box, NoBlock)
            /\ s1.heap = hp /\ s1.B = f /\ s1.ok
        <4> DEFINE s0 == [s EXCEPT !.stack = Append(@, Box(box))]
        <4>1. IsState(s0) /\ s0.stack = Append(s.stack, Box(box)) /\ s0.boxes = bx /\ s0.heap = hp /\ s0.B = f /\ s0.ok
          <5>1. IsState(s) /\ s.boxes = bx /\ s.heap = hp /\ s.ok /\ s.B = f
            BY <3>1, <1>1
          <5>2. /\ s0.boxes = s.boxes /\ s0.heap = s.heap /\ s0.B = s.B
                /\ s0.stack = Append(s.stack, Box(box)) /\ (s0.ok <=> s.ok) /\ IsState(s0)
            BY <5>1 DEF IsState
          <5> QED BY <5>1, <5>2
        <4>2. s1 = [s0 EXCEPT !.boxes = Set(@, box, NoBlock)]
          OBVIOUS
        <4> HIDE DEF s0, s1
        <4> QED BY <4>1, <4>2 DEF IsState
      <3> HIDE DEF s1
      <3>3. /\ DOMAIN s1.boxes = DOMAIN bx \cup {box} /\ s1.boxes[box] = NoBlock
            /\ \A x \in DOMAIN bx : s1.boxes[x] = bx[x]
        BY <3>2 DEF Set
      <3>4. Owned(s1.boxes, s1.heap)
        <4>1. \A x \in DOMAIN s1.boxes : s1.boxes[x] \in DOMAIN hp \cup {NoBlock}
          BY <3>1, <3>3 DEF Owned
        <4>2. \A x, y \in DOMAIN s1.boxes : s1.boxes[x] = s1.boxes[y] /\ s1.boxes[x] # NoBlock => x = y
          BY <3>1, <3>3 DEF Owned
        <4>3. \A block \in DOMAIN hp : \E x \in DOMAIN s1.boxes : s1.boxes[x] = block
          BY <3>1, <3>3 DEF Owned
        <4> QED BY <4>1, <4>2, <4>3, <3>1, <3>2, <3>3 DEF Owned
      <3>5. /\ s1.stack \in Seq(Item) /\ Len(s1.stack) = Len(s.stack) + 1
            /\ s1.stack[Len(s1.stack)] = Box(box) /\ \A k \in 1..Len(s.stack) : s1.stack[k] = s.stack[k]
        <4>1. Box(box) \in Item
          BY DEF Box, Item
        <4> QED BY <4>1, <3>1, <3>2
      <3>6. Stacked(s1.stack, s1.boxes)
        <4> SUFFICES ASSUME NEW k \in 1..Len(s1.stack), s1.stack[k][1] = "box"
                     PROVE  s1.stack[k][2] \in DOMAIN s1.boxes
          BY <3>5 DEF Stacked
        <4>1. CASE k = Len(s1.stack)
          BY <4>1, <3>5, <3>3 DEF Box
        <4>2. CASE k # Len(s1.stack)
          <5>1. k \in 1..Len(s.stack) /\ s1.stack[k] = s.stack[k]
            BY <4>2, <3>5, <3>1
          <5> QED BY <5>1, <3>1, <3>3 DEF Stacked
        <4> QED BY <4>1, <4>2
      <3>7. new = resizebox(s1, -1, newsize, mem)
        BY DEF newbox, s1
      <3> HIDE DEF new
      <3>8. f.b \notin DOMAIN hp
        BY <2>5, <3>1 DEF Owned, BufferAssumption
      <3>9. /\ IsState(new) /\ new.stack = s1.stack /\ new.B = f
            /\ Owned(new.boxes, new.heap) /\ DOMAIN new.boxes = DOMAIN s1.boxes
            /\ \A y \in DOMAIN s1.boxes \ {box} : new.boxes[y] = s1.boxes[y]
            /\ \A block \in DOMAIN hp : block \in DOMAIN new.heap /\ new.heap[block] = hp[block]
            /\ mem = FAIL => ~new.ok
            /\ mem # FAIL => /\ new.ok /\ new.boxes[box] = mem /\ mem \in DOMAIN new.heap
                             /\ new.heap[mem] = [size |-> newsize, bytes |-> <<>>]
        <4>1. s1.stack[Len(s1.stack) + 1 + (-1)] = Box(box) /\ box \in DOMAIN s1.boxes
          BY <3>5, <3>3, <3>1
        <4>2. newsize \in Nat /\ newsize # 0
          BY <2>1
        <4>3. mem \in {FAIL} \cup (Blocks \ DOMAIN s1.heap) \cup ({s1.boxes[box]} \ {NoBlock})
          BY <3>2, <3>8
        <4>4. \A block \in DOMAIN hp : block # NoBlock
          BY <3>1 DEF Owned, BufferAssumption
        <4>5. /\ Resized(new, s1, box)
              /\ (newsize = 0 \/ mem = FAIL) => (new.ok <=> newsize = 0)
              /\ (newsize # 0 /\ mem # FAIL) =>
                   /\ (new.ok <=> s1.ok) /\ new.boxes[box] = mem /\ mem \in DOMAIN new.heap
                   /\ new.heap[mem] = [size |-> newsize,
                        bytes |-> IF s1.boxes[box] = NoBlock THEN <<>> ELSE s1.heap[s1.boxes[box]].bytes]
          <5> DEFINE idx == -1
          <5>1. /\ IsState(s1) /\ Owned(s1.boxes, s1.heap) /\ idx \in Int /\ box \in DOMAIN s1.boxes
                /\ s1.stack[Len(s1.stack) + 1 + idx] = Box(box) /\ new = resizebox(s1, idx, newsize, mem)
            BY <4>1, <3>2, <3>4, <3>7
          <5> HIDE DEF idx
          <5> QED BY ONLY BufferAssumption, <5>1, <4>2, <4>3, ResizeKeeps
        <4>6. mem = FAIL => ~new.ok
          BY <4>2, <4>5
        <4>7. mem # FAIL => new.ok
          BY <4>2, <4>5, <3>2
        <4> QED BY <4>2, <4>4, <4>5, <4>6, <4>7, <3>2, <3>3 DEF Resized
      <3>10. Safe(st, bx, hp, new, f.base, f.b)
        <4>1. f.base <= Len(st) /\ f.base <= Len(s.stack) /\ \A k \in 1..f.base : s.stack[k] = st[k]
          BY DEF Ready
        <4>2. f.base <= Len(new.stack) /\ \A k \in 1..f.base : new.stack[k] = st[k]
          BY <4>1, <3>1, <3>5, <3>9, <1>1
        <4>3. \A x \in DOMAIN bx : x \in DOMAIN new.boxes /\ new.boxes[x] = bx[x]
          BY <3>3, <3>9
        <4>4. Stacked(new.stack, new.boxes)
          BY <3>6, <3>9 DEF Stacked
        <4> QED BY <4>1, <4>2, <4>3, <4>4, <3>9 DEF Safe
      <3>11. CASE mem = FAIL
        <4>1. larger = new /\ ~larger.ok
          BY <2>5, <3>9, <3>11, <1>1 DEF larger, buffonstack
        <4>2. IsState(larger) /\ larger.B = f /\ Safe(st, bx, hp, larger, f.base, f.b)
          BY <4>1, <3>9, <3>10
        <4>3. ~larger.ok
          BY <4>1
        <4> QED BY <4>2, <4>3, <2>3
      <3>12. CASE mem # FAIL
        <4>1. larger = [new EXCEPT !.heap[mem].bytes = f.added]
          BY <2>5, <3>1, <3>9, <3>12, <1>1 DEF larger, buffonstack, Bytes
        <4>2. /\ IsState(larger) /\ larger.stack = new.stack /\ larger.boxes = new.boxes /\ larger.B = f
              /\ larger.heap = [new.heap EXCEPT ![mem].bytes = f.added] /\ larger.ok
          BY <4>1, <3>9, <3>12 DEF IsState
        <4>3. /\ DOMAIN larger.heap = DOMAIN new.heap
              /\ larger.heap[mem] = [size |-> newsize, bytes |-> f.added]
              /\ \A block \in DOMAIN new.heap \ {mem} : larger.heap[block] = new.heap[block]
          BY <4>2, <3>9, <3>12
        <4>4. mem \in Blocks /\ mem \notin DOMAIN hp
          BY <3>12, <3>8
        <4>5. Owned(larger.boxes, larger.heap)
          <5>1. larger.heap[mem] \in [size : Nat, bytes : Seq(Character)]
            BY <4>3, <1>1, <2>1
          <5>2. \A block \in DOMAIN larger.heap : larger.heap[block] \in [size : Nat, bytes : Seq(Character)]
            BY <5>1, <4>3, <3>9 DEF Owned
          <5>3. larger.boxes = new.boxes /\ DOMAIN larger.heap = DOMAIN new.heap /\ Owned(new.boxes, new.heap)
            BY <4>2, <4>3, <3>9
          <5> QED BY ONLY <5>2, <5>3 DEF Owned
        <4>6. \A block \in DOMAIN hp : block \in DOMAIN larger.heap /\ larger.heap[block] = hp[block]
          BY <4>3, <4>4, <3>9
        <4>7. Safe(st, bx, hp, larger, f.base, f.b)
          BY <3>10, <4>2, <4>5, <4>6 DEF Safe
        <4>8. box \in DOMAIN larger.boxes /\ larger.stack[Len(larger.stack)] = Box(box) /\ larger.boxes[box] = mem
          BY <4>2, <3>9, <3>12, <3>5, <3>3
        <4>9. larger.stack = IF f.b = Initb THEN Append(s.stack, Box(box)) ELSE s.stack
          BY <4>2, <3>2, <3>9, <2>5
        <4>10. mem \in Blocks /\ mem \in DOMAIN larger.heap
               /\ larger.heap[mem] = [size |-> newsize, bytes |-> f.added]
          BY <4>3, <4>4, <3>9, <3>12
        <4>11. IsState(larger) /\ larger.B = f
          BY <4>2
        <4> QED BY <4>7, <4>8, <4>9, <4>10, <4>11, <2>3
      <3> QED BY <3>11, <3>12
    <2> QED BY <2>4, <2>5 DEF r
  <1> QED BY <1>4, <1>5, <1>6

(* What is written to a buffer that has room for it comes behind what it    *)
(* holds.                                                                  *)
LEMMA WrittenKeeps ==
    ASSUME BufferAssumption, NEW s, NEW f, NEW st, NEW bx, NEW hp, Ready(s, f, st, bx, hp),
           NEW box \in Boxes, NEW p \in Seq(Character), NEW room,
           Safe(st, bx, hp, room, f.base, f.b), room.ok, Buffered(room, f, s, bx, hp, box, f.added),
           room.B.n = f.n, f.n + Len(p) <= room.B.size,
           NEW r, r = Written(room, p)
    PROVE  /\ Safe(st, bx, hp, r, f.base, f.b) /\ r.ok
           /\ Buffered(r, f, s, bx, hp, box, f.added \o p)
           /\ r.B.n = Len(f.added \o p) /\ r.B.n <= r.B.size
  <1> DEFINE at == [room EXCEPT !.B.n = @ + Len(p)]
             bytes == f.added \o p
  <1>1. /\ f.added \in Seq(Character) /\ f.n = Len(f.added) /\ Len(p) \in Nat /\ f.n \in Nat
        /\ bytes \in Seq(Character) /\ Len(bytes) = f.n + Len(p)
    BY Fields DEF Ready, Holds
  <1>2. /\ IsState(room) /\ room.B \in luaL_Buffer /\ room.B.base = f.base /\ room.B.added = f.added
        /\ room.B.b \in {f.b} \cup (Blocks \ DOMAIN hp)
    BY DEF Buffered
  <1>3. /\ IsState(at) /\ at.stack = room.stack /\ at.boxes = room.boxes /\ at.heap = room.heap /\ (at.ok <=> room.ok)
        /\ at.B = [room.B EXCEPT !.n = f.n + Len(p)]
    BY <1>2 DEF IsState
  <1>4. /\ at.B \in luaL_Buffer /\ at.B.n = f.n + Len(p) /\ at.B.b = room.B.b /\ at.B.base = f.base
        /\ at.B.added = f.added /\ at.B.size = room.B.size /\ at.B.initb = room.B.initb
    <2> DEFINE m == f.n + Len(p)
    <2>1. m \in Nat
      BY <1>1
    <2> HIDE DEF m
    <2>2. at.B = [room.B EXCEPT !.n = m]
      BY <1>3 DEF m
    <2>3. /\ at.B \in luaL_Buffer /\ at.B.n = m /\ at.B.b = room.B.b /\ at.B.base = room.B.base
          /\ at.B.added = room.B.added /\ at.B.size = room.B.size /\ at.B.initb = room.B.initb
      BY <2>1, <2>2, <1>2 DEF luaL_Buffer
    <2> QED BY <2>3, <1>2 DEF m
  <1> HIDE DEF at, bytes
  <1>5. CASE room.B.b # Initb
    <2>1. /\ room.B.b \in DOMAIN room.heap
          /\ room.heap[room.B.b] = [size |-> room.B.size, bytes |-> f.added]
          /\ room.stack = IF f.b = Initb THEN Append(s.stack, Box(box)) ELSE s.stack
      BY <1>5 DEF Buffered
    <2>2. PICK x \in DOMAIN room.boxes : room.stack[Len(room.stack)] = Box(x) /\ room.boxes[x] = room.B.b
      BY <1>5 DEF Buffered
    <2>3. r = [at EXCEPT !.heap[room.B.b].bytes = @ \o p]
      BY <1>5 DEF Written, buffonstack, at
    <2>4. /\ IsState(r) /\ r.stack = at.stack /\ r.boxes = at.boxes /\ r.B = at.B /\ (r.ok <=> at.ok)
          /\ r.heap = [at.heap EXCEPT ![room.B.b].bytes = @ \o p]
      BY <2>3, <1>3 DEF IsState
    <2>5. /\ DOMAIN r.heap = DOMAIN room.heap
          /\ \A block \in DOMAIN room.heap \ {room.B.b} : r.heap[block] = room.heap[block]
          /\ r.heap[room.B.b] = [size |-> room.B.size, bytes |-> bytes]
      <3> DEFINE old == at.heap[room.B.b]
                 write == [old EXCEPT !.bytes = bytes]
      <3>1. old.bytes = f.added /\ old.size = room.B.size /\ room.B.b \in DOMAIN at.heap /\ old \in [size : Nat, bytes : Seq(Character)]
        BY <2>1, <1>3 DEF Safe, Owned
      <3>2. write \in [size : Nat, bytes : Seq(Character)] /\ write.size = room.B.size /\ write.bytes = bytes
        BY <3>1, <1>1
      <3>3. write = [size |-> room.B.size, bytes |-> bytes]
        BY <3>2
      <3>4. r.heap = [at.heap EXCEPT ![room.B.b] = write]
        <4>1. r.heap = [at.heap EXCEPT ![room.B.b] = [old EXCEPT !.bytes = old.bytes \o p]]
          BY <2>4, Zenon
        <4> HIDE DEF old
        <4> QED BY <4>1, <3>1 DEF bytes
      <3> HIDE DEF old, write
      <3>5. /\ DOMAIN r.heap = DOMAIN at.heap /\ r.heap[room.B.b] = write
            /\ \A block \in DOMAIN at.heap \ {room.B.b} : r.heap[block] = at.heap[block]
        BY <3>1, <3>4
      <3> QED BY <3>3, <3>5, <1>3
    <2>6. Owned(r.boxes, r.heap)
      <3>1. r.heap[room.B.b] \in [size : Nat, bytes : Seq(Character)]
        BY <2>5, <1>1, <1>2, Fields
      <3>2. \A block \in DOMAIN r.heap : r.heap[block] \in [size : Nat, bytes : Seq(Character)]
        BY <3>1, <2>5 DEF Safe, Owned
      <3>3. r.boxes = room.boxes /\ DOMAIN r.heap = DOMAIN room.heap
        BY <2>4, <2>5, <1>3
      <3>4. Owned(room.boxes, room.heap)
        BY DEF Safe
      <3> QED BY <3>2, <3>3, <3>4 DEF Owned
    <2>7. Safe(st, bx, hp, r, f.base, f.b)
      <3>1. r.boxes = room.boxes /\ r.stack = room.stack
        BY <2>4, <1>3
      <3>2. \A block \in DOMAIN hp \ {f.b} : block \in DOMAIN r.heap /\ r.heap[block] = hp[block]
        BY <2>5, <1>2 DEF Safe
      <3> QED BY <3>1, <3>2, <2>6 DEF Safe
    <2>8. Buffered(r, f, s, bx, hp, box, bytes)
      <3>1. r.boxes = room.boxes /\ r.stack = room.stack /\ r.B = at.B
        BY <2>4, <1>3
      <3>2. r.B.b = room.B.b /\ r.B.b \in DOMAIN r.heap /\ r.heap[r.B.b] = [size |-> r.B.size, bytes |-> bytes]
        BY <3>1, <1>4, <2>1, <2>5
      <3>3. /\ IsState(r) /\ r.B \in luaL_Buffer /\ r.B.base = f.base /\ r.B.added = f.added
            /\ r.B.b \in {f.b} \cup (Blocks \ DOMAIN hp) /\ r.B.b # Initb
        BY <3>1, <1>2, <1>4, <1>5, <2>4
      <3>4. r.stack = IF f.b = Initb THEN Append(s.stack, Box(box)) ELSE s.stack
        BY ONLY <3>1, <2>1
      <3>5. \E y \in DOMAIN r.boxes : r.stack[Len(r.stack)] = Box(y) /\ r.boxes[y] = r.B.b
        BY ONLY <3>1, <3>2, <2>2
      <3> QED BY ONLY <3>2, <3>3, <3>4, <3>5 DEF Buffered
    <2>9. r.ok /\ r.B.n = Len(bytes) /\ r.B.n <= r.B.size
      <3>1. r.ok /\ r.B = at.B
        BY <2>4, <1>3
      <3>2. at.B.n = f.n + Len(p) /\ at.B.size = room.B.size
        BY <1>4
      <3>3. f.n + Len(p) <= room.B.size /\ Len(bytes) = f.n + Len(p)
        BY <1>1
      <3> QED BY ONLY <3>1, <3>2, <3>3
    <2> QED BY ONLY <2>7, <2>8, <2>9 DEF bytes
  <1>6. CASE room.B.b = Initb
    <2>1. f.b = Initb /\ room.stack = s.stack /\ room.B.initb = f.added /\ room.B.size = LUAL_BUFFERSIZE
      BY <1>6 DEF Buffered
    <2>2. r = [at EXCEPT !.B.initb = @ \o p]
      BY <1>6 DEF Written, buffonstack, at
    <2>3. /\ IsState(r) /\ r.stack = at.stack /\ r.boxes = at.boxes /\ (r.ok <=> at.ok) /\ r.heap = at.heap
          /\ r.B = [at.B EXCEPT !.initb = bytes]
      <3>1. at.B.initb = f.added
        BY <2>1, <1>4
      <3>2. /\ IsState(r) /\ r.stack = at.stack /\ r.boxes = at.boxes /\ (r.ok <=> at.ok) /\ r.heap = at.heap
            /\ r.B = [at.B EXCEPT !.initb = @ \o p]
        BY <2>2, <1>3 DEF IsState
      <3> QED BY <3>1, <3>2 DEF bytes
    <2>4. /\ r.B \in luaL_Buffer /\ r.B.n = at.B.n /\ r.B.b = Initb /\ r.B.base = f.base
          /\ r.B.added = f.added /\ r.B.size = LUAL_BUFFERSIZE /\ r.B.initb = bytes
      BY <2>1, <2>3, <1>1, <1>4, <1>6 DEF luaL_Buffer
    <2>5. Safe(st, bx, hp, r, f.base, f.b)
      BY <2>3, <1>3 DEF Safe
    <2>6. Buffered(r, f, s, bx, hp, box, bytes)
      BY <2>1, <2>3, <2>4, <1>2, <1>3, <1>6 DEF Buffered
    <2> QED BY <2>1, <2>3, <2>4, <2>5, <2>6, <1>1, <1>3, <1>4 DEF bytes
  <1> QED BY <1>5, <1>6

LEMMA AddKeeps ==
    ASSUME BufferAssumption, NEW s, NEW f, NEW st, NEW bx, NEW hp, Ready(s, f, st, bx, hp),
           NEW p \in Seq(Character), NEW box \in Boxes \ DOMAIN bx,
           NEW mem \in {FAIL} \cup (Blocks \ DOMAIN hp) \cup ({f.b} \cap DOMAIN hp),
           NEW r, r = luaL_addlstring(s, p, box, mem)
    PROVE  /\ Safe(st, bx, hp, r, f.base, f.b)
           /\ r.ok => /\ Buffered(r, f, s, bx, hp, box, f.added \o p)
                      /\ r.B.n = Len(f.added \o p) /\ r.B.n <= r.B.size
  <1>1. CASE p = <<>>
    <2>0. f.added \in Seq(Character)
      BY ReadySafe, Fields
    <2>1. r = s /\ s.B = f /\ f.added \o p = f.added
      <3>1. r = s
        BY <1>1 DEF luaL_addlstring
      <3>2. f.added \o p = f.added
        BY <1>1, <2>0
      <3> QED BY <3>1, <3>2 DEF Ready
    <2>2. f.b # Initb => f.b \in DOMAIN hp /\ hp[f.b] = [size |-> f.size, bytes |-> f.added]
      BY DEF Ready, Holds, Owned
    <2>3. Buffered(s, f, s, bx, hp, box, f.added)
      BY <2>1, <2>2 DEF Ready, Buffered, Holds
    <2>4. f.n = Len(f.added) /\ f.n <= f.size
      BY DEF Ready, Holds
    <2> QED BY <2>1, <2>3, <2>4, ReadySafe
  <1>2. CASE p # <<>>
    <2> DEFINE room == luaL_prepbuffsize(s, Len(p), box, mem)
    <2>1. Len(p) \in Nat \ {0}
      BY <1>2
    <2>2. /\ Safe(st, bx, hp, room, f.base, f.b)
          /\ room.ok => /\ Buffered(room, f, s, bx, hp, box, f.added)
                        /\ room.B.n = f.n /\ f.n + Len(p) <= room.B.size
      BY <2>1, PrepKeeps
    <2>3. r = IF room.ok THEN Written(room, p) ELSE room
      BY <1>2 DEF luaL_addlstring
    <2> HIDE DEF room
    <2>4. CASE room.ok
      BY <2>2, <2>3, <2>4, WrittenKeeps
    <2>5. CASE ~room.ok
      BY <2>2, <2>3, <2>5
    <2> QED BY <2>4, <2>5
  <1> QED BY <1>1, <1>2

-----------------------------------------------------------------------------
(* A function that has added to its buffer, or has failed to.               *)
LEMMA BecomeKeeps ==
    ASSUME BufferAssumption, BufferInv, frames # <<>>, NEW s, NEW p,
           Safe(stack, boxes, heap, s, frames[Len(frames)].base, frames[Len(frames)].b),
           s.ok => LET f == frames[Len(frames)]
                       g == Noted(s.B, p)
                   IN  /\ Holds(g, s.stack, s.boxes, s.heap) /\ g.base = f.base
                       /\ g.b \in {f.b} \cup (Blocks \ DOMAIN heap)
                       /\ Len(s.stack) = Height(g),
           Become(s, p)
    PROVE  BufferInv'
  <1> DEFINE n == Len(frames)
             f == frames[n]
             g == Noted(s.B, p)
  <1>1. n \in Nat /\ n \in 1..n /\ frames \in Seq(luaL_Buffer) /\ f \in luaL_Buffer
    BY DEF BufferInv
  <1>2. CASE ~s.ok
    <2>1. PICK k \in 1..Len(frames) : Unwind(s, frames, k)
      BY <1>2 DEF Become
    <2> QED BY <2>1, UnwindKeeps
  <1>3. CASE s.ok
    <2>1. /\ stack' = s.stack /\ boxes' = s.boxes /\ heap' = s.heap /\ answers' = <<>>
          /\ frames' = [frames EXCEPT ![n] = g]
      BY <1>3 DEF Become
    <2>2. /\ Holds(g, s.stack, s.boxes, s.heap) /\ g.base = f.base /\ g \in luaL_Buffer
          /\ g.b \in {f.b} \cup (Blocks \ DOMAIN heap) /\ Len(s.stack) = Height(g)
      BY <1>3 DEF Holds
    <2> HIDE DEF g
    <2>3. /\ frames' \in Seq(luaL_Buffer) /\ Len(frames') = n /\ frames'[n] = g
          /\ \A k \in 1..n - 1 : frames'[k] = frames[k]
      BY <2>1, <2>2, <1>1
    <2>4. \A k \in 1..n : k = n \/ k \in 1..n - 1
      BY <1>1
    <2>5. \A k \in 1..n - 1 : k \in 1..n /\ k < n /\ frames[k] \in luaL_Buffer
      BY <1>1
    <2>6. \A k \in 1..n - 1 : Holds(frames[k], stack, boxes, heap)
      BY <2>5 DEF BufferInv
    <2>7. \A k \in 1..n - 1 : frames[k].b # Initb => frames[k].b # f.b /\ frames[k].b # g.b
      <3> TAKE k \in 1..n - 1
      <3>1. frames[k].b # Initb => frames[k].b # f.b
        BY <2>5, <1>1 DEF BufferInv, Nested
      <3>2. frames[k].b # Initb => frames[k].b \in DOMAIN heap
        BY <2>6 DEF Holds
      <3> QED BY <3>1, <3>2, <2>2
    <2>8. \A k \in 1..n - 1 : Height(frames[k]) <= f.base
      BY <2>5, <1>1 DEF BufferInv, Nested
    <2>9. \A k \in 1..n : Holds(frames'[k], stack', boxes', heap')
      <3> TAKE k \in 1..n
      <3>1. CASE k = n
        BY <3>1, <2>1, <2>2, <2>3
      <3>2. CASE k \in 1..n - 1
        <4>1. CASE frames[k].b = Initb
          BY <4>1, <3>2, <2>1, <2>3, <2>6 DEF Holds
        <4>2. CASE frames[k].b # Initb
          <5>1. Holds(frames[k], s.stack, s.boxes, s.heap)
            BY <4>2, <3>2, <2>6, <2>7, <2>8, <1>1, SafeHolds, Fields
          <5> QED BY <5>1, <3>2, <2>1, <2>3
        <4> QED BY <4>1, <4>2
      <3> QED BY <3>1, <3>2, <2>4
    <2>10. Nested(stack', frames')
      <3>1. \A k, l \in 1..n : frames'[k].b = frames'[l].b /\ frames'[k].b # Initb => k = l
        BY <2>3, <2>4, <2>5, <2>7 DEF BufferInv, Nested
      <3>2. \A k, l \in 1..n : k < l => Height(frames'[k]) <= frames'[l].base
        <4> SUFFICES ASSUME NEW k \in 1..n, NEW l \in 1..n, k < l PROVE Height(frames'[k]) <= frames'[l].base
          OBVIOUS
        <4>1. k \in 1..n - 1 /\ frames'[k] = frames[k]
          BY <2>3, <1>1
        <4> QED BY <4>1, <2>2, <2>3, <2>4, <2>8 DEF BufferInv, Nested
      <3>3. \A k \in 1..n - 1 : Height(frames'[k]) = frames'[k + 1].base
        <4> TAKE k \in 1..n - 1
        <4>1. Height(frames[k]) = frames[k + 1].base /\ frames'[k] = frames[k]
          BY <2>3 DEF BufferInv, Nested
        <4>2. k + 1 \in 1..n
          BY <1>1
        <4>3. frames'[k + 1].base = frames[k + 1].base
          BY <4>2, <2>2, <2>3, <2>4
        <4> QED BY <4>1, <4>3
      <3>4. n > 0 /\ frames'[1].base = 0
        <4>1. n > 0 /\ 1 \in 1..n /\ frames[1].base = 0
          BY <1>1 DEF BufferInv, Nested
        <4> QED BY <4>1, <2>2, <2>3, <2>4
      <3>5. \A k \in 1..n : frames'[k].base > 0 => s.stack[frames'[k].base][1] = "box"
        <4> TAKE k \in 1..n
        <4>1. frames'[k].base = frames[k].base /\ frames[k].base \in Nat /\ frames[k].base <= f.base
          <5>1. CASE k = n
            BY <5>1, <2>2, <2>3, <1>1, Fields
          <5>2. CASE k \in 1..n - 1
            <6>1. frames'[k] = frames[k] /\ frames[k] \in luaL_Buffer /\ Height(frames[k]) <= f.base
              BY ONLY <5>2, <2>3, <2>5, <2>8
            <6>2. frames[k].base \in Nat /\ frames[k].base <= Height(frames[k]) /\ Height(frames[k]) \in Nat
              BY <6>1, Fields
            <6>3. f.base \in Nat
              BY <1>1, Fields
            <6> QED BY ONLY <6>1, <6>2, <6>3
          <5> QED BY <5>1, <5>2, <2>4
        <4>2. frames[k].base > 0 => frames[k].base \in 1..f.base /\ stack[frames[k].base][1] = "box"
          BY <4>1, <1>1, Fields DEF BufferInv, Nested
        <4> QED BY <4>1, <4>2 DEF Safe
      <3> QED BY <3>1, <3>2, <3>3, <3>4, <3>5, <2>1, <2>3 DEF Nested
    <2>11. ~Valued'
      <3>1. g.base \in Nat /\ g.base = f.base
        BY <2>2, Fields
      <3>2. CASE g.b = Initb
        <4>1. Len(s.stack) = g.base
          BY <2>2, <3>2 DEF Height
        <4>2. g.base > 0 => s.stack[g.base][1] = "box"
          BY <2>10, <2>3, <2>1, <1>1 DEF Nested
        <4> QED BY <4>1, <4>2, <3>1, <2>1 DEF Valued
      <3>3. CASE g.b # Initb
        <4>1. Len(s.stack) = g.base + 1
          BY <2>2, <3>3 DEF Height
        <4>2. PICK x \in DOMAIN s.boxes : s.stack[g.base + 1] = Box(x)
          BY <2>2, <3>3 DEF Holds
        <4> QED BY <4>1, <4>2, <2>1 DEF Valued, Box
      <3> QED BY <3>2, <3>3
    <2>12. Stacked(stack', boxes') /\ Owned(boxes', heap')
      BY <2>1 DEF Safe
    <2>13. Len(stack') = (IF Len(frames') = 0 THEN 0 ELSE Height(frames'[Len(frames')]) + (IF Valued' THEN 1 ELSE 0))
      <3>1. Height(g) \in Nat /\ n # 0
        BY <2>2, <1>1, Fields
      <3>2. Len(stack') = Height(g) /\ Len(frames') = n /\ frames'[Len(frames')] = g
        BY <2>1, <2>2, <2>3
      <3> HIDE DEF n
      <3> QED BY <3>1, <3>2, <2>11
    <2> QED BY <2>1, <2>3, <2>9, <2>10, <2>12, <2>13 DEF BufferInv
  <1> QED BY <1>2, <1>3

LEMMA Joined ==
    \A x, y \in Seq(Item) :
      /\ x \o y \in Seq(Item) /\ Len(x \o y) = Len(x) + Len(y) /\ Len(x) \in Nat /\ Len(y) \in Nat
      /\ \A k \in 1..Len(x) : (x \o y)[k] = x[k]
      /\ \A k \in 1..Len(y) : (x \o y)[Len(x) + k] = y[k]
  OBVIOUS

LEMMA RemoveItem ==
    ASSUME NEW st \in Seq(Item), NEW i \in 1..Len(st), NEW r, r = RemoveAt(st, i)
    PROVE  /\ r \in Seq(Item) /\ Len(r) = Len(st) - 1
           /\ \A k \in 1..i - 1 : r[k] = st[k]
           /\ \A k \in i..Len(st) - 1 : r[k] = st[k + 1]
  <1>1. /\ SubSeq(st, 1, i - 1) \in Seq(Item) /\ Len(SubSeq(st, 1, i - 1)) = i - 1
        /\ \A k \in 1..i - 1 : SubSeq(st, 1, i - 1)[k] = st[k]
    OBVIOUS
  <1>2. /\ SubSeq(st, i + 1, Len(st)) \in Seq(Item) /\ Len(SubSeq(st, i + 1, Len(st))) = Len(st) - i
        /\ \A k \in 1..Len(st) - i : SubSeq(st, i + 1, Len(st))[k] = st[i + k]
    OBVIOUS
  <1> DEFINE x == SubSeq(st, 1, i - 1)
             y == SubSeq(st, i + 1, Len(st))
  <1>3. r = x \o y
    BY DEF RemoveAt
  <1> HIDE DEF x, y
  <1>4. /\ Len(st) \in Nat /\ x \in Seq(Item) /\ y \in Seq(Item) /\ Len(x) = i - 1 /\ Len(y) = Len(st) - i
        /\ \A k \in 1..i - 1 : x[k] = st[k]
        /\ \A k \in 1..Len(st) - i : y[k] = st[i + k]
    BY <1>1, <1>2 DEF x, y
  <1>5. /\ r \in Seq(Item) /\ Len(r) = Len(x) + Len(y)
        /\ \A k \in 1..Len(x) : r[k] = x[k]
        /\ \A k \in 1..Len(y) : r[Len(x) + k] = y[k]
    <2>1. x \in Seq(Item) /\ y \in Seq(Item)
      BY <1>4
    <2>2. /\ x \o y \in Seq(Item) /\ Len(x \o y) = Len(x) + Len(y)
          /\ \A k \in 1..Len(x) : (x \o y)[k] = x[k]
          /\ \A k \in 1..Len(y) : (x \o y)[Len(x) + k] = y[k]
      BY <2>1, Joined
    <2> QED BY <2>2, <1>3
  <1>6. Len(r) = Len(st) - 1 /\ \A k \in 1..i - 1 : r[k] = st[k]
    BY <1>4, <1>5
  <1>7. \A k \in i..Len(st) - 1 : r[k] = st[k + 1]
    <2> TAKE k \in i..Len(st) - 1
    <2> DEFINE l == k - (i - 1)
    <2>1. l \in 1..Len(y) /\ Len(x) + l = k /\ i + l = k + 1
      <3>1. k \in Int /\ i \in Int /\ i <= k /\ k <= Len(st) - 1
        BY <1>4
      <3> QED BY <3>1, <1>4
    <2> HIDE DEF l
    <2> QED BY <1>4, <1>5, <2>1
  <1> QED BY <1>5, <1>6, <1>7

Put(r, st, e) ==
    /\ r \in Seq(Item) /\ Len(r) = Len(st)
    /\ \A k \in 1..Len(st) - 2 : r[k] = st[k]
    /\ r[Len(st) - 1] = e /\ r[Len(st)] = st[Len(st) - 1]

(* The value on top goes below the one that was there before.               *)
LEMMA PutBelow ==
    ASSUME NEW st \in Seq(Item), Len(st) >= 2, NEW e \in Item, NEW r,
           r = InsertAt(SubSeq(st, 1, Len(st) - 1), Len(st) - 1, e)
    PROVE  Put(r, st, e)
  <1> DEFINE n == Len(st) - 1
             z == SubSeq(st, 1, n)
  <1>1. /\ n \in Nat /\ n >= 1 /\ z \in Seq(Item) /\ Len(z) = n /\ \A k \in 1..n : z[k] = st[k]
        /\ Len(st) = n + 1
    OBVIOUS
  <1>2. r = SubSeq(z, 1, n - 1) \o <<e>> \o SubSeq(z, n, Len(z))
    BY DEF InsertAt
  <1> HIDE DEF z, n
  <1> DEFINE x == SubSeq(z, 1, n - 1)
             y == SubSeq(z, n, Len(z))
  <1>3. x \in Seq(Item) /\ Len(x) = n - 1 /\ \A k \in 1..n - 1 : x[k] = z[k]
    BY <1>1
  <1>4. y \in Seq(Item) /\ Len(y) = 1 /\ y[1] = z[n]
    BY <1>1
  <1>5. r = x \o <<e>> \o y
    BY <1>2
  <1> HIDE DEF x, y
  <1>6. /\ x \o <<e>> \in Seq(Item) /\ Len(x \o <<e>>) = n /\ (x \o <<e>>)[n] = e
        /\ \A k \in 1..n - 1 : (x \o <<e>>)[k] = x[k]
    BY <1>1, <1>3
  <1> DEFINE w == x \o <<e>>
  <1>7. w \in Seq(Item) /\ Len(w) = n /\ w[n] = e /\ (\A k \in 1..n - 1 : w[k] = z[k]) /\ r = w \o y
    BY <1>3, <1>5, <1>6
  <1> HIDE DEF w
  <1>8. r \in Seq(Item) /\ Len(r) = n + 1 /\ r[n + 1] = y[1] /\ \A k \in 1..n : r[k] = w[k]
    <2>1. /\ r \in Seq(Item) /\ Len(r) = Len(w) + Len(y)
          /\ \A k \in 1..Len(w) : r[k] = w[k]
          /\ \A k \in 1..Len(y) : r[Len(w) + k] = y[k]
      <3>1. w \in Seq(Item) /\ y \in Seq(Item) /\ r = w \o y
        BY <1>4, <1>7
      <3>2. /\ w \o y \in Seq(Item) /\ Len(w \o y) = Len(w) + Len(y)
            /\ \A k \in 1..Len(w) : (w \o y)[k] = w[k]
            /\ \A k \in 1..Len(y) : (w \o y)[Len(w) + k] = y[k]
        BY <3>1, Joined
      <3> QED BY <3>1, <3>2
    <2>2. 1 \in 1..Len(y)
      BY <1>4
    <2> QED BY <2>1, <2>2, <1>1, <1>4, <1>7
  <1>9. /\ r \in Seq(Item) /\ Len(r) = n + 1 /\ r[n + 1] = st[n] /\ r[n] = e
        /\ \A k \in 1..n - 1 : r[k] = st[k]
    BY <1>1, <1>4, <1>7, <1>8
  <1>10. n + 1 = Len(st) /\ n = Len(st) - 1 /\ n - 1 = Len(st) - 2
    BY <1>1
  <1>11. /\ r \in Seq(Item) /\ Len(r) = Len(st)
         /\ \A k \in 1..Len(st) - 2 : r[k] = st[k]
         /\ r[Len(st) - 1] = e /\ r[Len(st)] = st[Len(st) - 1]
    BY ONLY <1>9, <1>10
  <1> QED BY ONLY <1>11 DEF Put

Filled(r, bytes) == r.B.n = Len(bytes) /\ r.B.n <= r.B.size
Placed(r, f, st) == r.B.b # Initb => st[f.base + 1] = r.stack[Len(r.stack)] /\ f.base + 1 <= Len(st)

(* A buffer that got bytes is as it should be on a stack with its box.      *)
LEMMA BufferedHolds ==
    ASSUME BufferAssumption, NEW r, NEW f, NEW s, NEW bx, NEW hp, NEW box,
           f \in luaL_Buffer, NEW p \in Seq(Character),
           Buffered(r, f, s, bx, hp, box, f.added \o p),
           Filled(r, f.added \o p), NEW st, Placed(r, f, st), NEW g, g = Noted(r.B, p)
    PROVE  Holds(g, st, r.boxes, r.heap)
  <1> DEFINE bytes == f.added \o p
  <1>1. bytes \in Seq(Character) /\ r.B \in luaL_Buffer /\ r.B.added = f.added /\ r.B.base = f.base
    BY Fields DEF Buffered
  <1>2. g = [r.B EXCEPT !.added = bytes]
    BY <1>1 DEF Noted
  <1> HIDE DEF bytes
  <1>3. /\ g \in luaL_Buffer /\ g.added = bytes /\ g.b = r.B.b /\ g.n = r.B.n /\ g.size = r.B.size
        /\ g.initb = r.B.initb /\ g.base = r.B.base
    BY <1>1, <1>2 DEF luaL_Buffer
  <1>4. g.b = Initb => g.initb = bytes /\ g.size = LUAL_BUFFERSIZE
    BY <1>3 DEF Buffered, bytes
  <1>5. ASSUME g.b # Initb
        PROVE  /\ g.b \in DOMAIN r.heap /\ r.heap[g.b].bytes = bytes /\ r.heap[g.b].size = g.size
               /\ g.base + 1 <= Len(st)
               /\ \E x \in DOMAIN r.boxes : st[g.base + 1] = Box(x) /\ r.boxes[x] = g.b
    <2>1. r.heap[g.b] = [size |-> g.size, bytes |-> bytes] /\ g.b \in DOMAIN r.heap
      BY <1>3, <1>5 DEF Buffered, bytes
    <2>2. \E x \in DOMAIN r.boxes : r.stack[Len(r.stack)] = Box(x) /\ r.boxes[x] = g.b
      BY <1>3, <1>5 DEF Buffered
    <2> QED BY <2>1, <2>2, <1>1, <1>3, <1>5 DEF Placed
  <1>6. g.n = Len(bytes) /\ g.n <= g.size
    BY <1>3 DEF bytes, Filled
  <1>7. g \in luaL_Buffer /\ g.added = bytes /\ g.base = f.base /\ g.b = r.B.b
    BY <1>1, <1>3
  <1> QED BY <1>4, <1>5, <1>6, <1>7 DEF Holds

(* What lies on the stack of the function that runs.                        *)
LEMMA Running ==
    ASSUME BufferAssumption, BufferInv, frames # <<>>
    PROVE  LET f == frames[Len(frames)]
           IN  /\ Len(frames) \in Nat \ {0} /\ f \in luaL_Buffer /\ f.base \in Nat /\ Last(frames) = f
               /\ Holds(f, stack, boxes, heap) /\ Stacked(stack, boxes) /\ Owned(boxes, heap)
               /\ stack \in Seq(Item) /\ f.base <= Len(stack)
               /\ Len(stack) = Height(f) + (IF AtValue THEN 1 ELSE 0)
               /\ AtValue => stack[Len(stack)] = String(stack[Len(stack)][2]) /\ stack[Len(stack)][2] \in Seq(Character)
               /\ Safe(stack, boxes, heap, now, f.base, f.b)
               /\ ~AtValue => Ready(now, f, stack, boxes, heap)
               /\ f.b = Initb => Ready(now, f, stack, boxes, heap)
  <1> DEFINE f == frames[Len(frames)]
  <1>1. /\ Len(frames) \in Nat \ {0} /\ f \in luaL_Buffer /\ f.base \in Nat /\ Last(frames) = f
        /\ Holds(f, stack, boxes, heap) /\ Stacked(stack, boxes) /\ Owned(boxes, heap)
        /\ stack \in Seq(Item)
    <2>1. Len(frames) \in Nat \ {0} /\ f \in luaL_Buffer /\ Len(frames) \in 1..Len(frames)
      BY DEF BufferInv
    <2> QED BY <2>1, Fields DEF BufferInv, Last, Stacked
  <1> HIDE DEF f
  <1>2. AtValue <=> Valued
    BY <1>1 DEF AtValue, Valued, Last
  <1>3. Len(stack) = Height(f) + (IF AtValue THEN 1 ELSE 0)
    BY <1>1, <1>2 DEF BufferInv, f
  <1>4. f.base <= Len(stack) /\ Height(f) \in Nat /\ Len(stack) \in Nat
    <2>1. Height(f) \in Nat /\ f.base <= Height(f)
      BY <1>1, Fields
    <2> QED BY <2>1, <1>1, <1>3
  <1>5. AtValue => stack[Len(stack)] = String(stack[Len(stack)][2]) /\ stack[Len(stack)][2] \in Seq(Character)
    <2> SUFFICES ASSUME AtValue PROVE stack[Len(stack)] = String(stack[Len(stack)][2]) /\ stack[Len(stack)][2] \in Seq(Character)
      OBVIOUS
    <2>1. stack[Len(stack)][1] = "string" /\ stack[Len(stack)] \in Item
      BY <1>1, <1>2 DEF Valued
    <2> QED BY <2>1 DEF Item, String
  <1>6. /\ IsState(now) /\ now.stack = stack /\ now.boxes = boxes /\ now.heap = heap /\ now.B = f /\ now.ok = TRUE
    BY <1>1 DEF IsState, now
  <1>7. Safe(stack, boxes, heap, now, f.base, f.b)
    BY <1>1, <1>4, <1>6 DEF Safe
  <1>8. ASSUME f.b # Initb, ~AtValue
        PROVE  \E x \in DOMAIN boxes : stack[Len(stack)] = Box(x) /\ boxes[x] = f.b
    BY <1>1, <1>3, <1>4, <1>8 DEF Holds, Height
  <1>9. (~AtValue \/ f.b = Initb) => Ready(now, f, stack, boxes, heap)
    BY <1>1, <1>4, <1>6, <1>8 DEF Ready
  <1> QED BY <1>1, <1>3, <1>4, <1>5, <1>7, <1>9 DEF f

(* Strings of the program and of functions that it called.                  *)
LEMMA AddStringKeeps == BufferAssumption /\ BufferInv /\ AddString => BufferInv'
  <1> SUFFICES ASSUME BufferAssumption, BufferInv, AddString PROVE BufferInv'
    OBVIOUS
  <1> DEFINE f == frames[Len(frames)]
  <1>1. frames # <<>> /\ ~AtValue
    BY DEF AddString
  <1>2. PICK p \in Additions, box \in Free(Boxes, boxes), mem \in Memory :
               Become(luaL_addlstring(now, p, box, mem), p)
    BY DEF AddString
  <1> DEFINE r == luaL_addlstring(now, p, box, mem)
  <1>3. /\ f \in luaL_Buffer /\ f.base \in Nat /\ stack \in Seq(Item) /\ Len(stack) = Height(f)
        /\ Ready(now, f, stack, boxes, heap) /\ Last(frames) = f
    <2>1. Height(f) \in Nat
      BY <1>1, Running, Fields
    <2> QED BY <2>1, <1>1, Running
  <1>4. p \in Seq(Character) /\ box \in Boxes \ DOMAIN boxes
    BY DEF BufferAssumption, Free
  <1>5. mem \in {FAIL} \cup (Blocks \ DOMAIN heap) \cup ({f.b} \cap DOMAIN heap)
    BY <1>3 DEF Memory, Free
  <1>6. /\ Safe(stack, boxes, heap, r, f.base, f.b)
        /\ r.ok => /\ Buffered(r, f, now, boxes, heap, box, f.added \o p)
                   /\ r.B.n = Len(f.added \o p) /\ r.B.n <= r.B.size
    <2>1. r = luaL_addlstring(now, p, box, mem)
      OBVIOUS
    <2> HIDE DEF r, f
    <2> QED BY ONLY BufferAssumption, <1>3, <1>4, <1>5, <2>1, AddKeeps
  <1> HIDE DEF r, f
  <1>7. r.ok => LET g == Noted(r.B, p)
                IN  /\ Holds(g, r.stack, r.boxes, r.heap) /\ g.base = f.base
                    /\ g.b \in {f.b} \cup (Blocks \ DOMAIN heap)
                    /\ Len(r.stack) = Height(g)
    <2> SUFFICES ASSUME r.ok, NEW g, g = Noted(r.B, p)
                 PROVE  /\ Holds(g, r.stack, r.boxes, r.heap) /\ g.base = f.base
                        /\ g.b \in {f.b} \cup (Blocks \ DOMAIN heap)
                        /\ Len(r.stack) = Height(g)
      OBVIOUS
    <2>1. Buffered(r, f, now, boxes, heap, box, f.added \o p) /\ now.stack = stack
      BY <1>6 DEF now
    <2>2. r.B.b # Initb => Len(r.stack) = f.base + 1
      <3>1. Box(box) \in Item
        BY <1>4 DEF Box, Item
      <3>2. Len(Append(stack, Box(box))) = Len(stack) + 1
        BY <3>1, <1>3
      <3> QED BY <2>1, <3>2, <1>3 DEF Buffered, Height
    <2>3. r.B.b = Initb => Len(r.stack) = f.base
      BY <2>1, <1>3 DEF Buffered, Height
    <2>4. r.B.b # Initb => r.stack[f.base + 1] = r.stack[Len(r.stack)] /\ f.base + 1 <= Len(r.stack)
      BY <2>2, <1>3
    <2>5. Holds(g, r.stack, r.boxes, r.heap) /\ g.base = f.base /\ g.b = r.B.b
      <3>1. Filled(r, f.added \o p) /\ Placed(r, f, r.stack)
        BY <1>6, <2>4 DEF Filled, Placed
      <3>2. g = Noted(r.B, p) /\ f \in luaL_Buffer /\ p \in Seq(Character)
        BY <1>3, <1>4
      <3> HIDE DEF now
      <3>3. Buffered(r, f, now, boxes, heap, box, f.added \o p)
        BY <2>1
      <3>4. Filled(r, f.added \o p)
        BY <3>1
      <3>5. Placed(r, f, r.stack)
        BY <3>1
      <3>6. Holds(g, r.stack, r.boxes, r.heap)
        BY ONLY BufferAssumption, <3>2, <3>3, <3>4, <3>5, BufferedHolds, Zenon
      <3>7. g.base = f.base /\ g.b = r.B.b
        BY <3>2, <3>3 DEF Buffered, Noted, luaL_Buffer
      <3> QED BY <3>6, <3>7
    <2> QED BY <2>1, <2>2, <2>3, <2>5 DEF Buffered, Height
  <1> QED BY <1>1, <1>2, <1>6, <1>7, BecomeKeeps DEF r, f

(* What lies above a buffer can be removed without it.                      *)
Without(r, a, i) ==
    /\ IsState(r) /\ r.boxes = a.boxes /\ r.heap = a.heap /\ r.B = a.B /\ (r.ok <=> a.ok)
    /\ Len(r.stack) = Len(a.stack) - 1
    /\ \A k \in 1..i - 1 : r.stack[k] = a.stack[k]
    /\ \A k \in i..Len(a.stack) - 1 : r.stack[k] = a.stack[k + 1]

LEMMA RemovedSafe ==
    ASSUME BufferAssumption, NEW st, NEW bx, NEW hp, NEW a, NEW base \in Nat, NEW b,
           Safe(st, bx, hp, a, base, b), IsState(a),
           NEW idx \in Int, NEW i \in base + 1..Len(a.stack), i = Len(a.stack) + 1 + idx,
           NEW r, r = Removed(a, idx)
    PROVE  Safe(st, bx, hp, r, base, b) /\ Without(r, a, i)
  <1>1. a.stack \in Seq(Item) /\ Len(a.stack) \in Nat /\ i \in 1..Len(a.stack) /\ i >= base + 1
    BY DEF Safe, Stacked
  <1>2. /\ IsState(r) /\ r.boxes = a.boxes /\ r.heap = a.heap /\ r.B = a.B /\ (r.ok <=> a.ok)
        /\ r.stack = RemoveAt(a.stack, i)
    BY DEF Removed, IsState
  <1>3. /\ r.stack \in Seq(Item) /\ Len(r.stack) = Len(a.stack) - 1
        /\ \A k \in 1..i - 1 : r.stack[k] = a.stack[k]
        /\ \A k \in i..Len(a.stack) - 1 : r.stack[k] = a.stack[k + 1]
    <2>1. a.stack \in Seq(Item) /\ i \in 1..Len(a.stack) /\ r.stack = RemoveAt(a.stack, i)
      BY <1>1, <1>2
    <2> QED BY ONLY <2>1, RemoveItem, Zenon
  <1>4. Stacked(r.stack, r.boxes)
    <2>0. \A l \in 1..Len(a.stack) : a.stack[l][1] = "box" => a.stack[l][2] \in DOMAIN a.boxes
      BY DEF Safe, Stacked
    <2> SUFFICES ASSUME NEW k \in 1..Len(r.stack) PROVE \E l \in 1..Len(a.stack) : r.stack[k] = a.stack[l]
      <3>1. ASSUME NEW k \in 1..Len(r.stack) PROVE r.stack[k][1] = "box" => r.stack[k][2] \in DOMAIN r.boxes
        <4>1. PICK l \in 1..Len(a.stack) : r.stack[k] = a.stack[l]
          OBVIOUS
        <4> QED BY <4>1, <2>0, <1>2
      <3> QED BY <3>1, <1>3 DEF Stacked
    <2>1. CASE k \in 1..i - 1
      <3>1. k \in 1..Len(a.stack)
        BY <1>1, <2>1
      <3> QED BY <3>1, <2>1, <1>3
    <2>2. CASE k \notin 1..i - 1
      <3>1. k \in i..Len(a.stack) - 1 /\ k + 1 \in 1..Len(a.stack)
        BY <1>1, <1>3, <2>2
      <3> QED BY <3>1, <1>3
    <2> QED BY <2>1, <2>2
  <1>5. base <= Len(r.stack) /\ \A k \in 1..base : r.stack[k] = st[k]
    <2>1. \A k \in 1..base : k \in 1..i - 1
      BY <1>1
    <2> QED BY <2>1, <1>1, <1>3 DEF Safe
  <1> QED BY <1>2, <1>3, <1>4, <1>5 DEF Safe, Without

(* The value on top of the stack is added.                                  *)
LEMMA AddValueKeeps == BufferAssumption /\ BufferInv /\ AddValue => BufferInv'
  <1> SUFFICES ASSUME BufferAssumption, BufferInv, AddValue PROVE BufferInv'
    OBVIOUS
  <1> DEFINE f == frames[Len(frames)]
             top == Len(stack)
             p == stack[top][2]
  <1>1. frames # <<>> /\ AtValue
    BY DEF AddValue
  <1>2. PICK box \in Free(Boxes, boxes), mem \in Memory : Become(luaL_addvalue(now, box, mem), p)
    BY DEF AddValue, Last
  <1> DEFINE put == IF buffonstack(now)
                    THEN [now EXCEPT !.stack = InsertAt(SubSeq(@, 1, top - 1), top - 1, String(p))] ELSE now
             added == luaL_addlstring(put, p, box, mem)
             r == luaL_addvalue(now, box, mem)
  <1>3. /\ f \in luaL_Buffer /\ f.base \in Nat /\ stack \in Seq(Item) /\ top = Height(f) + 1 /\ Height(f) \in Nat
        /\ f.base <= top /\ stack[top] = String(p) /\ p \in Seq(Character)
        /\ Last(frames) = f /\ Holds(f, stack, boxes, heap) /\ Stacked(stack, boxes) /\ Owned(boxes, heap)
        /\ (f.b = Initb => Ready(now, f, stack, boxes, heap))
    <2>1. Height(f) \in Nat
      BY <1>1, Running, Fields
    <2> QED BY <2>1, <1>1, Running
  <1>4. box \in Boxes \ DOMAIN boxes
    BY DEF Free
  <1>5. mem \in {FAIL} \cup (Blocks \ DOMAIN heap) \cup ({f.b} \cap DOMAIN heap)
    BY <1>3 DEF Memory, Free
  <1>6. r = IF added.ok THEN Removed(added, IF buffonstack(added) THEN -2 ELSE -1) ELSE added
    BY DEF luaL_addvalue, now
  <1>7. /\ IsState(now) /\ now.stack = stack /\ now.boxes = boxes /\ now.heap = heap /\ now.B = f /\ now.ok = TRUE
    BY <1>3 DEF IsState, now
  <1>8. put = IF f.b # Initb
              THEN [now EXCEPT !.stack = InsertAt(SubSeq(stack, 1, top - 1), top - 1, String(p))] ELSE now
    BY <1>7 DEF buffonstack
  <1> HIDE DEF r, added, put, f, p, now
  <1>9. /\ Ready(put, f, stack, boxes, heap)
        /\ f.b # Initb => Len(put.stack) = f.base + 2 /\ top = f.base + 2
        /\ f.b = Initb => put.stack = stack /\ top = f.base + 1
    <2>1. CASE f.b = Initb
      BY <2>1, <1>3, <1>8, <1>7 DEF Height
    <2>2. CASE f.b # Initb
      <3>1. top = f.base + 2 /\ top >= 2 /\ f.base + 1 = top - 1 /\ f.base = top - 2
        BY <2>2, <1>3 DEF Height
      <3>2. PICK x \in DOMAIN boxes : stack[f.base + 1] = Box(x) /\ boxes[x] = f.b
        BY <2>2, <1>3 DEF Holds
      <3>3. String(p) \in Item
        BY <1>3 DEF String, Item
      <3>4. /\ IsState(put) /\ put.boxes = boxes /\ put.heap = heap /\ put.B = f /\ put.ok
            /\ put.stack = InsertAt(SubSeq(stack, 1, top - 1), top - 1, String(p))
        BY <2>2, <1>7, <1>8 DEF IsState
      <3>5. /\ put.stack \in Seq(Item) /\ Len(put.stack) = top
            /\ \A k \in 1..top - 2 : put.stack[k] = stack[k]
            /\ put.stack[top - 1] = String(p) /\ put.stack[top] = stack[top - 1]
        <4>1. /\ stack \in Seq(Item) /\ Len(stack) >= 2 /\ String(p) \in Item
              /\ put.stack = InsertAt(SubSeq(stack, 1, Len(stack) - 1), Len(stack) - 1, String(p))
          BY <1>3, <3>1, <3>3, <3>4
        <4>2. Put(put.stack, stack, String(p))
          BY ONLY <4>1, PutBelow
        <4> QED BY <4>2 DEF Put
      <3>6. Stacked(put.stack, boxes)
        <4> SUFFICES ASSUME NEW k \in 1..top PROVE put.stack[k][1] = "box" => put.stack[k][2] \in DOMAIN boxes
          BY <3>5 DEF Stacked
        <4>1. CASE k \in 1..top - 2
          BY <4>1, <3>5, <1>3 DEF Stacked
        <4>2. CASE k = top - 1
          BY <4>2, <3>5 DEF String
        <4>3. CASE k = top
          BY <4>3, <3>1, <3>2, <3>5 DEF Box
        <4> QED BY <4>1, <4>2, <4>3, <3>1
      <3>7. /\ f.base <= Len(stack) /\ f.base <= Len(put.stack)
            /\ \A k \in 1..f.base : put.stack[k] = stack[k]
        BY <3>1, <3>5, <1>3
      <3>8. put.stack[Len(put.stack)] = Box(x)
        BY <3>1, <3>2, <3>5
      <3>9. Ready(put, f, stack, boxes, heap)
        BY <3>2, <3>4, <3>6, <3>7, <3>8, <1>3 DEF Ready
      <3> QED BY <3>9, <3>1, <3>5, <2>2
    <2> QED BY <2>1, <2>2
  <1>10. put.stack[f.base + 1] = String(p) \/ f.b # Initb
    BY <1>3, <1>9
  <1>11. /\ Safe(stack, boxes, heap, added, f.base, f.b)
         /\ added.ok => /\ Buffered(added, f, put, boxes, heap, box, f.added \o p)
                        /\ added.B.n = Len(f.added \o p) /\ added.B.n <= added.B.size
    BY <1>3, <1>4, <1>5, <1>9, AddKeeps DEF added
  <1>12. CASE ~added.ok
    <2>1. r = added
      BY <1>6, <1>12
    <2>2. r.ok => FALSE
      BY <2>1, <1>12
    <2> QED BY <2>1, <2>2, <1>1, <1>2, <1>11, BecomeKeeps DEF r, f
  <1>13. CASE added.ok
    <2> DEFINE idx == IF added.B.b # Initb THEN -2 ELSE -1
               g == Noted(r.B, p)
    <2>1. r = Removed(added, idx) /\ idx \in Int
      BY <1>6, <1>13 DEF buffonstack
    <2>2. /\ Buffered(added, f, put, boxes, heap, box, f.added \o p)
          /\ Filled(added, f.added \o p) /\ IsState(added)
      BY <1>11, <1>13 DEF Buffered, Filled
    <2>3. added.B.b # Initb => Len(added.stack) = f.base + 2
      <3>1. Box(box) \in Item
        BY <1>4 DEF Box, Item
      <3>2. Len(Append(stack, Box(box))) = Len(stack) + 1
        BY <3>1, <1>3
      <3>3. added.B.b # Initb =>
              added.stack = IF f.b = Initb THEN Append(put.stack, Box(box)) ELSE put.stack
        BY <2>2 DEF Buffered
      <3>4. f.b = Initb => Append(put.stack, Box(box)) = Append(stack, Box(box)) /\ Len(stack) = f.base + 1
        BY <1>9
      <3>5. f.base + 1 + 1 = f.base + 2
        BY <1>3
      <3>6. f.b = Initb => Len(Append(put.stack, Box(box))) = f.base + 2
        BY <3>2, <3>4, <3>5
      <3>7. f.b # Initb => Len(put.stack) = f.base + 2
        BY <1>9
      <3> QED BY ONLY <3>3, <3>6, <3>7
    <2>4. added.B.b = Initb => Len(added.stack) = f.base + 1
      BY <2>2, <1>9 DEF Buffered
    <2>5. f.base + 1 \in f.base + 1..Len(added.stack) /\ f.base + 1 = Len(added.stack) + 1 + idx
      <3>1. CASE added.B.b # Initb
        BY <3>1, <2>3, <1>3
      <3>2. CASE added.B.b = Initb
        BY <3>2, <2>4, <1>3
      <3> QED BY <3>1, <3>2
    <2> HIDE DEF idx
    <2>6. /\ Safe(stack, boxes, heap, r, f.base, f.b)
          /\ IsState(r) /\ r.boxes = added.boxes /\ r.heap = added.heap /\ r.B = added.B /\ (r.ok <=> added.ok)
          /\ Len(r.stack) = Len(added.stack) - 1
          /\ \A k \in f.base + 1..Len(added.stack) - 1 : r.stack[k] = added.stack[k + 1]
      <3> DEFINE i == f.base + 1
      <3>1. Safe(stack, boxes, heap, added, f.base, f.b) /\ IsState(added) /\ f.base \in Nat
        BY <2>2, <1>3, <1>11
      <3>2. i \in f.base + 1..Len(added.stack) /\ i = Len(added.stack) + 1 + idx
        BY <2>5
      <3> HIDE DEF i
      <3>3. Safe(stack, boxes, heap, r, f.base, f.b) /\ Without(r, added, i)
        BY ONLY BufferAssumption, <3>1, <3>2, <2>1, RemovedSafe
      <3> QED BY <3>3 DEF Without, i
    <2>7. Placed(added, f, r.stack)
      <3> SUFFICES ASSUME added.B.b # Initb
                   PROVE  r.stack[f.base + 1] = added.stack[Len(added.stack)] /\ f.base + 1 <= Len(r.stack)
        BY DEF Placed
      <3> DEFINE i == f.base + 1
      <3>1. i \in i..Len(added.stack) - 1 /\ i + 1 = Len(added.stack) /\ i <= Len(added.stack) - 1
        BY <2>3, <1>3
      <3>2. r.stack[i] = added.stack[i + 1] /\ Len(r.stack) = Len(added.stack) - 1
        BY <3>1, <2>6
      <3> HIDE DEF i
      <3>3. r.stack[i] = added.stack[Len(added.stack)] /\ i <= Len(r.stack)
        BY <3>1, <3>2
      <3> QED BY <3>3 DEF i
    <2>8. g = Noted(added.B, p)
      BY <2>6
    <2> HIDE DEF g
    <2>9. Holds(g, r.stack, added.boxes, added.heap)
      BY ONLY BufferAssumption, <1>3, <2>2, <2>7, <2>8, BufferedHolds, Zenon
    <2>10. g.base = f.base /\ g.b = added.B.b /\ added.B.b \in {f.b} \cup (Blocks \ DOMAIN heap)
      BY <2>2, <2>8 DEF Buffered, Noted, luaL_Buffer
    <2>11. Len(r.stack) = Height(g)
      BY <2>3, <2>4, <2>6, <2>10, <1>3 DEF Height
    <2>12. /\ Holds(g, r.stack, r.boxes, r.heap) /\ g.base = f.base
           /\ g.b \in {f.b} \cup (Blocks \ DOMAIN heap) /\ Len(r.stack) = Height(g)
      BY <2>6, <2>9, <2>10, <2>11
    <2> QED BY <2>6, <2>12, <1>1, <1>2, BecomeKeeps DEF r, f, g
  <1> QED BY <1>12, <1>13

(* A function starts to build a string.                                     *)
LEMMA StartKeeps == BufferAssumption /\ BufferInv /\ Start => BufferInv'
  <1> SUFFICES ASSUME BufferAssumption, BufferInv, Start PROVE BufferInv'
    OBVIOUS
  <1> DEFINE n == Len(frames)
             g == luaL_buffinit(Len(stack))
  <1>1. /\ ~AtValue /\ frames' = Append(frames, g) /\ answers' = <<>>
        /\ stack' = stack /\ boxes' = boxes /\ heap' = heap
    BY DEF Start
  <1>2. /\ n \in Nat /\ frames \in Seq(luaL_Buffer) /\ stack \in Seq(Item) /\ Len(stack) \in Nat
        /\ \A k \in 1..n : frames[k] \in luaL_Buffer
    BY DEF BufferInv, Stacked
  <1>3. /\ g \in luaL_Buffer /\ g.b = Initb /\ g.n = 0 /\ g.size = LUAL_BUFFERSIZE /\ g.initb = <<>>
        /\ g.base = Len(stack) /\ g.added = <<>> /\ Height(g) = Len(stack)
    BY <1>2 DEF luaL_buffinit, luaL_Buffer, BufferAssumption, Height
  <1> HIDE DEF g
  <1>4. ~Valued /\ (Len(stack) > 0 => stack[Len(stack)][1] = "box")
    <2>1. ~Valued
      BY <1>1, <1>2 DEF AtValue, Valued, Last
    <2>2. Len(stack) > 0 => stack[Len(stack)] \in Item
      BY <1>2
    <2> QED BY <2>1, <2>2 DEF Valued, Item
  <1>5. Len(stack) = IF n = 0 THEN 0 ELSE Height(frames[n])
    <2>1. n # 0 => Height(frames[n]) \in Nat
      <3>1. n # 0 => frames[n] \in luaL_Buffer
        BY <1>2
      <3> QED BY <3>1, Fields
    <2> QED BY <2>1, <1>4 DEF BufferInv
  <1>6. /\ frames' \in Seq(luaL_Buffer) /\ Len(frames') = n + 1 /\ frames'[n + 1] = g
        /\ \A k \in 1..n : frames'[k] = frames[k]
    BY <1>1, <1>2, <1>3
  <1>7. \A k \in 1..n + 1 : k = n + 1 \/ k \in 1..n
    BY <1>2
  <1>8. \A k \in 1..n + 1 : Holds(frames'[k], stack, boxes, heap)
    <2>1. Holds(g, stack, boxes, heap)
      BY <1>3 DEF Holds, BufferAssumption
    <2> QED BY <2>1, <1>6, <1>7 DEF BufferInv
  <1>9. Nested(stack, frames')
    <2>1. Nested(stack, frames)
      BY DEF BufferInv
    <2>2. \A k, l \in 1..n + 1 : frames'[k].b = frames'[l].b /\ frames'[k].b # Initb => k = l
      BY <2>1, <1>3, <1>6, <1>7 DEF Nested
    <2>3. \A k \in 1..n : Height(frames[k]) <= Len(stack)
      <3> TAKE k \in 1..n
      <3>1. CASE k = n
        BY <3>1, <1>2, <1>5
      <3>2. CASE k < n
        <4>1. frames[n] \in luaL_Buffer /\ n \in 1..n
          BY <3>2, <1>2
        <4>2. Height(frames[k]) <= frames[n].base
          BY <3>2, <4>1, <2>1 DEF Nested
        <4>3. Height(frames[k]) \in Nat
          BY <1>2, Fields
        <4> QED BY <4>1, <4>2, <4>3, <1>2, <1>5, Fields
      <3> QED BY <3>1, <3>2, <1>2
    <2>4. \A k, l \in 1..n + 1 : k < l => Height(frames'[k]) <= frames'[l].base
      <3> SUFFICES ASSUME NEW k \in 1..n + 1, NEW l \in 1..n + 1, k < l PROVE Height(frames'[k]) <= frames'[l].base
        OBVIOUS
      <3>1. k \in 1..n /\ frames'[k] = frames[k]
        BY <1>2, <1>6
      <3>2. CASE l = n + 1
        BY <3>1, <3>2, <1>3, <1>6, <2>3
      <3>3. CASE l \in 1..n
        BY <3>1, <3>3, <1>6, <2>1 DEF Nested
      <3> QED BY <3>2, <3>3, <1>7
    <2>5. \A k \in 1..n : Height(frames'[k]) = frames'[k + 1].base
      <3> TAKE k \in 1..n
      <3>1. CASE k = n
        BY <3>1, <1>2, <1>3, <1>5, <1>6
      <3>2. CASE k < n
        <4>1. k \in 1..n - 1 /\ k + 1 \in 1..n
          BY <3>2, <1>2
        <4> QED BY <4>1, <2>1, <1>6 DEF Nested
      <3> QED BY <3>1, <3>2, <1>2
    <2>6. frames'[1].base = 0
      <3>1. CASE n = 0
        BY <3>1, <1>3, <1>5, <1>6
      <3>2. CASE n > 0
        <4>1. 1 \in 1..n
          BY <3>2, <1>2
        <4> QED BY <4>1, <3>2, <2>1, <1>6 DEF Nested
      <3> QED BY <3>1, <3>2, <1>2
    <2>7. \A k \in 1..n + 1 : frames'[k].base > 0 => stack[frames'[k].base][1] = "box"
      BY <2>1, <1>3, <1>4, <1>6, <1>7 DEF Nested
    <2>8. (n + 1) - 1 = n
      BY <1>2
    <2> HIDE DEF n
    <2> QED BY <2>2, <2>4, <2>5, <2>6, <2>7, <2>8, <1>6 DEF Nested
  <1>10. Len(stack') = (IF Len(frames') = 0 THEN 0 ELSE Height(frames'[Len(frames')]) + (IF Valued' THEN 1 ELSE 0))
    <2>1. ~Valued'
      BY <1>1, <1>4 DEF Valued
    <2>2. n + 1 # 0
      BY <1>2
    <2> HIDE DEF n
    <2> QED BY <2>1, <2>2, <1>1, <1>2, <1>3, <1>6
  <1>11. Stacked(stack', boxes') /\ Owned(boxes', heap')
    BY <1>1 DEF BufferInv
  <1> HIDE DEF n
  <1> QED BY <1>1, <1>6, <1>8, <1>9, <1>10, <1>11 DEF BufferInv

(* A function computes a string that it will add.                           *)
LEMMA ComputeKeeps == BufferAssumption /\ BufferInv /\ Compute => BufferInv'
  <1> SUFFICES ASSUME BufferAssumption, BufferInv, Compute PROVE BufferInv'
    OBVIOUS
  <1> DEFINE n == Len(frames)
             f == frames[n]
  <1>1. /\ ~AtValue /\ frames # <<>> /\ answers' = <<>> /\ frames' = frames
        /\ boxes' = boxes /\ heap' = heap
    BY DEF Compute
  <1>2. PICK p \in Additions : stack' = Append(stack, String(p))
    BY DEF Compute
  <1>3. /\ n \in Nat \ {0} /\ f \in luaL_Buffer /\ stack \in Seq(Item) /\ Len(stack) = Height(f) /\ Height(f) \in Nat
    <2>1. Height(f) \in Nat
      BY <1>1, Running, Fields
    <2> QED BY <2>1, <1>1, Running
  <1>4. String(p) \in Item
    BY DEF BufferAssumption, String, Item
  <1>5. /\ stack' \in Seq(Item) /\ Len(stack') = Len(stack) + 1 /\ stack'[Len(stack) + 1] = String(p)
        /\ \A k \in 1..Len(stack) : stack'[k] = stack[k]
    BY <1>2, <1>3, <1>4
  <1>6. Stacked(stack', boxes')
    <2> SUFFICES ASSUME NEW k \in 1..Len(stack') PROVE stack'[k][1] = "box" => stack'[k][2] \in DOMAIN boxes
      BY <1>1, <1>5 DEF Stacked
    <2>1. CASE k = Len(stack) + 1
      BY <2>1, <1>5 DEF String
    <2>2. CASE k \in 1..Len(stack)
      BY <2>2, <1>5 DEF BufferInv, Stacked
    <2> QED BY <2>1, <2>2, <1>3, <1>5
  <1>7. \A k \in 1..n : Holds(frames[k], stack', boxes, heap)
    <2> TAKE k \in 1..n
    <2>1. Holds(frames[k], stack, boxes, heap) /\ frames[k] \in luaL_Buffer
      BY DEF BufferInv, Holds
    <2>2. frames[k].base \in Nat /\ (frames[k].base + 1 <= Len(stack) =>
            frames[k].base + 1 \in 1..Len(stack) /\ frames[k].base + 1 <= Len(stack'))
      BY <2>1, <1>3, <1>5, Fields
    <2> QED BY <2>1, <2>2, <1>5 DEF Holds
  <1>8. Nested(stack', frames)
    <2>1. \A k \in 1..n : frames[k].base > 0 => stack'[frames[k].base][1] = "box"
      <3> SUFFICES ASSUME NEW k \in 1..n, frames[k].base > 0 PROVE stack'[frames[k].base][1] = "box"
        OBVIOUS
      <3>1. frames[k] \in luaL_Buffer /\ f.base <= Len(stack) /\ n \in 1..n /\ frames \in Seq(luaL_Buffer)
        BY <1>3, Fields DEF BufferInv
      <3>2. frames[k].base \in 1..Len(stack)
        <4>1. CASE k = n
          BY <4>1, <3>1, <1>3, Fields
        <4>2. CASE k < n
          <5>1. Height(frames[k]) <= f.base
            BY <4>2, <3>1 DEF BufferInv, Nested
          <5> QED BY <5>1, <3>1, <1>3, Fields
        <4> QED BY <4>1, <4>2, <1>3
      <3> QED BY <3>2, <1>5 DEF BufferInv, Nested
    <2> QED BY <2>1 DEF BufferInv, Nested
  <1>9. Valued'
    <2>1. Len(stack') > 0 /\ stack'[Len(stack')] = String(p)
      BY <1>3, <1>5
    <2> QED BY <2>1 DEF Valued, String
  <1>10. Len(stack') = (IF Len(frames') = 0 THEN 0 ELSE Height(frames'[Len(frames')]) + (IF Valued' THEN 1 ELSE 0))
    BY <1>1, <1>3, <1>5, <1>9
  <1>11. Owned(boxes', heap') /\ frames' \in Seq(luaL_Buffer)
    BY <1>1 DEF BufferInv
  <1> QED BY <1>1, <1>6, <1>7, <1>8, <1>10, <1>11 DEF BufferInv

LEMMA ErrorKeeps == BufferAssumption /\ BufferInv /\ Error => BufferInv'
  <1> SUFFICES ASSUME BufferAssumption, BufferInv, Error PROVE BufferInv'
    OBVIOUS
  <1>1. frames # <<>>
    BY DEF Error
  <1>2. PICK k \in 1..Len(frames) : Unwind(now, frames, k)
    BY DEF Error
  <1>3. Safe(stack, boxes, heap, now, frames[Len(frames)].base, frames[Len(frames)].b)
    BY <1>1, Running
  <1> HIDE DEF now
  <1> QED BY <1>2, <1>3, UnwindKeeps

(* The string that is made of a buffer takes the place of its box, whose    *)
(* block is freed.                                                         *)
LEMMA PushedSafe ==
    ASSUME BufferAssumption, BufferInv, frames # <<>>, ~AtValue,
           NEW f, f = frames[Len(frames)], NEW s, s = luaL_pushresult(now)
    PROVE  /\ Safe(stack, boxes, heap, s, f.base, f.b)
           /\ Len(s.stack) = f.base + 1 /\ s.stack[f.base + 1] = String(f.added)
  <1> DEFINE push == [now EXCEPT !.stack = Append(stack, String(f.added))]
  <1>1. /\ f \in luaL_Buffer /\ f.base \in Nat /\ stack \in Seq(Item) /\ Len(stack) = Height(f)
        /\ Holds(f, stack, boxes, heap) /\ Stacked(stack, boxes) /\ Owned(boxes, heap)
        /\ Ready(now, f, stack, boxes, heap) /\ Last(frames) = f /\ f.added \in Seq(Character)
    <2>1. Height(f) \in Nat
      BY Running, Fields
    <2> QED BY <2>1, Running, Fields
  <1>2. /\ IsState(now) /\ now.stack = stack /\ now.boxes = boxes /\ now.heap = heap /\ now.B = f /\ now.ok = TRUE
    BY <1>1 DEF IsState, now
  <1> HIDE DEF now
  <1>3. Bytes(now) = f.added
    BY <1>1, <1>2 DEF Bytes, Holds
  <1>4. s = IF f.b # Initb THEN Removed(resizebox(push, -2, 0, FAIL), -2) ELSE push
    BY <1>2, <1>3 DEF luaL_pushresult, buffonstack
  <1>5. /\ IsState(push) /\ push.stack = Append(stack, String(f.added)) /\ push.boxes = boxes
        /\ push.heap = heap /\ push.B = f /\ push.ok
    BY <1>2 DEF IsState
  <1> HIDE DEF push
  <1>6. String(f.added) \in Item
    BY <1>1 DEF String, Item
  <1>7. /\ push.stack \in Seq(Item) /\ Len(push.stack) = Len(stack) + 1
        /\ push.stack[Len(stack) + 1] = String(f.added)
        /\ \A k \in 1..Len(stack) : push.stack[k] = stack[k]
    BY <1>1, <1>5, <1>6
  <1>8. Stacked(push.stack, boxes)
    <2> SUFFICES ASSUME NEW k \in 1..Len(push.stack)
                 PROVE  push.stack[k][1] = "box" => push.stack[k][2] \in DOMAIN boxes
      BY <1>7 DEF Stacked
    <2>1. CASE k = Len(stack) + 1
      BY <2>1, <1>7 DEF String
    <2>2. CASE k \in 1..Len(stack)
      BY <2>2, <1>7, <1>1 DEF Stacked
    <2> QED BY <2>1, <2>2, <1>1, <1>7
  <1>9. f.base <= Len(stack) /\ f.base <= Len(push.stack) /\ \A k \in 1..f.base : k \in 1..Len(stack)
    BY <1>1, <1>7 DEF Ready
  <1>10. CASE f.b = Initb
    <2>1. s = push /\ Len(stack) = f.base
      BY <1>10, <1>1, <1>4 DEF Height
    <2>2. Safe(stack, boxes, heap, push, f.base, f.b)
      BY <1>1, <1>5, <1>7, <1>8, <1>9 DEF Safe
    <2> QED BY <2>1, <2>2, <1>7
  <1>11. CASE f.b # Initb
    <2> DEFINE freed == resizebox(push, -2, 0, FAIL)
               m == f.base + 1
    <2>1. /\ Len(stack) = m /\ Len(push.stack) = m + 1 /\ m \in Nat /\ m \in 1..Len(stack)
          /\ m = Len(push.stack) + 1 + (-2) /\ m \in f.base + 1..Len(push.stack)
      BY <1>11, <1>1, <1>7 DEF Height
    <2>2. PICK x \in DOMAIN boxes : stack[f.base + 1] = Box(x) /\ boxes[x] = f.b
      BY <1>11, <1>1 DEF Holds
    <2>3. push.stack[Len(push.stack) + 1 + (-2)] = Box(x)
      BY <2>1, <2>2, <1>7
    <2>4. s = Removed(freed, -2)
      BY <1>4, <1>11
    <2> HIDE DEF m
    <2>5. /\ IsState(freed) /\ freed.stack = push.stack /\ freed.B = push.B
          /\ Owned(freed.boxes, freed.heap) /\ DOMAIN freed.boxes = DOMAIN boxes
          /\ \A y \in DOMAIN boxes \ {x} : freed.boxes[y] = boxes[y]
          /\ \A block \in DOMAIN heap \ {boxes[x]} :
               block \in DOMAIN freed.heap /\ freed.heap[block] = heap[block]
      <3>1. Owned(push.boxes, push.heap) /\ x \in DOMAIN push.boxes /\ -2 \in Int /\ 0 \in Nat
        BY <1>1, <1>5
      <3>2. FAIL \in {FAIL} \cup (Blocks \ DOMAIN push.heap) \cup ({push.boxes[x]} \ {NoBlock})
        OBVIOUS
      <3> HIDE DEF freed
      <3>3. Resized(freed, push, x)
        <4> DEFINE idx == -2
                   none == 0
        <4>1. idx \in Int /\ none \in Nat /\ push.stack[Len(push.stack) + 1 + idx] = Box(x)
              /\ freed = resizebox(push, idx, none, FAIL)
          BY <2>3 DEF freed
        <4> HIDE DEF idx, none
        <4> QED BY ONLY BufferAssumption, <3>1, <3>2, <4>1, <1>5, ResizeKeeps
      <3> QED BY <3>3, <1>5 DEF Resized
    <2> HIDE DEF freed
    <2>6. Safe(stack, boxes, heap, freed, f.base, f.b)
      BY <2>2, <2>5, <1>7, <1>8, <1>9 DEF Safe, Stacked
    <2>7. Safe(stack, boxes, heap, s, f.base, f.b) /\ Without(s, freed, m)
      <3> DEFINE idx == -2
      <3>1. m \in f.base + 1..Len(freed.stack) /\ m = Len(freed.stack) + 1 + idx /\ idx \in Int
        BY <2>1, <2>5
      <3>2. f.base \in Nat /\ IsState(freed) /\ s = Removed(freed, idx)
        BY <1>1, <2>4, <2>5
      <3> HIDE DEF idx
      <3> QED BY ONLY BufferAssumption, <2>6, <3>1, <3>2, RemovedSafe
    <2>8. Len(s.stack) = m /\ s.stack[m] = push.stack[m + 1]
      <3>1. m \in m..Len(freed.stack) - 1 /\ Len(freed.stack) = m + 1
        BY <2>1, <2>5
      <3>2. /\ Len(s.stack) = Len(freed.stack) - 1
            /\ \A k \in m..Len(freed.stack) - 1 : s.stack[k] = freed.stack[k + 1]
        BY <2>7 DEF Without
      <3> QED BY <3>1, <3>2, <2>1, <2>5
    <2>9. push.stack[m + 1] = String(f.added)
      BY <2>1, <1>7
    <2> QED BY <2>7, <2>8, <2>9 DEF m
  <1> QED BY <1>10, <1>11

(* The string is ready, maybe for the function that called.                 *)
LEMMA FinishKeeps == BufferAssumption /\ BufferInv /\ Finish => BufferInv'
  <1> SUFFICES ASSUME BufferAssumption, BufferInv, Finish PROVE BufferInv'
    OBVIOUS
  <1> DEFINE n == Len(frames)
             f == frames[n]
             s == luaL_pushresult(now)
             next == [stack |-> stack', boxes |-> boxes', heap |-> heap']
  <1>1. frames # <<>> /\ ~AtValue
    BY DEF Finish
  <1>2. n \in Nat /\ n \in 1..n /\ frames \in Seq(luaL_Buffer) /\ f \in luaL_Buffer /\ f.base \in Nat /\ Last(frames) = f
    <2>1. n \in Nat \ {0} /\ f \in luaL_Buffer /\ f.base \in Nat /\ Last(frames) = f
      BY <1>1, Running
    <2> HIDE DEF f
    <2>2. n \in 1..n /\ frames \in Seq(luaL_Buffer)
      BY <2>1 DEF BufferInv
    <2> QED BY <2>1, <2>2
  <1>3. /\ answers' = <<f.added, SubSeq(s.stack, f.base + 1, Len(s.stack))>>
        /\ frames' = SubSeq(frames, 1, n - 1)
        /\ stack' = IF n = 1 THEN <<>> ELSE s.stack
        /\ boxes' = s.boxes /\ heap' = s.heap
    BY <1>2 DEF Finish
  <1>4. /\ Safe(stack, boxes, heap, s, f.base, f.b)
        /\ Len(s.stack) = f.base + 1 /\ s.stack[f.base + 1] = String(f.added)
    BY <1>1, PushedSafe
  <1> HIDE DEF s
  <1>5. s.stack \in Seq(Item)
    BY <1>4 DEF Safe, Stacked
  <1>6. answers'[2] = <<String(answers'[1])>>
    <2> DEFINE t == s.stack
               m == f.base + 1
    <2>1. t \in Seq(Item) /\ m \in 1..Len(t) /\ m = Len(t) /\ t[m] = String(f.added)
      BY <1>2, <1>4, <1>5
    <2> HIDE DEF t, m
    <2>2. SubSeq(t, m, Len(t)) = <<t[m]>>
      <3> DEFINE u == SubSeq(t, m, m)
      <3>1. u \in Seq(Item) /\ Len(u) = 1 /\ u[1] = t[m]
        BY <2>1
      <3> HIDE DEF u
      <3>2. u = <<t[m]>>
        BY <3>1
      <3> QED BY <3>2, <2>1 DEF u
    <2> QED BY <2>1, <2>2, <1>3 DEF t, m
  <1> HIDE DEF f
  <1>7. Stacked(stack', boxes') /\ Owned(boxes', heap')
    BY <1>3, <1>4 DEF Safe, Stacked
  <1>8. n = 1 => f.base = 0
    BY DEF BufferInv, Nested, f
  <1>9. Safe(stack, boxes, heap, next, f.base, f.b)
    <2>1. CASE n # 1
      BY <2>1, <1>3, <1>4, <1>7 DEF Safe
    <2>2. CASE n = 1
      <3>1. f.base = 0 /\ stack' = <<>> /\ Len(stack') = 0
        BY <2>2, <1>8, <1>3
      <3> QED BY <3>1, <1>3, <1>4, <1>7 DEF Safe
    <2> QED BY <2>1, <2>2
  <1>10. /\ frames' \in Seq(luaL_Buffer) /\ Len(frames') = n - 1
         /\ \A l \in 1..n - 1 : Holds(frames'[l], stack', boxes', heap')
         /\ Nested(stack', frames')
         /\ n > 1 => f.base = Height(frames'[n - 1])
    <2>1. /\ frames' \in Seq(luaL_Buffer) /\ Len(frames') = n - 1
          /\ \A l \in 1..n - 1 : Holds(frames'[l], next.stack, next.boxes, next.heap)
          /\ Nested(next.stack, frames')
          /\ n > 1 => f.base = Height(frames'[n - 1])
      <3> HIDE DEF next
      <3>1. Safe(stack, boxes, heap, next, frames[n].base, frames[Len(frames)].b)
        BY <1>9 DEF f
      <3> QED BY <1>2, <1>3, <3>1, Below DEF f
    <2> QED BY <2>1
  <1>11. Len(stack') = (IF Len(frames') = 0 THEN 0 ELSE Height(frames'[Len(frames')]) + (IF Valued' THEN 1 ELSE 0))
    <2>1. CASE n = 1
      BY <2>1, <1>3, <1>10
    <2>2. CASE n # 1
      <3>1. stack' = s.stack /\ Len(stack') = f.base + 1 /\ stack'[Len(stack')] = String(f.added)
        BY <2>2, <1>3, <1>4
      <3>2. Valued'
        BY <3>1, <1>2 DEF Valued, String
      <3>3. n > 1 /\ n - 1 # 0
        <4>1. \A q \in Nat : q \in 1..q /\ q # 1 => q > 1 /\ q - 1 # 0
          OBVIOUS
        <4> HIDE DEF n
        <4> QED BY <4>1, <2>2, <1>2
      <3> HIDE DEF n
      <3> QED BY <3>1, <3>2, <3>3, <1>2, <1>10
    <2> QED BY <2>1, <2>2
  <1> QED BY <1>6, <1>7, <1>10, <1>11 DEF BufferInv

(* A box that no stack slot refers to belongs to no buffer.                 *)
LEMMA boxgcKeeps == BufferAssumption /\ BufferInv /\ boxgc => BufferInv'
  <1> SUFFICES ASSUME BufferAssumption, BufferInv, boxgc PROVE BufferInv'
    OBVIOUS
  <1>1. PICK x \in DOMAIN boxes :
          /\ Box(x) \notin ToSet(stack)
          /\ heap' = Drop(heap, boxes[x])
          /\ boxes' = Drop(boxes, x)
          /\ UNCHANGED <<stack, frames, answers>>
    BY DEF boxgc
  <1>2. /\ stack \in Seq(Item) /\ \A k \in 1..Len(stack) : stack[k] # Box(x)
        /\ \A k \in 1..Len(stack) : stack[k][1] = "box" => stack[k][2] \in DOMAIN boxes
    BY <1>1 DEF ToSet, BufferInv, Stacked
  <1>3. /\ DOMAIN boxes' = DOMAIN boxes \ {x} /\ \A y \in DOMAIN boxes \ {x} : boxes'[y] = boxes[y]
        /\ DOMAIN heap' = DOMAIN heap \ {boxes[x]}
        /\ \A block \in DOMAIN heap \ {boxes[x]} : heap'[block] = heap[block]
    BY <1>1 DEF Drop
  <1>4. Owned(boxes, heap)
    BY DEF BufferInv
  <1>5. Stacked(stack', boxes')
    <2> SUFFICES ASSUME NEW k \in 1..Len(stack), stack[k][1] = "box" PROVE stack[k][2] # x
      BY <1>1, <1>2, <1>3 DEF Stacked
    <2>1. stack[k] \in Item
      BY <1>2
    <2>2. stack[k] = Box(stack[k][2])
      BY <2>1 DEF Item, Box
    <2> QED BY <2>2, <1>2
  <1>6. Owned(boxes', heap')
    <2>1. \A y \in DOMAIN boxes \ {x} : boxes[y] # boxes[x] \/ boxes[y] = NoBlock
      BY <1>4 DEF Owned
    <2>2. \A y \in DOMAIN boxes' : boxes'[y] \in DOMAIN heap' \cup {NoBlock}
      BY <1>3, <1>4, <2>1 DEF Owned
    <2>3. \A y, z \in DOMAIN boxes' : boxes'[y] = boxes'[z] /\ boxes'[y] # NoBlock => y = z
      BY <1>3, <1>4 DEF Owned
    <2>4. \A block \in DOMAIN heap' : \E y \in DOMAIN boxes' : boxes'[y] = block
      <3> TAKE block \in DOMAIN heap'
      <3>1. PICK y \in DOMAIN boxes : boxes[y] = block
        BY <1>3, <1>4 DEF Owned
      <3>2. y # x
        BY <3>1, <1>3
      <3> QED BY <3>1, <3>2, <1>3
    <2> QED BY <2>2, <2>3, <2>4, <1>3, <1>4 DEF Owned
  <1>7. \A k \in 1..Len(frames) : Holds(frames[k], stack, boxes', heap')
    <2> TAKE k \in 1..Len(frames)
    <2> DEFINE f == frames[k]
    <2>1. Holds(f, stack, boxes, heap) /\ f \in luaL_Buffer
      BY DEF BufferInv, Holds
    <2> SUFFICES Holds(f, stack, boxes', heap')
      OBVIOUS
    <2> HIDE DEF f
    <2>2. CASE f.b = Initb
      BY <2>1, <2>2 DEF Holds
    <2>3. CASE f.b # Initb
      <3>1. PICK y \in DOMAIN boxes : stack[f.base + 1] = Box(y) /\ boxes[y] = f.b
        BY <2>1, <2>3 DEF Holds
      <3>2. f.base + 1 \in 1..Len(stack)
        BY <2>1, <2>3, <1>2, Fields DEF Holds
      <3>3. y # x
        BY <3>1, <3>2, <1>2
      <3>4. f.b # NoBlock /\ f.b \in DOMAIN heap /\ f.b # boxes[x]
        BY <2>1, <2>3, <3>1, <3>3, <1>4, Fields DEF Holds, Owned
      <3>5. y \in DOMAIN boxes' /\ boxes'[y] = f.b /\ f.b \in DOMAIN heap' /\ heap'[f.b] = heap[f.b]
        BY <3>1, <3>3, <3>4, <1>3
      <3> QED BY <2>1, <2>3, <3>1, <3>5 DEF Holds
    <2> QED BY <2>2, <2>3
  <1>8. Valued' <=> Valued
    BY <1>1 DEF Valued
  <1> QED BY <1>1, <1>5, <1>6, <1>7, <1>8 DEF BufferInv

LEMMA InitKeeps == BufferAssumption /\ BufferInit => BufferInv
  BY DEF BufferInit, BufferInv, Stacked, Owned, Nested

LEMMA Part ==
    ASSUME NEW st \in Seq(Item), NEW a \in Nat, NEW t \in Nat, a <= t, t <= Len(st)
    PROVE  /\ SubSeq(st, a + 1, t) \in Seq(Item) /\ Len(SubSeq(st, a + 1, t)) = t - a
           /\ \A i \in 1..t - a : SubSeq(st, a + 1, t)[i] = st[a + i]
  OBVIOUS

(* One box frees a block.                                                   *)
LEMMA InvKept == BufferAssumption /\ BufferInv => BuffersKept
  <1> SUFFICES ASSUME BufferAssumption, BufferInv PROVE BuffersKept
    OBVIOUS
  <1> DEFINE n == Len(frames)
  <1>1. /\ n \in Nat /\ stack \in Seq(Item) /\ Len(stack) \in Nat
        /\ \A k \in 1..n : /\ frames[k] \in luaL_Buffer /\ Holds(frames[k], stack, boxes, heap)
                           /\ frames[k].base \in Nat /\ Height(frames[k]) \in Nat
    <2>1. \A k \in 1..n : frames[k] \in luaL_Buffer
      BY DEF BufferInv
    <2> QED BY <2>1, Fields DEF BufferInv, Stacked
  <1>2. \A k \in 1..n : BytesOf(frames[k]) = frames[k].added
    BY <1>1 DEF Holds, BytesOf
  <1>3. NothingLost
    BY <1>2 DEF NothingLost, BufferInv
  <1>4. InBounds
    BY <1>1, <1>2 DEF InBounds, Holds
  <1>5. BoxInPlace
    <2> SUFFICES ASSUME NEW k \in 1..n
                 PROVE  LET top == IF k = n THEN Len(stack) ELSE frames[k + 1].base
                            own == SubSeq(stack, frames[k].base + 1, top)
                            held == IF k = n /\ AtValue THEN SubSeq(own, 1, Len(own) - 1) ELSE own
                        IN  IF frames[k].b = Initb THEN held = <<>>
                            ELSE Len(held) = 1 /\ boxes[held[1][2]] = frames[k].b
      BY DEF BoxInPlace
    <2> DEFINE f == frames[k]
               top == IF k = n THEN Len(stack) ELSE frames[k + 1].base
               own == SubSeq(stack, f.base + 1, top)
               held == IF k = n /\ AtValue THEN SubSeq(own, 1, Len(own) - 1) ELSE own
               value == IF k = n /\ AtValue THEN 1 ELSE 0
    <2>1. f.base \in Nat /\ Height(f) \in Nat /\ Holds(f, stack, boxes, heap)
          /\ Height(f) = IF f.b = Initb THEN f.base ELSE f.base + 1
      BY <1>1 DEF Height
    <2>2. top = Height(f) + value /\ top <= Len(stack)
      <3>1. AtValue <=> Valued
        BY <1>1 DEF AtValue, Valued, Last
      <3>2. Len(stack) = Height(frames[n]) + (IF AtValue THEN 1 ELSE 0)
        BY <1>1, <3>1 DEF BufferInv
      <3>3. CASE k = n
        BY <3>2, <3>3
      <3>4. CASE k # n
        <4>1. k \in 1..n - 1 /\ k + 1 \in 1..n /\ n \in 1..n
          BY <3>4, <1>1
        <4>2. Height(f) = frames[k + 1].base
          BY <4>1 DEF BufferInv, Nested
        <4>3. frames[k + 1].base <= Len(stack)
          <5>1. CASE k + 1 = n
            <6>1. frames[n].base <= Height(frames[n]) /\ frames[n].base \in Nat /\ Height(frames[n]) \in Nat
              BY <4>1, <1>1, Fields
            <6> QED BY <6>1, <5>1, <3>2
          <5>2. CASE k + 1 # n
            <6>1. k + 1 < n
              BY <5>2, <4>1, <1>1
            <6>2. Height(frames[k + 1]) <= frames[n].base
              BY <6>1, <4>1 DEF BufferInv, Nested
            <6>3. /\ frames[n].base <= Height(frames[n]) /\ frames[n].base \in Nat /\ Height(frames[n]) \in Nat
                  /\ frames[k + 1].base <= Height(frames[k + 1]) /\ frames[k + 1].base \in Nat
                  /\ Height(frames[k + 1]) \in Nat
              BY <4>1, <1>1, Fields
            <6> QED BY <6>2, <6>3, <3>2
          <5> QED BY <5>1, <5>2
        <4> QED BY <4>2, <4>3, <3>4, <2>1
      <3> QED BY <3>3, <3>4
    <2> HIDE DEF f, top
    <2>3. /\ top \in Nat /\ value \in 0..1 /\ top - f.base = Height(f) - f.base + value
          /\ top - f.base \in 0..2 /\ f.base + 1 \in 1..top + 1
      <3> DEFINE h == Height(f)
      <3>1. h = f.base \/ h = f.base + 1
        BY <2>1
      <3>2. h \in Nat /\ f.base \in Nat /\ top = h + value
        BY <2>1, <2>2
      <3>3. value = 0 \/ value = 1
        OBVIOUS
      <3> HIDE DEF h, value
      <3>4. /\ top \in Nat /\ value \in 0..1 /\ top - f.base = h - f.base + value
            /\ top - f.base \in 0..2 /\ f.base + 1 \in 1..top + 1
        BY <3>1, <3>2, <3>3
      <3> QED BY <3>4 DEF h
    <2>4. /\ own \in Seq(Item) /\ Len(own) = top - f.base
          /\ \A i \in 1..top - f.base : own[i] = stack[f.base + i]
      <3>1. f.base \in Nat /\ top \in Nat /\ f.base <= top /\ top <= Len(stack)
        BY <2>1, <2>2, <2>3
      <3> QED BY <3>1, <1>1, Part
    <2> HIDE DEF own
    <2>5. /\ held \in Seq(Item) /\ Len(held) = Height(f) - f.base
          /\ \A i \in 1..Len(held) : held[i] = stack[f.base + i]
      <3>1. CASE value = 1
        <4>1. held = SubSeq(own, 1, Len(own) - 1) /\ Len(own) \in Nat \ {0} /\ Len(own) - 1 = Height(f) - f.base
          <5>1. held = SubSeq(own, 1, Len(own) - 1)
            BY <3>1
          <5>2. Len(own) = Height(f) - f.base + 1 /\ Height(f) - f.base \in 0..1
            <6>1. Height(f) - f.base = 0 \/ Height(f) - f.base = 1
              BY <2>1
            <6> HIDE DEF value
            <6> QED BY <6>1, <3>1, <2>3, <2>4
          <5> HIDE DEF held, value
          <5> QED BY <5>1, <5>2
        <4>2. /\ held \in Seq(Item) /\ Len(held) = Len(own) - 1
              /\ \A i \in 1..Len(own) - 1 : held[i] = own[i]
          BY <4>1, <2>4
        <4>3. \A i \in 1..Len(own) - 1 : i \in 1..top - f.base
          BY <2>3, <2>4
        <4> QED BY <4>1, <4>2, <4>3, <2>4
      <3>2. CASE value = 0
        BY <3>2, <2>1, <2>3, <2>4
      <3> QED BY <3>1, <3>2
    <2> HIDE DEF held, value
    <2>6. CASE f.b = Initb
      <3>1. held = <<>>
        BY <2>1, <2>5, <2>6
      <3> QED BY <3>1, <2>6 DEF held, own, top, f
    <2>7. CASE f.b # Initb
      <3>1. Len(held) = 1 /\ held[1] = stack[f.base + 1]
        BY <2>1, <2>5, <2>7
      <3>2. Len(held) = 1 /\ boxes[held[1][2]] = f.b
        BY <3>1, <2>1, <2>7 DEF Holds, Box
      <3> QED BY <3>2, <2>7 DEF held, own, top, f
    <2> QED BY <2>6, <2>7
  <1>6. EachBlockHasItsBox
    <2> SUFFICES ASSUME NEW mem \in DOMAIN heap PROVE Cardinality({x \in DOMAIN boxes : boxes[x] = mem}) = 1
      BY DEF EachBlockHasItsBox
    <2>1. PICK y \in DOMAIN boxes : boxes[y] = mem
      BY DEF BufferInv, Owned
    <2>2. mem # NoBlock
      BY DEF BufferInv, Owned, BufferAssumption
    <2>3. {x \in DOMAIN boxes : boxes[x] = mem} = {y}
      BY <2>1, <2>2 DEF BufferInv, Owned
    <2> QED BY <2>3, FS_Singleton
  <1> QED BY <1>3, <1>4, <1>5, <1>6 DEF BuffersKept

(* Whatever fails, and whoever builds a string while another one is built,  *)
(* a buffer loses no byte, stays inside its memory and finds its box, and  *)
(* no block of memory is lost or freed twice.                              *)
THEOREM BuffersAreKept ==
    ASSUME BufferAssumption PROVE BufferSpec => []BuffersKept
  <1>1. BufferInit => BufferInv
    BY InitKeeps
  <1>2. BufferInv /\ [BufferNext]_bufferVars => BufferInv'
    <2> SUFFICES ASSUME BufferInv, [BufferNext]_bufferVars PROVE BufferInv'
      OBVIOUS
    <2>1. CASE UNCHANGED bufferVars
      BY <2>1 DEF bufferVars, BufferInv, Valued
    <2>2. CASE BufferNext
      BY <2>2, StartKeeps, AddStringKeeps, ComputeKeeps, AddValueKeeps, FinishKeeps, ErrorKeeps, boxgcKeeps
         DEF BufferNext
    <2> QED BY <2>1, <2>2
  <1>3. BufferInv => BuffersKept
    BY InvKept
  <1> QED BY <1>1, <1>2, <1>3, PTL DEF BufferSpec
=============================================================================

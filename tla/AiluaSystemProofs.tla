-------------------------- MODULE AiluaSystemProofs --------------------------
(***************************************************************************)
(* Proofs about the composition of the NIF and the engine, for any number  *)
(* of processes, references, dirty schedulers and requests.                *)
(***************************************************************************)
EXTENDS AiluaSystem, AiluaNifProofs

\* The requests of the composition move references and jobs only as AiluaNif
\* says: a request that returns was inside its virtual machine.
LEMMA NifMoves == NifInv /\ [SysNext]_sys => [Next]_vars
<1> SUFFICES ASSUME NifInv, [SysNext]_sys PROVE [Next]_vars
  OBVIOUS
<1>1. CASE UNCHANGED sys
  BY <1>1 DEF sys
<1>2. ASSUME NEW p \in Proc, NEW r \in Ref, NEW op \in Op, Asks(p, r, op)
      PROVE  Next
  BY <1>2 DEF Asks, Next
<1>3. ASSUME NEW p \in Proc, Starts(p) PROVE Next
  BY <1>3 DEF Starts, Next
<1>4. ASSUME NEW p \in Proc, Engine(p) PROVE [Next]_vars
  <2>1. CASE Returns(p)
    <3>1. CallReturns(p, req[p].ref)
      BY <2>1 DEF Returns
    <3>2. req[p].ref \in Ref
      BY <3>1 DEF CallReturns, NifInv, TypeOK
    <3> QED BY <3>1, <3>2 DEF Next
  <2> QED BY <1>4, <2>1 DEF Engine, Prepares, Pushes, ScriptReads, ScriptWrites
<1>5. ASSUME NEW p \in Proc, Ends(p) PROVE Next
  BY <1>5 DEF Ends, Next
<1>6. CASE Elsewhere
  BY <1>6 DEF Elsewhere, Next
<1> QED BY <1>1, <1>2, <1>3, <1>4, <1>5, <1>6 DEF SysNext

\* The composition is a behaviour of AiluaNif, so all that is proved of
\* references and schedulers there holds with the engine inside.
LEMMA SystemIsNif == SysSpec => Spec /\ []NifInv
<1>1. SysInit => Init /\ NifInv
  BY NifInit DEF SysInit
<1> QED BY <1>1, NifMoves, NifStep, PTL DEF SysSpec, Spec

\* With the engine inside, too, one thread at a time is in a virtual machine, as
\* long as clients hand their Refs over instead of sharing them.
THEOREM SystemOneThread ==
  ASSUME Sharing # "shared"
  PROVE  SysSpec => []OneThreadPerVM
  BY SystemIsNif, OneThread, PTL

-----------------------------------------------------------------------------
(***************************************************************************)
(* The inductive invariant of the engine's steps.                          *)
(***************************************************************************)
Steps == {"begin", "prepared", "pushed", "read", "badarg", "raised", "returned"}
SlotSet == [k : {"function", "argument", "result"}, v : Seq(Nat)]
AnswerSet == (Nat \ {0}) \X {"ok", "badarg", "error"} \X Seq(SlotSet)

\* The steps and what they keep have their types.
SysTypeOK ==
    /\ stack \in [Ref -> Seq(SlotSet)]
    /\ log \in [Ref -> Seq(Nat)]
    /\ at \in [Proc -> Steps \cup {"out"}]
    /\ req \in [Proc -> Abstract!Request \cup {NoRequest}]
    /\ seen \in [Proc -> Seq(Nat)]
    /\ told \in [Proc -> Seq(AnswerSet)]
    /\ issued \in Nat

\* A process has a request while its job waits or runs, and steps while it runs.
WorkOf(p) ==
    /\ IF pc[p] \in {"queued", "running"}
       THEN req[p] # NoRequest /\ req[p].ref = arg[p]
       ELSE req[p] = NoRequest
    /\ IF pc[p] = "running"
       THEN at[p] # "out" /\ <<p, arg[p]>> \in running
       ELSE at[p] = "out"
Work == \A p \in Proc : WorkOf(p)

\* What one call alone has on the stack of its virtual machine.
StackAt(p) ==
    CASE at[p] = "prepared" -> <<Slot("function", <<>>)>>
      [] at[p] \in {"pushed", "read"} -> <<Slot("function", <<>>), Slot("argument", <<>>)>>
      [] at[p] = "returned" -> <<Slot("result", seen[p])>>
      [] OTHER -> <<>>

\* The stack holds what the call inside has pushed, and nothing between calls.
StackOf(r) ==
    /\ \A p \in Proc : <<p, r>> \in running => stack[r] = StackAt(p)
    /\ (\A p \in Proc : <<p, r>> \notin running) => stack[r] = <<>>
Stacks == \A r \in Ref : StackOf(r)

\* A script runs only if its arguments were taken, and between its read and
\* its write nobody writes.
ScriptOf(p) ==
    /\ at[p] \in {"pushed", "read"} => req[p].op # "refused"
    /\ at[p] = "read" => seen[p] = log[req[p].ref]
Scripts == \A p \in Proc : ScriptOf(p)

SysInv == SysTypeOK /\ Work /\ Stacks /\ Scripts

\* It holds in a fresh node.
LEMMA SysInvInit == SysInit => SysInv
<1> SUFFICES ASSUME SysInit PROVE SysInv
  OBVIOUS
<1>1. SysTypeOK
  BY DEF SysInit, SysTypeOK
<1>2. Work
  BY DEF SysInit, Init, Work, WorkOf
<1>3. Stacks
  BY DEF SysInit, Init, Stacks, StackOf
<1>4. Scripts
  BY DEF SysInit, Scripts, ScriptOf
<1> QED BY <1>1, <1>2, <1>3, <1>4 DEF SysInv

\* Who runs in a virtual machine named r.
LEMMA RunsIn ==
  ASSUME NifInv, SysInv, NEW p \in Proc, pc[p] = "running"
  PROVE  /\ req[p] \in Abstract!Request /\ req[p].ref = arg[p] /\ arg[p] \in Ref
         /\ <<p, arg[p]>> \in running
         /\ at[p] \in Steps
         /\ stack[arg[p]] = StackAt(p)
<1>1. /\ req[p] # NoRequest /\ req[p].ref = arg[p]
      /\ at[p] # "out" /\ <<p, arg[p]>> \in running
  BY DEF SysInv, Work, WorkOf
<1>2. arg[p] \in Ref
  BY DEF NifInv, TypeOK
<1> QED BY <1>1, <1>2 DEF SysInv, SysTypeOK, Stacks, StackOf

-----------------------------------------------------------------------------
(***************************************************************************)
(* Every step keeps the invariant.                                         *)
(***************************************************************************)
\* A step of p inside its virtual machine, seen from the other processes: none
\* of them is in there.
LEMMA InsideStep ==
  ASSUME NifInv, SysInv, OneThreadPerVM, NEW p \in Proc, pc[p] = "running",
         UNCHANGED <<vars, req, told, issued>>,
         NEW a \in Steps, at' = [at EXCEPT ![p] = a],
         NEW s \in Seq(SlotSet), stack' = [stack EXCEPT ![arg[p]] = s],
         NEW n \in Seq(Nat), seen' = [seen EXCEPT ![p] = n],
         NEW l \in Seq(Nat), log' = [log EXCEPT ![arg[p]] = l],
         s = StackAt(p)', ScriptOf(p)'
  PROVE  SysInv'
<1>1. /\ req[p] \in Abstract!Request /\ req[p].ref = arg[p] /\ arg[p] \in Ref
      /\ <<p, arg[p]>> \in running /\ at[p] \in Steps
  BY RunsIn
<1>2. SysTypeOK'
  BY <1>1 DEF SysInv, SysTypeOK, Steps
<1>3. Work'
  BY <1>1 DEF SysInv, SysTypeOK, Work, WorkOf, vars, Steps
<1>4. ASSUME NEW q \in Proc, NEW r \in Ref, <<q, r>> \in running, q # p
      PROVE  r # arg[p]
  BY <1>1, <1>4 DEF OneThreadPerVM
<1>5. \A r \in Ref : r # arg[p] => stack'[r] = stack[r] /\ log'[r] = log[r]
  BY <1>1 DEF SysInv, SysTypeOK
<1>6. \A q \in Proc : q # p => at'[q] = at[q] /\ seen'[q] = seen[q] /\ StackAt(q)' = StackAt(q)
  BY DEF SysInv, SysTypeOK, StackAt
<1>7. ASSUME NEW r \in Ref PROVE StackOf(r)'
  <2>1. ASSUME NEW q \in Proc, <<q, r>> \in running' PROVE stack'[r] = StackAt(q)'
    <3>1. CASE q = p
      <4>1. r = arg[p]
        BY <2>1, <3>1 DEF NifInv, Working, vars
      <4> QED BY <1>1, <3>1, <4>1 DEF SysInv, SysTypeOK
    <3>2. CASE q # p
      <4>1. <<q, r>> \in running
        BY <2>1 DEF vars
      <4> QED BY <1>4, <1>5, <1>6, <3>2, <4>1 DEF SysInv, Stacks, StackOf
    <3> QED BY <3>1, <3>2
  <2>2. ASSUME \A q \in Proc : <<q, r>> \notin running' PROVE stack'[r] = <<>>
    <3>1. r # arg[p] /\ \A q \in Proc : <<q, r>> \notin running
      BY <1>1, <2>2 DEF vars
    <3> QED BY <1>5, <3>1 DEF SysInv, Stacks, StackOf
  <2> QED BY <2>1, <2>2 DEF StackOf
<1>8. ASSUME NEW q \in Proc PROVE ScriptOf(q)'
  <2>1. CASE q # p /\ at[q] = "read"
    <3>1. /\ req[q].ref = arg[q] /\ <<q, arg[q]>> \in running /\ arg[q] \in Ref
      BY <2>1 DEF SysInv, Work, WorkOf, NifInv, TypeOK
    <3> QED BY <1>4, <1>5, <1>6, <2>1, <3>1 DEF SysInv, Scripts, ScriptOf
  <2>2. CASE q # p /\ at[q] # "read"
    BY <1>6, <2>2 DEF SysInv, Scripts, ScriptOf
  <2> QED BY <2>1, <2>2
<1>9. Stacks' /\ Scripts'
  BY <1>7, <1>8 DEF Stacks, Scripts
<1> QED BY <1>2, <1>3, <1>9 DEF SysInv

\* A step outside of every virtual machine: no job starts, returns or changes
\* what it works on.
LEMMA OutsideStep ==
  ASSUME SysInv, UNCHANGED <<inner, issued, running>>,
         \A p \in Proc : IF pc[p] \in {"queued", "running"}
                         THEN pc'[p] = pc[p] /\ arg'[p] = arg[p]
                         ELSE pc'[p] \notin {"queued", "running"}
  PROVE  SysInv'
<1>1. SysTypeOK' /\ Stacks' /\ Scripts'
  BY DEF SysInv, SysTypeOK, Stacks, StackOf, StackAt, Scripts, ScriptOf, inner
<1>2. Work'
  BY DEF SysInv, Work, WorkOf, inner
<1> QED BY <1>1, <1>2 DEF SysInv

\* Creating, sending, forgetting and destroying references are such steps.
LEMMA ElsewhereInv ==
  ASSUME NifInv, SysInv, Elsewhere
  PROVE  SysInv'
<1>1. ASSUME NEW p \in Proc, NewStep(p) PROVE SysInv'
  <2>1. pc[p] \in Stages
    BY <1>1 DEF NewStep, NewFails, NewOpens, NewMakesTerm, NewReleases, NewReturns, Stages
  <2>2. \E to \in {"idle"} \cup Stages : pc' = [pc EXCEPT ![p] = to]
    BY <1>1 DEF NewStep, NewFails, NewOpens, NewMakesTerm, NewReleases, NewReturns, Stages
  <2>3. UNCHANGED <<running, arg>>
    BY <1>1 DEF NewStep, NewFails, NewOpens, NewMakesTerm, NewReleases, NewReturns
  <2> QED BY <2>1, <2>2, <2>3, OutsideStep DEF Elsewhere, NifInv, TypeOK, Stages
<1>2. ASSUME NEW p \in Proc, KilledInCall(p) PROVE SysInv'
  BY <1>2, OutsideStep DEF KilledInCall, Elsewhere
<1>3. ASSUME NEW p \in Proc, NEW r \in Ref, NewAllocates(p, r) PROVE SysInv'
  BY <1>3, OutsideStep DEF NewAllocates, Idle, Elsewhere, NifInv, TypeOK
<1>4. ASSUME NEW p \in Proc, NEW r \in Ref,
             Receive(p, r) \/ Forget(p, r) \/ \E q \in Proc : Send(p, q, r)
      PROVE  SysInv'
  BY <1>4, OutsideStep DEF Receive, Forget, Send, Elsewhere
<1>5. ASSUME NEW r \in Ref, Destroy(r) PROVE SysInv'
  BY <1>5, OutsideStep DEF Destroy, Elsewhere
<1> QED BY <1>1, <1>2, <1>3, <1>4, <1>5 DEF Elsewhere

\* A request is made, its job waits.
LEMMA AsksInv ==
  ASSUME NifInv, SysInv, NEW p \in Proc, NEW r \in Ref, NEW op \in Op, Asks(p, r, op)
  PROVE  SysInv' /\ req[p] = NoRequest /\ req'[p] \in Abstract!Request
         /\ req' = [req EXCEPT ![p] = req'[p]]
<1>1. /\ pc[p] = "idle" /\ pc' = [pc EXCEPT ![p] = "queued"] /\ arg' = [arg EXCEPT ![p] = r]
      /\ running' = running /\ UNCHANGED <<stack, log, at, seen, told>>
      /\ issued' = issued + 1
      /\ req' = [req EXCEPT ![p] = [id |-> issued + 1, op |-> op, ref |-> r]]
  BY DEF Asks, Call, Idle
<1>2. [id |-> issued + 1, op |-> op, ref |-> r] \in Abstract!Request
  BY DEF Abstract!Request, SysInv, SysTypeOK
<1>3. req'[p] = [id |-> issued + 1, op |-> op, ref |-> r] /\ req'[p] # NoRequest
  BY <1>1, <1>2, SystemAssumption DEF SysInv, SysTypeOK, Abstract!Request
<1>4. req[p] = NoRequest /\ at[p] = "out"
  BY <1>1 DEF SysInv, Work, WorkOf
<1>5. SysTypeOK'
  BY <1>1, <1>2 DEF SysInv, SysTypeOK
<1>6. Work'
  <2> SUFFICES ASSUME NEW q \in Proc PROVE WorkOf(q)'
    BY DEF Work
  <2>1. CASE q = p
    BY <1>1, <1>3, <1>4, <2>1 DEF WorkOf, NifInv, TypeOK
  <2>2. CASE q # p
    BY <1>1, <2>2 DEF SysInv, SysTypeOK, Work, WorkOf, NifInv, TypeOK
  <2> QED BY <2>1, <2>2
<1>7. Stacks'
  BY <1>1 DEF SysInv, Stacks, StackOf, StackAt
<1>8. Scripts'
  <2> SUFFICES ASSUME NEW q \in Proc PROVE ScriptOf(q)'
    BY DEF Scripts
  <2>1. CASE q = p
    BY <1>1, <1>4, <2>1 DEF ScriptOf
  <2>2. CASE q # p
    BY <1>1, <2>2 DEF SysInv, SysTypeOK, Scripts, ScriptOf
  <2> QED BY <2>1, <2>2
<1> QED BY <1>1, <1>2, <1>3, <1>4, <1>5, <1>6, <1>7, <1>8 DEF SysInv

\* A free scheduler takes the job: the virtual machine is entered with nothing
\* on its stack.
LEMMA StartsInv ==
  ASSUME NifInv, SysInv, OneThreadPerVM', NEW p \in Proc, Starts(p)
  PROVE  SysInv'
<1>1. /\ queue # <<>> /\ p = Head(queue)
      /\ pc' = [pc EXCEPT ![p] = "running"] /\ running' = running \cup {<<p, arg[p]>>}
      /\ UNCHANGED <<arg, stack, log, req, seen, told, issued>>
      /\ at' = [at EXCEPT ![p] = "begin"]
  BY DEF Starts, CallStarts, To
<1>2. pc[p] = "queued" /\ arg[p] \in Ref
  <2>1. 1 \in 1..Len(queue) /\ queue[1] = p
    BY <1>1 DEF NifInv, TypeOK
  <2> QED BY <2>1 DEF NifInv, Working, TypeOK
<1>3. req[p] # NoRequest /\ req[p].ref = arg[p] /\ at[p] = "out"
  BY <1>2 DEF SysInv, Work, WorkOf
<1>4. SysTypeOK'
  BY <1>1 DEF SysInv, SysTypeOK, Steps
<1>5. Work'
  <2> SUFFICES ASSUME NEW q \in Proc PROVE WorkOf(q)'
    BY DEF Work
  <2>1. CASE q = p
    BY <1>1, <1>2, <1>3, <2>1 DEF WorkOf, SysInv, SysTypeOK, NifInv, TypeOK
  <2>2. CASE q # p
    BY <1>1, <2>2 DEF SysInv, SysTypeOK, Work, WorkOf, NifInv, TypeOK
  <2> QED BY <2>1, <2>2
<1>6. \A q \in Proc : q # p => StackAt(q)' = StackAt(q)
  BY <1>1 DEF StackAt, SysInv, SysTypeOK
<1>7. \A q \in Proc : <<q, arg[p]>> \notin running
  <2> SUFFICES ASSUME NEW q \in Proc, <<q, arg[p]>> \in running PROVE FALSE
    OBVIOUS
  <2>1. <<q, arg[p]>> \in running' /\ <<p, arg[p]>> \in running'
    BY <1>1
  <2>2. q = p
    BY <1>2, <2>1 DEF OneThreadPerVM
  <2> QED BY <1>2, <2>2 DEF NifInv, Working
<1>8. ASSUME NEW r \in Ref PROVE StackOf(r)'
  <2>1. CASE r = arg[p]
    <3>1. stack[r] = <<>>
      BY <1>7, <2>1 DEF SysInv, Stacks, StackOf
    <3>2. StackAt(p)' = <<>>
      BY <1>1 DEF StackAt, SysInv, SysTypeOK
    <3>3. \A q \in Proc : <<q, r>> \in running' <=> q = p
      BY <1>1, <1>7, <2>1
    <3> QED BY <1>1, <3>1, <3>2, <3>3 DEF StackOf
  <2>2. CASE r # arg[p]
    <3>1. \A q \in Proc : <<q, r>> \in running' <=> <<q, r>> \in running
      BY <1>1, <2>2
    <3>2. <<p, r>> \notin running
      BY <1>2 DEF NifInv, Working
    <3> QED BY <1>1, <1>6, <3>1, <3>2 DEF SysInv, Stacks, StackOf
  <2> QED BY <2>1, <2>2
<1>9. ASSUME NEW q \in Proc PROVE ScriptOf(q)'
  <2>1. CASE q = p
    BY <1>1, <2>1 DEF ScriptOf, SysInv, SysTypeOK
  <2>2. CASE q # p
    BY <1>1, <2>2 DEF SysInv, SysTypeOK, Scripts, ScriptOf
  <2> QED BY <2>1, <2>2
<1>10. Stacks' /\ Scripts'
  BY <1>8, <1>9 DEF Stacks, Scripts
<1> QED BY <1>4, <1>5, <1>10 DEF SysInv

\* lua_getglobal
LEMMA PreparesInv ==
  ASSUME NifInv, SysInv, OneThreadPerVM, NEW p \in Proc, Prepares(p)
  PROVE  SysInv'
<1>1. /\ pc[p] = "running" /\ at[p] = "begin" /\ at' = [at EXCEPT ![p] = "prepared"]
      /\ stack' = [stack EXCEPT ![req[p].ref] = Append(stack[req[p].ref], Slot("function", <<>>))]
      /\ UNCHANGED <<vars, log, req, seen, told, issued>>
  BY DEF Prepares, Inside, To, On
<1>2. /\ req[p].ref = arg[p] /\ arg[p] \in Ref /\ stack[arg[p]] = <<>>
  BY <1>1, RunsIn DEF StackAt
<1> DEFINE s == <<Slot("function", <<>>)>>
<1>3. s \in Seq(SlotSet) /\ "prepared" \in Steps
  BY DEF SlotSet, Slot, Steps
<1>4. stack' = [stack EXCEPT ![arg[p]] = s]
  BY <1>1, <1>2
<1>5. seen[p] \in Seq(Nat) /\ seen' = [seen EXCEPT ![p] = seen[p]]
  BY <1>1 DEF SysInv, SysTypeOK
<1>6. log[arg[p]] \in Seq(Nat) /\ log' = [log EXCEPT ![arg[p]] = log[arg[p]]]
  BY <1>1, <1>2 DEF SysInv, SysTypeOK
<1>7. at'[p] = "prepared"
  BY <1>1 DEF SysInv, SysTypeOK
<1>8. s = StackAt(p)' /\ ScriptOf(p)'
  BY <1>7 DEF StackAt, ScriptOf, Slot
<1> HIDE DEF s
<1> QED BY <1>1, <1>3, <1>4, <1>5, <1>6, <1>8, InsideStep

\* erlang_to_lua for the arguments
LEMMA PushesInv ==
  ASSUME NifInv, SysInv, OneThreadPerVM, NEW p \in Proc, Pushes(p)
  PROVE  SysInv'
<1>1. /\ pc[p] = "running" /\ at[p] = "prepared"
      /\ UNCHANGED <<vars, log, req, seen, told, issued>>
  BY DEF Pushes, Inside
<1>2. /\ req[p].ref = arg[p] /\ arg[p] \in Ref /\ stack[arg[p]] = <<Slot("function", <<>>)>>
  BY <1>1, RunsIn DEF StackAt
<1>3. seen[p] \in Seq(Nat) /\ seen' = [seen EXCEPT ![p] = seen[p]]
  BY <1>1 DEF SysInv, SysTypeOK
<1>4. log[arg[p]] \in Seq(Nat) /\ log' = [log EXCEPT ![arg[p]] = log[arg[p]]]
  BY <1>1, <1>2 DEF SysInv, SysTypeOK
<1>5. CASE req[p].op = "refused"
  <2>1. /\ at' = [at EXCEPT ![p] = "badarg"] /\ stack' = [stack EXCEPT ![arg[p]] = <<>>]
        /\ "badarg" \in Steps /\ <<>> \in Seq(SlotSet)
    BY <1>2, <1>5, EmptySeq DEF Pushes, To, On, Steps
  <2>2. at'[p] = "badarg"
    BY <2>1 DEF SysInv, SysTypeOK
  <2>3. <<>> = StackAt(p)' /\ ScriptOf(p)'
    BY <2>2 DEF StackAt, ScriptOf
  <2> QED BY <1>1, <1>3, <1>4, <2>1, <2>3, InsideStep
<1>6. CASE req[p].op # "refused"
  <2> DEFINE s == <<Slot("function", <<>>), Slot("argument", <<>>)>>
  <2>1. /\ at' = [at EXCEPT ![p] = "pushed"] /\ stack' = [stack EXCEPT ![arg[p]] = s]
        /\ "pushed" \in Steps
    BY <1>2, <1>6 DEF Pushes, To, On, Steps
  <2>2. s \in Seq(SlotSet)
    BY DEF SlotSet, Slot
  <2>3. at'[p] = "pushed"
    BY <2>1 DEF SysInv, SysTypeOK
  <2>4. s = StackAt(p)' /\ ScriptOf(p)'
    BY <1>1, <1>6, <2>3 DEF StackAt, ScriptOf, Slot
  <2> HIDE DEF s
  <2> QED BY <1>1, <1>3, <1>4, <2>1, <2>2, <2>4, InsideStep
<1> QED BY <1>5, <1>6

\* lua_pcall begins: the script reads the global.
LEMMA ScriptReadsInv ==
  ASSUME NifInv, SysInv, OneThreadPerVM, NEW p \in Proc, ScriptReads(p)
  PROVE  SysInv'
<1>1. /\ pc[p] = "running" /\ at[p] = "pushed" /\ at' = [at EXCEPT ![p] = "read"]
      /\ seen' = [seen EXCEPT ![p] = log[req[p].ref]]
      /\ UNCHANGED <<vars, stack, log, req, told, issued>>
  BY DEF ScriptReads, Inside, To
<1>2. /\ req[p].ref = arg[p] /\ arg[p] \in Ref /\ stack[arg[p]] = StackAt(p)
  BY <1>1, RunsIn
<1>3. stack[arg[p]] \in Seq(SlotSet) /\ stack' = [stack EXCEPT ![arg[p]] = stack[arg[p]]]
  BY <1>1, <1>2 DEF SysInv, SysTypeOK
<1>4. log[arg[p]] \in Seq(Nat) /\ log' = [log EXCEPT ![arg[p]] = log[arg[p]]]
  BY <1>1, <1>2 DEF SysInv, SysTypeOK
<1>5. at'[p] = "read" /\ seen'[p] = log[arg[p]] /\ "read" \in Steps
  BY <1>1, <1>2 DEF SysInv, SysTypeOK, Steps
<1>6. stack[arg[p]] = StackAt(p)'
  BY <1>1, <1>2, <1>5 DEF StackAt
<1>7. ScriptOf(p)'
  BY <1>1, <1>2, <1>5 DEF ScriptOf, SysInv, Scripts
<1> QED BY <1>1, <1>2, <1>3, <1>4, <1>5, <1>6, <1>7, InsideStep

\* The script writes the global, and ends or raises.
LEMMA ScriptWritesInv ==
  ASSUME NifInv, SysInv, OneThreadPerVM, NEW p \in Proc, ScriptWrites(p)
  PROVE  SysInv'
<1> DEFINE now == Append(seen[p], req[p].id)
           below == SubSeq(stack[arg[p]], 1, Len(stack[arg[p]]) - 2)
<1>1. /\ req[p] \in Abstract!Request /\ req[p].ref = arg[p] /\ arg[p] \in Ref
      /\ stack[arg[p]] = <<Slot("function", <<>>), Slot("argument", <<>>)>>
  BY RunsIn DEF StackAt, ScriptWrites, Inside
<1>2. below = <<>>
  BY <1>1
<1>3. now \in Seq(Nat)
  <2>1. seen[p] \in Seq(Nat) /\ req[p].id \in Nat
    BY <1>1 DEF SysInv, SysTypeOK, Abstract!Request
  <2> QED BY <2>1, AppendProperties
<1>4. /\ pc[p] = "running" /\ at[p] = "read"
      /\ seen' = [seen EXCEPT ![p] = now] /\ log' = [log EXCEPT ![arg[p]] = now]
      /\ UNCHANGED <<vars, req, told, issued>>
  BY <1>1 DEF ScriptWrites, Inside
<1> HIDE DEF now
<1>5. CASE req[p].op = "raise"
  <2>1. /\ at' = [at EXCEPT ![p] = "raised"] /\ stack' = [stack EXCEPT ![arg[p]] = <<>>]
        /\ "raised" \in Steps /\ <<>> \in Seq(SlotSet)
    BY <1>1, <1>2, <1>5, EmptySeq DEF ScriptWrites, To, On, Steps
  <2>2. at'[p] = "raised"
    BY <2>1 DEF SysInv, SysTypeOK
  <2>3. <<>> = StackAt(p)' /\ ScriptOf(p)'
    BY <2>2 DEF StackAt, ScriptOf
  <2> QED BY <1>3, <1>4, <2>1, <2>3, InsideStep
<1>6. CASE req[p].op # "raise"
  <2> DEFINE s == <<Slot("result", now)>>
  <2>1. /\ at' = [at EXCEPT ![p] = "returned"] /\ stack' = [stack EXCEPT ![arg[p]] = s]
        /\ "returned" \in Steps
    BY <1>1, <1>2, <1>6 DEF ScriptWrites, To, On, Steps, now
  <2>2. s \in Seq(SlotSet)
    BY <1>3 DEF SlotSet, Slot
  <2>3. at'[p] = "returned" /\ seen'[p] = now
    BY <1>4, <2>1 DEF SysInv, SysTypeOK
  <2>4. s = StackAt(p)' /\ ScriptOf(p)'
    BY <2>3 DEF StackAt, ScriptOf, Slot
  <2> HIDE DEF s
  <2> QED BY <1>3, <1>4, <2>1, <2>2, <2>4, InsideStep
<1> QED BY <1>5, <1>6

\* What a call answers is an answer.
LEMMA AnswerOfType ==
  ASSUME NifInv, SysInv, NEW p \in Proc, pc[p] = "running",
         at[p] \in {"badarg", "raised", "returned"}
  PROVE  AnswerOf(p) \in AnswerSet
<1>1. req[p].id \in Nat \ {0}
  BY RunsIn DEF Abstract!Request
<1>2. stack[req[p].ref] \in Seq(SlotSet)
  BY RunsIn DEF SysInv, SysTypeOK
<1>3. <<>> \in Seq(SlotSet)
  BY EmptySeq
<1> HIDE DEF SlotSet
<1> QED BY <1>1, <1>2, <1>3 DEF AnswerOf, AnswerSet

\* The call is answered and leaves an empty stack behind.
LEMMA ReturnsInv ==
  ASSUME NifInv, SysInv, OneThreadPerVM, NEW p \in Proc, Returns(p)
  PROVE  SysInv'
<1>1. /\ pc[p] = "running" /\ at[p] \in {"badarg", "raised", "returned"}
      /\ pc' = [pc EXCEPT ![p] = "idle"] /\ running' = running \ {<<p, req[p].ref>>}
      /\ at' = [at EXCEPT ![p] = "out"]
      /\ stack' = IF at[p] = "returned" THEN [stack EXCEPT ![req[p].ref] = <<>>] ELSE stack
      /\ told' = IF proc[p] = "alive" THEN [told EXCEPT ![p] = Append(@, AnswerOf(p))] ELSE told
      /\ req' = [req EXCEPT ![p] = NoRequest] /\ seen' = [seen EXCEPT ![p] = <<>>]
      /\ UNCHANGED <<arg, log, issued>>
  BY DEF Returns, CallReturns, To, On
<1>2. /\ req[p].ref = arg[p] /\ arg[p] \in Ref /\ <<p, arg[p]>> \in running
      /\ stack[arg[p]] = StackAt(p)
  BY <1>1, RunsIn
<1>3. stack' = [stack EXCEPT ![arg[p]] = <<>>]
  <2>1. CASE at[p] = "returned"
    BY <1>1, <1>2, <2>1
  <2>2. CASE at[p] # "returned"
    <3>1. stack[arg[p]] = <<>>
      BY <1>1, <1>2, <2>2 DEF StackAt
    <3> QED BY <1>1, <1>2, <2>2, <3>1 DEF SysInv, SysTypeOK
  <2> QED BY <2>1, <2>2
<1>4. SysTypeOK'
  <2>1. stack' \in [Ref -> Seq(SlotSet)]
    BY <1>3, EmptySeq DEF SysInv, SysTypeOK
  <2>2. told' \in [Proc -> Seq(AnswerSet)]
    <3>1. \A s \in Seq(AnswerSet) : Append(s, AnswerOf(p)) \in Seq(AnswerSet)
      BY <1>1, AnswerOfType, AppendProperties
    <3> QED BY <1>1, <3>1 DEF SysInv, SysTypeOK
  <2>3. seen' \in [Proc -> Seq(Nat)]
    BY <1>1, EmptySeq DEF SysInv, SysTypeOK
  <2> QED BY <1>1, <2>1, <2>2, <2>3 DEF SysInv, SysTypeOK
<1>5. Work'
  <2> SUFFICES ASSUME NEW q \in Proc PROVE WorkOf(q)'
    BY DEF Work
  <2>1. CASE q = p
    BY <1>1, <2>1 DEF WorkOf, SysInv, SysTypeOK, NifInv, TypeOK
  <2>2. CASE q # p
    BY <1>1, <2>2 DEF SysInv, SysTypeOK, Work, WorkOf, NifInv, TypeOK
  <2> QED BY <2>1, <2>2
<1>6. \A q \in Proc : q # p => at'[q] = at[q] /\ StackAt(q)' = StackAt(q)
  BY <1>1 DEF StackAt, SysInv, SysTypeOK
<1>7. ASSUME NEW r \in Ref PROVE StackOf(r)'
  <2>1. CASE r = arg[p]
    <3>1. \A q \in Proc : <<q, r>> \notin running'
      BY <1>1, <1>2, <2>1 DEF OneThreadPerVM
    <3>2. stack'[r] = <<>>
      BY <1>3, <2>1 DEF SysInv, SysTypeOK
    <3> QED BY <3>1, <3>2 DEF StackOf
  <2>2. CASE r # arg[p]
    <3>1. \A q \in Proc : <<q, r>> \in running' <=> <<q, r>> \in running
      BY <1>1, <1>2, <2>2
    <3>2. <<p, r>> \notin running /\ stack'[r] = stack[r]
      BY <1>3, <2>2 DEF NifInv, Working, SysInv, SysTypeOK
    <3> QED BY <1>6, <3>1, <3>2 DEF SysInv, Stacks, StackOf
  <2> QED BY <2>1, <2>2
<1>8. ASSUME NEW q \in Proc PROVE ScriptOf(q)'
  <2>1. CASE q = p
    BY <1>1, <2>1 DEF ScriptOf, SysInv, SysTypeOK
  <2>2. CASE q # p
    BY <1>1, <2>2 DEF SysInv, SysTypeOK, Scripts, ScriptOf
  <2> QED BY <2>1, <2>2
<1>9. Stacks' /\ Scripts'
  BY <1>7, <1>8 DEF Stacks, Scripts
<1> QED BY <1>4, <1>5, <1>9 DEF SysInv

\* A process that ends was not inside a virtual machine.
LEMMA EndsInv ==
  ASSUME NifInv, SysInv, NEW p \in Proc, Ends(p)
  PROVE  SysInv' /\ at[p] = "out"
<1>1. /\ pc[p] \in {"idle", "queued"} /\ pc' = [pc EXCEPT ![p] = "idle"]
      /\ req' = [req EXCEPT ![p] = NoRequest]
      /\ UNCHANGED <<arg, running, stack, log, at, seen, told, issued>>
  BY DEF Ends, Exits
<1>2. at[p] = "out"
  BY <1>1 DEF SysInv, Work, WorkOf
<1>3. SysTypeOK' /\ Stacks'
  BY <1>1 DEF SysInv, SysTypeOK, Stacks, StackOf, StackAt
<1>4. Work'
  <2> SUFFICES ASSUME NEW q \in Proc PROVE WorkOf(q)'
    BY DEF Work
  <2>1. CASE q = p
    BY <1>1, <1>2, <2>1 DEF WorkOf, SysInv, SysTypeOK, NifInv, TypeOK
  <2>2. CASE q # p
    BY <1>1, <2>2 DEF SysInv, SysTypeOK, Work, WorkOf, NifInv, TypeOK
  <2> QED BY <2>1, <2>2
<1>5. Scripts'
  <2> SUFFICES ASSUME NEW q \in Proc PROVE ScriptOf(q)'
    BY DEF Scripts
  <2>1. CASE q = p
    BY <1>1, <1>2, <2>1 DEF ScriptOf
  <2>2. CASE q # p
    BY <1>1, <2>2 DEF SysInv, SysTypeOK, Scripts, ScriptOf
  <2> QED BY <2>1, <2>2
<1> QED BY <1>2, <1>3, <1>4, <1>5 DEF SysInv

\* Every step keeps the invariant, as long as one thread at a time is in each
\* virtual machine.
LEMMA SysStep ==
  ASSUME NifInv, SysInv, OneThreadPerVM, OneThreadPerVM', [SysNext]_sys
  PROVE  SysInv'
<1>1. CASE UNCHANGED sys
  BY <1>1 DEF sys, inner, vars, SysInv, SysTypeOK, Work, WorkOf, Stacks, StackOf, StackAt,
              Scripts, ScriptOf
<1>2. ASSUME NEW p \in Proc, Engine(p) PROVE SysInv'
  BY <1>2, PreparesInv, PushesInv, ScriptReadsInv, ScriptWritesInv, ReturnsInv DEF Engine
<1> QED BY <1>1, <1>2, AsksInv, StartsInv, EndsInv, ElsewhereInv DEF SysNext

\* Nothing is on the stack of a virtual machine but what the one call inside it
\* has pushed, and what a script read is what it overwrites.
LEMMA SysInvariant ==
  ASSUME Sharing # "shared"
  PROVE  SysSpec => []SysInv
<1>1. NifInv /\ SysInv /\ OneThreadPerVM /\ OneThreadPerVM' /\ [SysNext]_sys => SysInv'
  BY SysStep
<1> QED BY <1>1, SysInvInit, SystemIsNif, SystemOneThread, PTL DEF SysSpec

-----------------------------------------------------------------------------
(***************************************************************************)
(* The composition implements AiluaRequests.                               *)
(***************************************************************************)
\* The answers that are decided, and those that were given, as AiluaRequests has
\* them.
Decisions == [p \in Proc |-> Decided(p)]
Plain(t) == <<t[1], t[2], IF Len(t[3]) = 1 THEN t[3][1].v ELSE <<>>>>
PlainTold == [p \in Proc |-> [i \in DOMAIN told[p] |-> Plain(told[p][i])]]

\* A step of one process decides for it alone.
LEMMA DecidesAlone ==
  ASSUME NEW p \in Proc, \A q \in Proc : q # p => Decided(q)' = Decided(q)
  PROVE  Decisions' = [Decisions EXCEPT ![p] = Decided(p)']
  BY DEF Decisions

\* What is decided changes only with the step, the request and what was seen.
LEMMA OthersDecided ==
  ASSUME NEW q \in Proc, at'[q] = at[q], req'[q] = req[q], seen'[q] = seen[q]
  PROVE  Decided(q)' = Decided(q)
  BY DEF Decided, AnswerOf

\* Steps before the script writes, and outside, are not seen.
LEMMA Unseen ==
  ASSUME UNCHANGED <<log, req, told>>, \A q \in Proc : Decided(q)' = Decided(q)
  PROVE  UNCHANGED Abstract!rvars
<1>1. Decisions' = Decisions
  BY DEF Decisions
<1>2. PlainTold' = PlainTold
  BY DEF PlainTold
<1> QED BY <1>1, <1>2 DEF Abstract!rvars, Decisions, PlainTold, Plain

\* A request is made: nothing is decided about it.
LEMMA AsksIsAsk ==
  ASSUME NifInv, SysInv, NEW p \in Proc, NEW r \in Ref, NEW op \in Op, Asks(p, r, op)
  PROVE  Abstract!Ask(p)
<1>1. /\ req[p] = NoRequest /\ req'[p] \in Abstract!Request /\ req' = [req EXCEPT ![p] = req'[p]]
  BY AsksInv
<1>2. UNCHANGED <<log, at, seen, told>> /\ at[p] = "out"
  BY DEF Asks, Call, Idle, SysInv, Work, WorkOf
<1>3. \A q \in Proc : q # p => Decided(q)' = Decided(q)
  BY <1>1, <1>2, OthersDecided DEF SysInv, SysTypeOK
<1>4. Decided(p)' = Decided(p)
  BY <1>2 DEF Decided
<1>5. Decisions' = Decisions /\ PlainTold' = PlainTold
  BY <1>2, <1>3, <1>4 DEF Decisions, PlainTold
<1> QED BY <1>1, <1>2, <1>5 DEF Abstract!Ask, Decisions, PlainTold, Plain

\* The step that decides a request is its service.
LEMMA Serves ==
  ASSUME NEW p \in Proc, req[p] \in Abstract!Request, UNCHANGED <<req, told>>,
         \A q \in Proc : q # p => Decided(q)' = Decided(q),
         Decided(p) = <<>>,
         IF req[p].op = "refused"
         THEN log' = log /\ Decided(p)' = <<req[p].id, "badarg", <<>>>>
         ELSE /\ log' = [log EXCEPT ![req[p].ref] = Append(log[req[p].ref], req[p].id)]
              /\ Decided(p)' = IF req[p].op = "raise" THEN <<req[p].id, "error", <<>>>>
                               ELSE <<req[p].id, "ok", Append(log[req[p].ref], req[p].id)>>
  PROVE  Abstract!Serve(p)
<1>1. req[p] # NoRequest
  BY SystemAssumption DEF Abstract!Request
<1>2. Decisions' = [Decisions EXCEPT ![p] = Decided(p)'] /\ Decisions[p] = <<>>
  BY DecidesAlone DEF Decisions
<1>3. PlainTold' = PlainTold
  BY DEF PlainTold
<1> QED BY <1>1, <1>2, <1>3 DEF Abstract!Serve, Abstract!Nothing, Decisions, PlainTold, Plain

\* Arguments that are refused decide the request, others nothing.
LEMMA PushesIsServe ==
  ASSUME NifInv, SysInv, NEW p \in Proc, Pushes(p)
  PROVE  Abstract!Serve(p) \/ UNCHANGED Abstract!rvars
<1>1. /\ pc[p] = "running" /\ at[p] = "prepared" /\ UNCHANGED <<vars, log, req, seen, told, issued>>
      /\ at' = [at EXCEPT ![p] = IF req[p].op = "refused" THEN "badarg" ELSE "pushed"]
  BY DEF Pushes, Inside, To
<1>2. req[p] \in Abstract!Request
  BY <1>1, RunsIn
<1>3. \A q \in Proc : q # p => Decided(q)' = Decided(q)
  BY <1>1, OthersDecided DEF SysInv, SysTypeOK
<1>4. Decided(p) = <<>> /\ at'[p] = IF req[p].op = "refused" THEN "badarg" ELSE "pushed"
  BY <1>1 DEF Decided, SysInv, SysTypeOK
<1>5. CASE req[p].op = "refused"
  <2>1. Decided(p)' = <<req[p].id, "badarg", <<>>>>
    BY <1>1, <1>4, <1>5 DEF Decided, AnswerOf
  <2> QED BY <1>1, <1>2, <1>3, <1>4, <1>5, <2>1, Serves
<1>6. CASE req[p].op # "refused"
  <2>1. Decided(p)' = <<>>
    BY <1>4, <1>6 DEF Decided
  <2> QED BY <1>1, <1>3, <1>4, <2>1, Unseen
<1> QED BY <1>5, <1>6

\* The write of the script is the instant its request takes effect: nobody has
\* written since it read.
LEMMA ScriptWritesIsServe ==
  ASSUME NifInv, SysInv, NEW p \in Proc, ScriptWrites(p)
  PROVE  Abstract!Serve(p)
<1> DEFINE now == Append(seen[p], req[p].id)
<1>1. /\ pc[p] = "running" /\ at[p] = "read" /\ UNCHANGED <<vars, req, told, issued>>
      /\ at' = [at EXCEPT ![p] = IF req[p].op = "raise" THEN "raised" ELSE "returned"]
      /\ seen' = [seen EXCEPT ![p] = now] /\ log' = [log EXCEPT ![req[p].ref] = now]
  BY DEF ScriptWrites, Inside, To
<1>2. req[p] \in Abstract!Request
  BY <1>1, RunsIn
<1>3. req[p].op # "refused" /\ seen[p] = log[req[p].ref]
  BY <1>1 DEF SysInv, Scripts, ScriptOf
<1>4. \A q \in Proc : q # p => Decided(q)' = Decided(q)
  BY <1>1, OthersDecided DEF SysInv, SysTypeOK
<1>5. /\ Decided(p) = <<>> /\ seen'[p] = now
      /\ at'[p] = IF req[p].op = "raise" THEN "raised" ELSE "returned"
  BY <1>1 DEF Decided, SysInv, SysTypeOK
<1> HIDE DEF now
<1>6. Decided(p)' = IF req[p].op = "raise" THEN <<req[p].id, "error", <<>>>>
                    ELSE <<req[p].id, "ok", now>>
  BY <1>1, <1>5 DEF Decided, AnswerOf
<1> USE DEF now
<1> QED BY <1>1, <1>2, <1>3, <1>4, <1>5, <1>6, Serves

\* Answers that are given one by one are given plainly one by one.
LEMMA PlainAppend ==
  ASSUME NEW S, NEW s \in Seq(S), NEW x \in S
  PROVE  [i \in DOMAIN Append(s, x) |-> Plain(Append(s, x)[i])]
           = Append([i \in DOMAIN s |-> Plain(s[i])], Plain(x))
<1> DEFINE t == [i \in DOMAIN s |-> Plain(s[i])]
           a == [i \in DOMAIN Append(s, x) |-> Plain(Append(s, x)[i])]
           T == {Plain(y) : y \in S}
<1>1. /\ Append(s, x) \in Seq(S) /\ DOMAIN Append(s, x) = 1..(Len(s) + 1)
      /\ DOMAIN s = 1..Len(s) /\ Len(s) \in Nat
      /\ \A i \in 1..Len(s) : Append(s, x)[i] = s[i] /\ s[i] \in S
      /\ Append(s, x)[Len(s) + 1] = x
  BY AppendProperties
<1>2. t \in Seq(T) /\ Len(t) = Len(s)
  BY <1>1
<1>3. a \in Seq(T) /\ Len(a) = Len(s) + 1
  BY <1>1
<1>4. /\ Append(t, Plain(x)) \in Seq(T) /\ Len(Append(t, Plain(x))) = Len(s) + 1
      /\ \A i \in 1..Len(s) : Append(t, Plain(x))[i] = t[i]
      /\ Append(t, Plain(x))[Len(s) + 1] = Plain(x)
  BY <1>2, AppendProperties
<1>5. \A i \in 1..Len(s) + 1 : a[i] = Append(t, Plain(x))[i]
  BY <1>1, <1>4
<1> QED BY <1>3, <1>4, <1>5, SeqEqual

\* The answer given is the one decided, and what is on the stack is its result
\* alone.
LEMMA ReturnsIsTell ==
  ASSUME NifInv, SysInv, NEW p \in Proc, Returns(p)
  PROVE  Abstract!Tell(p) \/ Abstract!Drop(p)
<1>1. /\ pc[p] = "running" /\ at[p] \in {"badarg", "raised", "returned"}
      /\ at' = [at EXCEPT ![p] = "out"] /\ log' = log
      /\ told' = IF proc[p] = "alive" THEN [told EXCEPT ![p] = Append(@, AnswerOf(p))] ELSE told
      /\ req' = [req EXCEPT ![p] = NoRequest] /\ seen' = [seen EXCEPT ![p] = <<>>]
  BY DEF Returns, To
<1>2. /\ req[p] \in Abstract!Request /\ req[p].ref = arg[p] /\ stack[arg[p]] = StackAt(p)
  BY <1>1, RunsIn
<1>3. Plain(AnswerOf(p)) = Decided(p) /\ Decided(p) # <<>>
  BY <1>1, <1>2 DEF Plain, AnswerOf, Decided, StackAt, Slot
<1>4. \A q \in Proc : q # p => Decided(q)' = Decided(q)
  BY <1>1, OthersDecided DEF SysInv, SysTypeOK
<1>5. Decided(p)' = <<>>
  BY <1>1 DEF Decided, SysInv, SysTypeOK
<1>6. Decisions' = [Decisions EXCEPT ![p] = <<>>] /\ Decisions[p] = Decided(p)
  BY <1>4, <1>5, DecidesAlone DEF Decisions
<1>7. CASE proc[p] = "alive"
  <2>1. told'[p] = Append(told[p], AnswerOf(p)) /\ \A q \in Proc : q # p => told'[q] = told[q]
    BY <1>1, <1>7 DEF SysInv, SysTypeOK
  <2>2. PlainTold' = [PlainTold EXCEPT ![p] = Append(PlainTold[p], Decided(p))]
    <3>1. told[p] \in Seq(AnswerSet) /\ AnswerOf(p) \in AnswerSet
      BY <1>1, AnswerOfType DEF SysInv, SysTypeOK
    <3>2. PlainTold'[p] = Append(PlainTold[p], Decided(p))
      BY <1>3, <2>1, <3>1, PlainAppend DEF PlainTold
    <3>3. \A q \in Proc : q # p => PlainTold'[q] = PlainTold[q]
      BY <2>1 DEF PlainTold
    <3> QED BY <3>2, <3>3 DEF PlainTold
  <2> QED BY <1>1, <1>3, <1>6, <2>2
       DEF Abstract!Tell, Abstract!Nothing, Decisions, PlainTold, Plain
<1>8. CASE proc[p] # "alive"
  <2>1. PlainTold' = PlainTold
    BY <1>1, <1>8 DEF PlainTold
  <2> QED BY <1>1, <1>6, <2>1 DEF Abstract!Drop, Abstract!Nothing, Decisions, PlainTold, Plain
<1> QED BY <1>7, <1>8

\* A process that ends takes its request with it.
LEMMA EndsIsDrop ==
  ASSUME NifInv, SysInv, NEW p \in Proc, Ends(p)
  PROVE  Abstract!Drop(p)
<1>1. /\ req' = [req EXCEPT ![p] = NoRequest] /\ UNCHANGED <<log, at, seen, told>> /\ at[p] = "out"
  BY EndsInv DEF Ends
<1>2. \A q \in Proc : q # p => Decided(q)' = Decided(q)
  BY <1>1, OthersDecided DEF SysInv, SysTypeOK
<1>3. Decided(p)' = <<>>
  BY <1>1 DEF Decided
<1>4. Decisions' = [Decisions EXCEPT ![p] = <<>>] /\ PlainTold' = PlainTold
  BY <1>1, <1>2, <1>3, DecidesAlone DEF PlainTold
<1> QED BY <1>1, <1>4 DEF Abstract!Drop, Abstract!Nothing, Decisions, PlainTold, Plain

\* Every step is one of AiluaRequests, or is not seen there.
LEMMA RequestsStep ==
  ASSUME NifInv, SysInv, [SysNext]_sys
  PROVE  [Abstract!Next]_(Abstract!rvars)
<1>1. CASE UNCHANGED sys
  BY <1>1, OthersDecided, Unseen DEF sys, inner
<1>2. ASSUME NEW p \in Proc, Starts(p) PROVE UNCHANGED Abstract!rvars
  <2>1. /\ UNCHANGED <<log, req, told, seen>> /\ at' = [at EXCEPT ![p] = "begin"]
        /\ pc[p] = "queued"
    <3>1. queue # <<>> /\ p = Head(queue)
      BY <1>2 DEF Starts, CallStarts
    <3>2. 1 \in 1..Len(queue) /\ queue[1] = p
      BY <3>1 DEF NifInv, TypeOK
    <3>3. pc[p] = "queued"
      BY <3>2 DEF NifInv, Working
    <3> QED BY <1>2, <3>3 DEF Starts, To
  <2>2. at[p] = "out" /\ at'[p] = "begin"
    BY <2>1 DEF SysInv, SysTypeOK, Work, WorkOf
  <2>3. Decided(p)' = Decided(p)
    BY <2>2 DEF Decided
  <2>4. \A q \in Proc : q # p => Decided(q)' = Decided(q)
    BY <2>1, OthersDecided DEF SysInv, SysTypeOK
  <2> QED BY <2>1, <2>3, <2>4, Unseen
<1>3. ASSUME NEW p \in Proc, Prepares(p) \/ ScriptReads(p) PROVE UNCHANGED Abstract!rvars
  <2>1. /\ UNCHANGED <<log, req, told>> /\ \A q \in Proc : q # p => seen'[q] = seen[q] /\ at'[q] = at[q]
        /\ at[p] \in {"begin", "pushed"} /\ at'[p] \in {"prepared", "read"}
    BY <1>3 DEF Prepares, ScriptReads, Inside, To, SysInv, SysTypeOK
  <2>2. Decided(p)' = Decided(p)
    BY <2>1 DEF Decided
  <2>3. \A q \in Proc : q # p => Decided(q)' = Decided(q)
    BY <2>1, OthersDecided
  <2> QED BY <2>1, <2>2, <2>3, Unseen
<1>4. CASE Elsewhere
  BY <1>4, OthersDecided, Unseen DEF Elsewhere, inner
<1>5. ASSUME NEW p \in Proc, Engine(p) PROVE [Abstract!Next]_(Abstract!rvars)
  BY <1>3, <1>5, PushesIsServe, ScriptWritesIsServe, ReturnsIsTell DEF Engine, Abstract!Next
<1>6. ASSUME NEW p \in Proc, Ends(p) PROVE Abstract!Next
  BY <1>6, EndsIsDrop DEF Abstract!Next
<1>7. ASSUME NEW p \in Proc, NEW r \in Ref, NEW op \in Op, Asks(p, r, op) PROVE Abstract!Next
  BY <1>7, AsksIsAsk DEF Abstract!Next
<1> QED BY <1>1, <1>2, <1>4, <1>5, <1>6, <1>7 DEF SysNext

\* A fresh node is one nobody has asked anything of.
LEMMA RequestsInit == SysInit => Abstract!Init
<1> SUFFICES ASSUME SysInit PROVE Abstract!Init
  OBVIOUS
<1>1. \A p \in Proc : Decided(p) = <<>> /\ told[p] = <<>>
  BY DEF SysInit, Decided
<1>2. PlainTold = [p \in Proc |-> <<>>]
  BY <1>1 DEF PlainTold
<1> QED BY <1>1, <1>2 DEF SysInit, Abstract!Init, Abstract!Nothing, PlainTold, Plain

\* Requests take effect one at a time, each once, at the write of its script or
\* when its arguments are refused, and their answers are about that instant: for
\* any number of processes and virtual machines, as long as Refs are not shared.
THEOREM RequestsImplemented ==
  ASSUME Sharing # "shared"
  PROVE  SysSpec => ImplementsRequests
<1>1. NifInv /\ SysInv /\ [SysNext]_sys => [Abstract!Next]_(Abstract!rvars)
  BY RequestsStep
<1> QED BY <1>1, RequestsInit, SystemIsNif, SysInvariant, PTL
        DEF SysSpec, ImplementsRequests, Abstract!Spec
=============================================================================

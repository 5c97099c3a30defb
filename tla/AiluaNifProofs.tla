-------------------------- MODULE AiluaNifProofs ---------------------------
(***************************************************************************)
(* Proofs about the life of references, for any number of processes,       *)
(* references and dirty schedulers.                                        *)
(***************************************************************************)
EXTENDS AiluaNif, TLAPS, SequenceTheorems

\* RemoveAt(s, i) is s without its element i.
LEMMA RemoveAtElements ==
  ASSUME NEW S, NEW s \in Seq(S), NEW i \in 1..Len(s)
  PROVE  /\ RemoveAt(s, i) \in Seq(S)
         /\ Len(RemoveAt(s, i)) = Len(s) - 1
         /\ \A j \in 1..(Len(s) - 1) :
              RemoveAt(s, i)[j] = IF j < i THEN s[j] ELSE s[j + 1]
<1> DEFINE a == SubSeq(s, 1, i - 1)
           b == SubSeq(s, i + 1, Len(s))
<1>1. /\ a \in Seq(S) /\ Len(a) = i - 1
      /\ \A j \in 1..(i - 1) : a[j] = s[j]
  <2>1. 1 \in 1..(Len(s) + 1) /\ i - 1 \in 0..Len(s)
    OBVIOUS
  <2> QED BY <2>1, SubSeqProperties
<1>2. /\ b \in Seq(S) /\ Len(b) = Len(s) - i
      /\ \A j \in 1..(Len(s) - i) : b[j] = s[i + j]
  <2>1. i + 1 \in 1..(Len(s) + 1) /\ Len(s) \in i..Len(s)
    OBVIOUS
  <2> QED BY <2>1, SubSeqProperties
<1>3. RemoveAt(s, i) = a \o b
  BY DEF RemoveAt
<1> HIDE DEF a, b
<1>4. /\ a \o b \in Seq(S) /\ Len(a \o b) = Len(a) + Len(b)
      /\ \A j \in 1..(Len(a) + Len(b)) :
           (a \o b)[j] = IF j <= Len(a) THEN a[j] ELSE b[j - Len(a)]
  BY <1>1, <1>2, ConcatProperties
<1>5. ASSUME NEW j \in 1..(Len(s) - 1)
      PROVE  (a \o b)[j] = IF j < i THEN s[j] ELSE s[j + 1]
  <2>1. CASE j < i
    <3>1. j \in 1..(i - 1) /\ j <= Len(a) /\ j \in 1..(Len(a) + Len(b))
      BY <1>1, <1>2, <2>1
    <3> QED BY <1>1, <1>4, <2>1, <3>1
  <2>2. CASE ~(j < i)
    <3>1. /\ j - (i - 1) \in 1..(Len(s) - i) /\ ~(j <= Len(a))
          /\ j \in 1..(Len(a) + Len(b)) /\ i + (j - (i - 1)) = j + 1
      BY <1>1, <1>2, <2>2
    <3> QED BY <1>1, <1>2, <1>4, <2>2, <3>1
  <2> QED BY <2>1, <2>2
<1> QED BY <1>1, <1>2, <1>3, <1>4, <1>5

-----------------------------------------------------------------------------
\* Each step keeps the types.
LEMMA TypeStep == TypeOK /\ [Next]_vars => TypeOK'
<1> SUFFICES ASSUME TypeOK, [Next]_vars PROVE TypeOK'
  OBVIOUS
<1>1. ASSUME NEW p \in Proc, NewStep(p) PROVE TypeOK'
  <2>1. CASE NewFails(p)
    BY <2>1 DEF NewFails, TypeOK
  <2>2. CASE NewOpens(p)
    BY <2>2 DEF NewOpens, TypeOK, Stages
  <2>3. CASE NewMakesTerm(p)
    BY <2>3 DEF NewMakesTerm, TypeOK, Stages
  <2>4. CASE NewReleases(p)
    BY <2>4 DEF NewReleases, TypeOK, Stages
  <2>5. CASE NewReturns(p)
    BY <2>5 DEF NewReturns, TypeOK
  <2> QED BY <1>1, <2>1, <2>2, <2>3, <2>4, <2>5 DEF NewStep
<1>2. ASSUME NEW p \in Proc, CallStarts(p) PROVE TypeOK'
  <2>1. queue' \in Seq(Proc)
    BY <1>2, HeadTailProperties DEF CallStarts, TypeOK
  <2> QED BY <1>2, <2>1 DEF CallStarts, TypeOK
<1>3. ASSUME NEW p \in Proc, Exits(p) PROVE TypeOK'
  <2>1. queue' \in Seq(Proc)
    BY <1>3, RemoveAtElements DEF Exits, TypeOK
  <2> QED BY <1>3, <2>1 DEF Exits, Bury, TypeOK
<1>4. ASSUME NEW p \in Proc, KilledInCall(p) PROVE TypeOK'
  BY <1>4 DEF KilledInCall, TypeOK
<1>5. ASSUME NEW p \in Proc, NEW r \in Ref, NewAllocates(p, r) PROVE TypeOK'
  BY <1>5 DEF NewAllocates, TypeOK, Stages
<1>6. ASSUME NEW p \in Proc, NEW r \in Ref, Call(p, r) PROVE TypeOK'
  <2>1. queue' \in Seq(Proc)
    BY <1>6, AppendProperties DEF Call, TypeOK
  <2> QED BY <1>6, <2>1 DEF Call, TypeOK
<1>7. ASSUME NEW p \in Proc, NEW r \in Ref, CallReturns(p, r) PROVE TypeOK'
  BY <1>7 DEF CallReturns, Bury, TypeOK
<1>8. ASSUME NEW p \in Proc, NEW r \in Ref,
             Receive(p, r) \/ Forget(p, r) \/ \E q \in Proc : Send(p, q, r)
      PROVE  TypeOK'
  BY <1>8 DEF Receive, Forget, Send, TypeOK
<1>9. ASSUME NEW r \in Ref, Destroy(r) PROVE TypeOK'
  BY <1>9 DEF Destroy, TypeOK
<1>10. CASE UNCHANGED vars
  BY <1>10 DEF vars, TypeOK
<1> QED BY <1>1, <1>2, <1>3, <1>4, <1>5, <1>6, <1>7, <1>8, <1>9, <1>10 DEF Next

\* Every variable keeps its type: in particular the queue of the dirty
\* schedulers is a sequence of processes, and each NIF stage knows its Ref.
THEOREM NifTypeCorrect == Spec => []TypeOK
<1>1. Init => TypeOK
  BY NifAssumption DEF Init, TypeOK
<1> QED BY <1>1, TypeStep, PTL DEF Spec

-----------------------------------------------------------------------------
(***************************************************************************)
(* The inductive invariant.                                                *)
(***************************************************************************)
\* A resource that ailua_nif_alloc works on is known to nobody else.
MakingBy(p) ==
    pc[p] \in Stages =>
        /\ proc[p] = "alive" /\ maker[arg[p]] = p
        /\ res[arg[p]] = "raw"
        /\ cref[arg[p]] <=> pc[p] # "released"
        /\ vm[arg[p]] = IF pc[p] = "allocated" THEN "none" ELSE "loose"
        /\ holds[arg[p]] = IF pc[p] \in {"termed", "released"} THEN {p} ELSE {}
Making == \A p \in Proc : MakingBy(p)

\* A Ref that a process holds or a message carries is set, or being made;
\* what is neither set nor being made is kept by the C code, for ever.
KnownRef(r) ==
    /\ \A p \in Proc : <<p, r>> \in mail => res[r] = "set"
    /\ holds[r] # {} => res[r] = "set" \/ \E p \in Proc : Creating(p, r)
    /\ res[r] = "raw" =>
          cref[r] \/ \E p \in Proc : Creating(p, r) /\ pc[p] = "released"
Known == \A r \in Ref : KnownRef(r)

\* A virtual machine is attached to each resource that is set, and else there
\* is none but those being made.
AttachedRef(r) ==
    /\ res[r] = "set" => vm[r] = "open" /\ ~cref[r]
    /\ vm[r] = "open" => res[r] = "set"
    /\ vm[r] = "loose" => \E p \in Proc : Creating(p, r)
    /\ res[r] = "unused" => vm[r] = "none"
Attached == \A r \in Ref : AttachedRef(r)

\* A process whose job waits or runs keeps the Ref in its heap.
Working ==
    /\ \A p \in Proc : pc[p] \in {"queued", "running"} => p \in holds[arg[p]]
    /\ \A p \in Proc, r \in Ref :
         <<p, r>> \in running => pc[p] = "running" /\ arg[p] = r
    /\ \A i \in 1..Len(queue) : pc[queue[i]] = "queued"
    /\ \A i, j \in 1..Len(queue) : queue[i] = queue[j] => i = j

NifInv == TypeOK /\ Making /\ Known /\ Attached /\ Working

\* The invariant holds in a fresh node.
LEMMA NifInit == Init => NifInv
<1> SUFFICES ASSUME Init PROVE NifInv
  OBVIOUS
<1>1. TypeOK
  BY NifAssumption DEF Init, TypeOK
<1>2. Making /\ Known /\ Attached /\ Working
  BY DEF Init, Making, MakingBy, Known, KnownRef, Attached, AttachedRef, Working, Stages
<1> QED BY <1>1, <1>2 DEF NifInv

\* Two processes within ailua_nif_alloc work on different resources.
LEMMA OneMaker ==
  ASSUME NifInv, NEW p \in Proc, NEW q \in Proc,
         pc[p] \in Stages, pc[q] \in Stages, arg[p] = arg[q]
  PROVE  p = q
<1>1. maker[arg[p]] = p /\ maker[arg[q]] = q
  BY DEF NifInv, Making, MakingBy
<1> QED BY <1>1

\* An idle process makes nothing, and a Ref it holds is set.
LEMMA IdleHolds ==
  ASSUME NifInv, NEW p \in Proc, pc[p] \in {"idle", "queued", "running"},
         NEW r \in Ref, p \in holds[r]
  PROVE  res[r] = "set" /\ vm[r] = "open"
<1>1. ASSUME NEW q \in Proc, Creating(q, r) PROVE FALSE
  <2>1. pc[q] \in Stages /\ arg[q] = r
    BY <1>1 DEF Creating
  <2>2. holds[r] = IF pc[q] \in {"termed", "released"} THEN {q} ELSE {}
    BY <2>1 DEF NifInv, Making, MakingBy
  <2>3. p = q
    BY <2>2
  <2> QED BY <2>1, <2>3 DEF Stages
<1>2. res[r] = "set"
  BY <1>1 DEF NifInv, Known, KnownRef
<1> QED BY <1>2 DEF NifInv, Attached, AttachedRef

-----------------------------------------------------------------------------
(***************************************************************************)
(* Steps of ailua_nif_alloc.                                               *)
(***************************************************************************)
\* A failing new leaves a resource that the C code still counts: it leaks, and
\* is never destroyed.
LEMMA NewFailsInv ==
  ASSUME NifInv, TypeOK', NEW p \in Proc, NewFails(p)
  PROVE  NifInv'
<1> DEFINE a == arg[p]
<1>1. a \in Ref /\ pc[p] \in Stages /\ arg' = arg /\ pc'[p] # pc[p]
  BY DEF NifInv, TypeOK, NewFails, Stages
<1>2. MakingBy(p)
  BY DEF NifInv, Making
<1>3. ASSUME NEW q \in Proc, q # p
      PROVE  /\ pc'[q] = pc[q] /\ arg'[q] = arg[q] /\ proc'[q] = proc[q]
             /\ pc[q] \in Stages => arg[q] # a
  BY <1>1, <1>3, OneMaker DEF NifInv, TypeOK, NewFails
<1>4. ASSUME NEW r \in Ref, r # a
      PROVE  /\ res'[r] = res[r] /\ vm'[r] = vm[r] /\ cref'[r] = cref[r]
             /\ holds'[r] = holds[r] /\ maker'[r] = maker[r]
  BY <1>4 DEF NifInv, TypeOK, NewFails
<1>5. mail' = mail /\ queue' = queue /\ running' = running
  BY DEF NewFails
<1>6. ASSUME NEW q \in Proc, NEW r \in Ref, Creating(q, r), r # a
      PROVE  Creating(q, r)' /\ pc'[q] = pc[q]
  <2>1. q # p
    BY <1>6 DEF Creating
  <2> QED BY <1>3, <1>6, <2>1 DEF Creating
<1>7. Making'
  <2> SUFFICES ASSUME NEW q \in Proc PROVE MakingBy(q)'
    BY DEF Making
  <2>1. CASE q = p
    BY <1>1, <1>2, <2>1 DEF MakingBy, NewFails, NifInv, TypeOK, Stages
  <2>2. CASE q # p
    <3>1. MakingBy(q) /\ arg[q] \in Ref
      BY DEF NifInv, Making, TypeOK
    <3>2. pc[q] \in Stages =>
            /\ res'[arg[q]] = res[arg[q]] /\ vm'[arg[q]] = vm[arg[q]]
            /\ cref'[arg[q]] = cref[arg[q]] /\ holds'[arg[q]] = holds[arg[q]]
            /\ maker'[arg[q]] = maker[arg[q]]
      BY <1>3, <1>4, <2>2, <3>1
    <3> QED BY <1>3, <2>2, <3>1, <3>2 DEF MakingBy
  <2> QED BY <2>1, <2>2
<1>8. Known'
  <2> SUFFICES ASSUME NEW r \in Ref PROVE KnownRef(r)'
    BY DEF Known
  <2>0. KnownRef(r)
    BY DEF NifInv, Known
  <2>1. CASE r = a
    BY <1>1, <1>2, <1>5, <2>0, <2>1
       DEF KnownRef, MakingBy, Creating, NewFails, NifInv, TypeOK, Stages
  <2>2. CASE r # a
    BY <1>4, <1>5, <1>6, <2>0, <2>2 DEF KnownRef
  <2> QED BY <2>1, <2>2
<1>9. Attached'
  <2> SUFFICES ASSUME NEW r \in Ref PROVE AttachedRef(r)'
    BY DEF Attached
  <2>0. AttachedRef(r)
    BY DEF NifInv, Attached
  <2>1. CASE r = a
    BY <1>1, <1>2, <2>0, <2>1
       DEF AttachedRef, MakingBy, Creating, NewFails, NifInv, TypeOK, Stages
  <2>2. CASE r # a
    BY <1>4, <1>6, <2>0, <2>2 DEF AttachedRef
  <2> QED BY <2>1, <2>2
<1>10. Working'
  BY <1>1, <1>5 DEF Working, NewFails, NifInv, TypeOK, Stages
<1> QED BY <1>7, <1>8, <1>9, <1>10 DEF NifInv

\* The new virtual machine is known to its maker alone.
LEMMA NewOpensInv ==
  ASSUME NifInv, TypeOK', NEW p \in Proc, NewOpens(p)
  PROVE  NifInv'
<1> DEFINE a == arg[p]
<1>1. a \in Ref /\ pc[p] \in Stages /\ arg' = arg /\ pc'[p] # pc[p]
  BY DEF NifInv, TypeOK, NewOpens, Stages
<1>2. MakingBy(p)
  BY DEF NifInv, Making
<1>3. ASSUME NEW q \in Proc, q # p
      PROVE  /\ pc'[q] = pc[q] /\ arg'[q] = arg[q] /\ proc'[q] = proc[q]
             /\ pc[q] \in Stages => arg[q] # a
  BY <1>1, <1>3, OneMaker DEF NifInv, TypeOK, NewOpens
<1>4. ASSUME NEW r \in Ref, r # a
      PROVE  /\ res'[r] = res[r] /\ vm'[r] = vm[r] /\ cref'[r] = cref[r]
             /\ holds'[r] = holds[r] /\ maker'[r] = maker[r]
  BY <1>4 DEF NifInv, TypeOK, NewOpens
<1>5. mail' = mail /\ queue' = queue /\ running' = running
  BY DEF NewOpens
<1>6. ASSUME NEW q \in Proc, NEW r \in Ref, Creating(q, r), r # a
      PROVE  Creating(q, r)' /\ pc'[q] = pc[q]
  <2>1. q # p
    BY <1>6 DEF Creating
  <2> QED BY <1>3, <1>6, <2>1 DEF Creating
<1>7. Making'
  <2> SUFFICES ASSUME NEW q \in Proc PROVE MakingBy(q)'
    BY DEF Making
  <2>1. CASE q = p
    BY <1>1, <1>2, <2>1 DEF MakingBy, NewOpens, NifInv, TypeOK, Stages
  <2>2. CASE q # p
    <3>1. MakingBy(q) /\ arg[q] \in Ref
      BY DEF NifInv, Making, TypeOK
    <3>2. pc[q] \in Stages =>
            /\ res'[arg[q]] = res[arg[q]] /\ vm'[arg[q]] = vm[arg[q]]
            /\ cref'[arg[q]] = cref[arg[q]] /\ holds'[arg[q]] = holds[arg[q]]
            /\ maker'[arg[q]] = maker[arg[q]]
      BY <1>3, <1>4, <2>2, <3>1
    <3> QED BY <1>3, <2>2, <3>1, <3>2 DEF MakingBy
  <2> QED BY <2>1, <2>2
<1>8. Known'
  <2> SUFFICES ASSUME NEW r \in Ref PROVE KnownRef(r)'
    BY DEF Known
  <2>0. KnownRef(r)
    BY DEF NifInv, Known
  <2>1. CASE r = a
    BY <1>1, <1>2, <1>5, <2>0, <2>1
       DEF KnownRef, MakingBy, Creating, NewOpens, NifInv, TypeOK, Stages
  <2>2. CASE r # a
    BY <1>4, <1>5, <1>6, <2>0, <2>2 DEF KnownRef
  <2> QED BY <2>1, <2>2
<1>9. Attached'
  <2> SUFFICES ASSUME NEW r \in Ref PROVE AttachedRef(r)'
    BY DEF Attached
  <2>0. AttachedRef(r)
    BY DEF NifInv, Attached
  <2>1. CASE r = a
    BY <1>1, <1>2, <2>0, <2>1
       DEF AttachedRef, MakingBy, Creating, NewOpens, NifInv, TypeOK, Stages
  <2>2. CASE r # a
    BY <1>4, <1>6, <2>0, <2>2 DEF AttachedRef
  <2> QED BY <2>1, <2>2
<1>10. Working'
  BY <1>1, <1>5 DEF Working, NewOpens, NifInv, TypeOK, Stages
<1> QED BY <1>7, <1>8, <1>9, <1>10 DEF NifInv

\* The term is in the heap of the maker alone.
LEMMA NewMakesTermInv ==
  ASSUME NifInv, TypeOK', NEW p \in Proc, NewMakesTerm(p)
  PROVE  NifInv'
<1> DEFINE a == arg[p]
<1>1. a \in Ref /\ pc[p] \in Stages /\ arg' = arg /\ pc'[p] # pc[p]
  BY DEF NifInv, TypeOK, NewMakesTerm, Stages
<1>2. MakingBy(p)
  BY DEF NifInv, Making
<1>3. ASSUME NEW q \in Proc, q # p
      PROVE  /\ pc'[q] = pc[q] /\ arg'[q] = arg[q] /\ proc'[q] = proc[q]
             /\ pc[q] \in Stages => arg[q] # a
  BY <1>1, <1>3, OneMaker DEF NifInv, TypeOK, NewMakesTerm
<1>4. ASSUME NEW r \in Ref, r # a
      PROVE  /\ res'[r] = res[r] /\ vm'[r] = vm[r] /\ cref'[r] = cref[r]
             /\ holds'[r] = holds[r] /\ maker'[r] = maker[r]
  BY <1>4 DEF NifInv, TypeOK, NewMakesTerm
<1>5. mail' = mail /\ queue' = queue /\ running' = running
  BY DEF NewMakesTerm
<1>6. ASSUME NEW q \in Proc, NEW r \in Ref, Creating(q, r), r # a
      PROVE  Creating(q, r)' /\ pc'[q] = pc[q]
  <2>1. q # p
    BY <1>6 DEF Creating
  <2> QED BY <1>3, <1>6, <2>1 DEF Creating
<1>7. Making'
  <2> SUFFICES ASSUME NEW q \in Proc PROVE MakingBy(q)'
    BY DEF Making
  <2>1. CASE q = p
    BY <1>1, <1>2, <2>1 DEF MakingBy, NewMakesTerm, NifInv, TypeOK, Stages
  <2>2. CASE q # p
    <3>1. MakingBy(q) /\ arg[q] \in Ref
      BY DEF NifInv, Making, TypeOK
    <3>2. pc[q] \in Stages =>
            /\ res'[arg[q]] = res[arg[q]] /\ vm'[arg[q]] = vm[arg[q]]
            /\ cref'[arg[q]] = cref[arg[q]] /\ holds'[arg[q]] = holds[arg[q]]
            /\ maker'[arg[q]] = maker[arg[q]]
      BY <1>3, <1>4, <2>2, <3>1
    <3> QED BY <1>3, <2>2, <3>1, <3>2 DEF MakingBy
  <2> QED BY <2>1, <2>2
<1>8. Known'
  <2> SUFFICES ASSUME NEW r \in Ref PROVE KnownRef(r)'
    BY DEF Known
  <2>0. KnownRef(r)
    BY DEF NifInv, Known
  <2>1. CASE r = a
    BY <1>1, <1>2, <1>5, <2>0, <2>1
       DEF KnownRef, MakingBy, Creating, NewMakesTerm, NifInv, TypeOK, Stages
  <2>2. CASE r # a
    BY <1>4, <1>5, <1>6, <2>0, <2>2 DEF KnownRef
  <2> QED BY <2>1, <2>2
<1>9. Attached'
  <2> SUFFICES ASSUME NEW r \in Ref PROVE AttachedRef(r)'
    BY DEF Attached
  <2>0. AttachedRef(r)
    BY DEF NifInv, Attached
  <2>1. CASE r = a
    BY <1>1, <1>2, <2>0, <2>1
       DEF AttachedRef, MakingBy, Creating, NewMakesTerm, NifInv, TypeOK, Stages
  <2>2. CASE r # a
    BY <1>4, <1>6, <2>0, <2>2 DEF AttachedRef
  <2> QED BY <2>1, <2>2
<1>10. Working'
  BY <1>1, <1>5 DEF Working, NewMakesTerm, NifInv, TypeOK, Stages
<1> QED BY <1>7, <1>8, <1>9, <1>10 DEF NifInv

\* The term keeps the resource when the C code gives up its reference.
LEMMA NewReleasesInv ==
  ASSUME NifInv, TypeOK', NEW p \in Proc, NewReleases(p)
  PROVE  NifInv'
<1> DEFINE a == arg[p]
<1>1. a \in Ref /\ pc[p] \in Stages /\ arg' = arg /\ pc'[p] # pc[p]
  BY DEF NifInv, TypeOK, NewReleases, Stages
<1>2. MakingBy(p)
  BY DEF NifInv, Making
<1>3. ASSUME NEW q \in Proc, q # p
      PROVE  /\ pc'[q] = pc[q] /\ arg'[q] = arg[q] /\ proc'[q] = proc[q]
             /\ pc[q] \in Stages => arg[q] # a
  BY <1>1, <1>3, OneMaker DEF NifInv, TypeOK, NewReleases
<1>4. ASSUME NEW r \in Ref, r # a
      PROVE  /\ res'[r] = res[r] /\ vm'[r] = vm[r] /\ cref'[r] = cref[r]
             /\ holds'[r] = holds[r] /\ maker'[r] = maker[r]
  BY <1>4 DEF NifInv, TypeOK, NewReleases
<1>5. mail' = mail /\ queue' = queue /\ running' = running
  BY DEF NewReleases
<1>6. ASSUME NEW q \in Proc, NEW r \in Ref, Creating(q, r), r # a
      PROVE  Creating(q, r)' /\ pc'[q] = pc[q]
  <2>1. q # p
    BY <1>6 DEF Creating
  <2> QED BY <1>3, <1>6, <2>1 DEF Creating
<1>7. Making'
  <2> SUFFICES ASSUME NEW q \in Proc PROVE MakingBy(q)'
    BY DEF Making
  <2>1. CASE q = p
    BY <1>1, <1>2, <2>1 DEF MakingBy, NewReleases, NifInv, TypeOK, Stages
  <2>2. CASE q # p
    <3>1. MakingBy(q) /\ arg[q] \in Ref
      BY DEF NifInv, Making, TypeOK
    <3>2. pc[q] \in Stages =>
            /\ res'[arg[q]] = res[arg[q]] /\ vm'[arg[q]] = vm[arg[q]]
            /\ cref'[arg[q]] = cref[arg[q]] /\ holds'[arg[q]] = holds[arg[q]]
            /\ maker'[arg[q]] = maker[arg[q]]
      BY <1>3, <1>4, <2>2, <3>1
    <3> QED BY <1>3, <2>2, <3>1, <3>2 DEF MakingBy
  <2> QED BY <2>1, <2>2
<1>8. Known'
  <2> SUFFICES ASSUME NEW r \in Ref PROVE KnownRef(r)'
    BY DEF Known
  <2>0. KnownRef(r)
    BY DEF NifInv, Known
  <2>1. CASE r = a
    BY <1>1, <1>2, <1>5, <2>0, <2>1
       DEF KnownRef, MakingBy, Creating, NewReleases, NifInv, TypeOK, Stages
  <2>2. CASE r # a
    BY <1>4, <1>5, <1>6, <2>0, <2>2 DEF KnownRef
  <2> QED BY <2>1, <2>2
<1>9. Attached'
  <2> SUFFICES ASSUME NEW r \in Ref PROVE AttachedRef(r)'
    BY DEF Attached
  <2>0. AttachedRef(r)
    BY DEF NifInv, Attached
  <2>1. CASE r = a
    BY <1>1, <1>2, <2>0, <2>1
       DEF AttachedRef, MakingBy, Creating, NewReleases, NifInv, TypeOK, Stages
  <2>2. CASE r # a
    BY <1>4, <1>6, <2>0, <2>2 DEF AttachedRef
  <2> QED BY <2>1, <2>2
<1>10. Working'
  BY <1>1, <1>5 DEF Working, NewReleases, NifInv, TypeOK, Stages
<1> QED BY <1>7, <1>8, <1>9, <1>10 DEF NifInv

\* From here on the resource is set.
LEMMA NewReturnsInv ==
  ASSUME NifInv, TypeOK', NEW p \in Proc, NewReturns(p)
  PROVE  NifInv'
<1> DEFINE a == arg[p]
<1>1. a \in Ref /\ pc[p] \in Stages /\ arg' = arg /\ pc'[p] # pc[p]
  BY DEF NifInv, TypeOK, NewReturns, Stages
<1>2. MakingBy(p)
  BY DEF NifInv, Making
<1>3. ASSUME NEW q \in Proc, q # p
      PROVE  /\ pc'[q] = pc[q] /\ arg'[q] = arg[q] /\ proc'[q] = proc[q]
             /\ pc[q] \in Stages => arg[q] # a
  BY <1>1, <1>3, OneMaker DEF NifInv, TypeOK, NewReturns
<1>4. ASSUME NEW r \in Ref, r # a
      PROVE  /\ res'[r] = res[r] /\ vm'[r] = vm[r] /\ cref'[r] = cref[r]
             /\ holds'[r] = holds[r] /\ maker'[r] = maker[r]
  BY <1>4 DEF NifInv, TypeOK, NewReturns
<1>5. mail' = mail /\ queue' = queue /\ running' = running
  BY DEF NewReturns
<1>6. ASSUME NEW q \in Proc, NEW r \in Ref, Creating(q, r), r # a
      PROVE  Creating(q, r)' /\ pc'[q] = pc[q]
  <2>1. q # p
    BY <1>6 DEF Creating
  <2> QED BY <1>3, <1>6, <2>1 DEF Creating
<1>7. Making'
  <2> SUFFICES ASSUME NEW q \in Proc PROVE MakingBy(q)'
    BY DEF Making
  <2>1. CASE q = p
    BY <1>1, <1>2, <2>1 DEF MakingBy, NewReturns, NifInv, TypeOK, Stages
  <2>2. CASE q # p
    <3>1. MakingBy(q) /\ arg[q] \in Ref
      BY DEF NifInv, Making, TypeOK
    <3>2. pc[q] \in Stages =>
            /\ res'[arg[q]] = res[arg[q]] /\ vm'[arg[q]] = vm[arg[q]]
            /\ cref'[arg[q]] = cref[arg[q]] /\ holds'[arg[q]] = holds[arg[q]]
            /\ maker'[arg[q]] = maker[arg[q]]
      BY <1>3, <1>4, <2>2, <3>1
    <3> QED BY <1>3, <2>2, <3>1, <3>2 DEF MakingBy
  <2> QED BY <2>1, <2>2
<1>8. Known'
  <2> SUFFICES ASSUME NEW r \in Ref PROVE KnownRef(r)'
    BY DEF Known
  <2>0. KnownRef(r)
    BY DEF NifInv, Known
  <2>1. CASE r = a
    BY <1>1, <1>2, <1>5, <2>0, <2>1
       DEF KnownRef, MakingBy, Creating, NewReturns, NifInv, TypeOK, Stages
  <2>2. CASE r # a
    BY <1>4, <1>5, <1>6, <2>0, <2>2 DEF KnownRef
  <2> QED BY <2>1, <2>2
<1>9. Attached'
  <2> SUFFICES ASSUME NEW r \in Ref PROVE AttachedRef(r)'
    BY DEF Attached
  <2>0. AttachedRef(r)
    BY DEF NifInv, Attached
  <2>1. CASE r = a
    BY <1>1, <1>2, <2>0, <2>1
       DEF AttachedRef, MakingBy, Creating, NewReturns, NifInv, TypeOK, Stages
  <2>2. CASE r # a
    BY <1>4, <1>6, <2>0, <2>2 DEF AttachedRef
  <2> QED BY <2>1, <2>2
<1>10. Working'
  BY <1>1, <1>5 DEF Working, NewReturns, NifInv, TypeOK, Stages
<1> QED BY <1>7, <1>8, <1>9, <1>10 DEF NifInv

-----------------------------------------------------------------------------
(***************************************************************************)
(* Steps of the processes and of the dirty schedulers.                     *)
(***************************************************************************)
\* A process outside ailua_nif_alloc changes nothing about the resources but
\* who holds those that are set.
LEMMA ClientStep ==
  ASSUME NifInv, NEW p \in Proc, pc[p] \notin Stages, pc'[p] \notin Stages,
         \A q \in Proc \ {p} :
            pc'[q] = pc[q] /\ arg'[q] = arg[q] /\ proc'[q] = proc[q],
         res' = res, vm' = vm, cref' = cref, maker' = maker,
         \A r \in Ref : holds'[r] = holds[r] \/ res[r] = "set",
         \A q \in Proc, r \in Ref : <<q, r>> \in mail' => res[r] = "set"
  PROVE  Making' /\ Known' /\ Attached'
<1>1. ASSUME NEW q \in Proc, NEW r \in Ref, Creating(q, r)
      PROVE  Creating(q, r)' /\ pc'[q] = pc[q]
  <2>1. q # p
    BY <1>1 DEF Creating
  <2> QED BY <1>1, <2>1 DEF Creating
<1>2. Making'
  <2> SUFFICES ASSUME NEW q \in Proc, pc'[q] \in Stages PROVE MakingBy(q)'
    BY DEF Making, MakingBy
  <2>1. q # p
    OBVIOUS
  <2>2. MakingBy(q) /\ arg[q] \in Ref
    BY DEF NifInv, Making, TypeOK
  <2>3. res[arg[q]] = "raw"
    BY <2>1, <2>2 DEF MakingBy
  <2>4. holds'[arg[q]] = holds[arg[q]]
    BY <2>2, <2>3
  <2> QED BY <2>1, <2>2, <2>4 DEF MakingBy
<1>3. Known'
  <2> SUFFICES ASSUME NEW r \in Ref PROVE KnownRef(r)'
    BY DEF Known
  <2>1. KnownRef(r)
    BY DEF NifInv, Known
  <2> QED BY <1>1, <2>1 DEF KnownRef
<1>4. Attached'
  <2> SUFFICES ASSUME NEW r \in Ref PROVE AttachedRef(r)'
    BY DEF Attached
  <2>1. AttachedRef(r)
    BY DEF NifInv, Attached
  <2> QED BY <1>1, <2>1 DEF AttachedRef
<1> QED BY <1>2, <1>3, <1>4

\* What a message carries is set.
LEMMA MailSet ==
  ASSUME NifInv, NEW q \in Proc, NEW r \in Ref, <<q, r>> \in mail
  PROVE  res[r] = "set"
  BY DEF NifInv, Known, KnownRef

\* Call: the Ref stays in the heap while the job waits, queued once.
LEMMA CallInv ==
  ASSUME NifInv, TypeOK', NEW p \in Proc, NEW r \in Ref, Call(p, r)
  PROVE  NifInv'
<1>1. pc[p] = "idle" /\ pc'[p] = "queued" /\ arg'[p] = r /\ p \in holds[r]
  BY DEF Call, Idle, NifInv, TypeOK
<1>2. \A q \in Proc \ {p} :
        pc'[q] = pc[q] /\ arg'[q] = arg[q] /\ proc'[q] = proc[q]
  BY DEF Call, NifInv, TypeOK
<1>3. Making' /\ Known' /\ Attached'
  <2>1. /\ res' = res /\ vm' = vm /\ cref' = cref /\ maker' = maker
        /\ holds' = holds /\ mail' = mail
    BY DEF Call
  <2>2. pc[p] \notin Stages /\ pc'[p] \notin Stages
    BY <1>1 DEF Stages
  <2> QED BY <1>2, <2>1, <2>2, MailSet, ClientStep
<1>4. Working'
  <2>1. /\ queue \in Seq(Proc) /\ Len(queue') = Len(queue) + 1
        /\ queue'[Len(queue) + 1] = p
        /\ \A i \in 1..Len(queue) : queue'[i] = queue[i] /\ queue[i] \in Proc
    BY AppendProperties DEF Call, NifInv, TypeOK
  <2>2. \A i \in 1..Len(queue) : pc[queue[i]] = "queued" /\ queue[i] # p
    BY <1>1 DEF NifInv, Working
  <2>3. \A i \in 1..Len(queue') : pc'[queue'[i]] = "queued"
    BY <1>1, <1>2, <2>1, <2>2
  <2>4. \A i, j \in 1..Len(queue') : queue'[i] = queue'[j] => i = j
    <3>1. \A i, j \in 1..Len(queue) : queue[i] = queue[j] => i = j
      BY DEF NifInv, Working
    <3> QED BY <2>1, <2>2, <3>1
  <2>5. \A q \in Proc : pc'[q] \in {"queued", "running"} => q \in holds'[arg'[q]]
    BY <1>1, <1>2 DEF Call, NifInv, Working
  <2>6. \A q \in Proc, t \in Ref :
          <<q, t>> \in running' => pc'[q] = "running" /\ arg'[q] = t
    BY <1>1, <1>2 DEF Call, NifInv, Working
  <2> QED BY <2>3, <2>4, <2>5, <2>6 DEF Working
<1> QED BY <1>3, <1>4 DEF NifInv

\* A scheduler takes the head of the queue; no job is queued twice.
LEMMA CallStartsInv ==
  ASSUME NifInv, TypeOK', NEW p \in Proc, CallStarts(p)
  PROVE  NifInv'
<1>1. /\ queue \in Seq(Proc) /\ queue # <<>> /\ p = queue[1]
      /\ Len(queue') = Len(queue) - 1 /\ Len(queue) >= 1
      /\ \A i \in 1..(Len(queue) - 1) : queue'[i] = queue[i + 1]
  BY HeadTailProperties DEF CallStarts, NifInv, TypeOK
<1>2. pc[p] = "queued" /\ pc'[p] = "running" /\ arg' = arg /\ p \in holds[arg[p]]
  BY <1>1 DEF CallStarts, NifInv, TypeOK, Working
<1>3. \A q \in Proc \ {p} :
        pc'[q] = pc[q] /\ arg'[q] = arg[q] /\ proc'[q] = proc[q]
  BY DEF CallStarts, NifInv, TypeOK
<1>4. Making' /\ Known' /\ Attached'
  <2>1. /\ res' = res /\ vm' = vm /\ cref' = cref /\ maker' = maker
        /\ holds' = holds /\ mail' = mail
    BY DEF CallStarts
  <2>2. pc[p] \notin Stages /\ pc'[p] \notin Stages
    BY <1>2 DEF Stages
  <2> QED BY <1>3, <2>1, <2>2, MailSet, ClientStep
<1>5. Working'
  <2>1. /\ \A i \in 1..Len(queue) : pc[queue[i]] = "queued" /\ queue[i] \in Proc
        /\ \A i, j \in 1..Len(queue) : queue[i] = queue[j] => i = j
    BY <1>1 DEF NifInv, Working
  <2>2. \A i \in 1..Len(queue') : i + 1 \in 1..Len(queue) /\ queue'[i] = queue[i + 1]
                                 /\ queue'[i] # p
    BY <1>1, <2>1
  <2>3. \A i \in 1..Len(queue') : pc'[queue'[i]] = "queued"
    BY <1>3, <2>1, <2>2
  <2>4. \A i, j \in 1..Len(queue') : queue'[i] = queue'[j] => i = j
    <3> SUFFICES ASSUME NEW i \in 1..Len(queue'), NEW j \in 1..Len(queue'),
                        queue'[i] = queue'[j]
                 PROVE  i = j
      OBVIOUS
    <3>1. i + 1 = j + 1
      BY <2>1, <2>2
    <3> QED BY <1>1, <3>1
  <2>5. \A q \in Proc : pc'[q] \in {"queued", "running"} => q \in holds'[arg'[q]]
    BY <1>2, <1>3 DEF CallStarts, NifInv, Working
  <2>6. \A q \in Proc, t \in Ref :
          <<q, t>> \in running' => pc'[q] = "running" /\ arg'[q] = t
    BY <1>2, <1>3 DEF CallStarts, NifInv, Working
  <2> QED BY <2>3, <2>4, <2>5, <2>6 DEF Working
<1> QED BY <1>4, <1>5 DEF NifInv

\* The end of a call, and of a process that was killed in it.
LEMMA CallReturnsInv ==
  ASSUME NifInv, TypeOK', NEW p \in Proc, NEW r \in Ref, CallReturns(p, r)
  PROVE  NifInv'
<1>1. /\ <<p, r>> \in running /\ pc[p] = "running" /\ arg[p] = r
      /\ pc'[p] = "idle" /\ arg' = arg
  BY DEF CallReturns, NifInv, TypeOK, Working
<1>2. \A q \in Proc \ {p} :
        /\ pc'[q] = pc[q] /\ arg'[q] = arg[q] /\ proc'[q] = proc[q]
        /\ \A t \in Ref : q \in holds[t] => q \in holds'[t]
  BY DEF CallReturns, Bury, NifInv, TypeOK
<1>3. Making' /\ Known' /\ Attached'
  <2>1. res' = res /\ vm' = vm /\ cref' = cref /\ maker' = maker /\ mail' \subseteq mail
    BY DEF CallReturns, Bury
  <2>2. pc[p] \notin Stages /\ pc'[p] \notin Stages
    BY <1>1 DEF Stages
  <2>3. \A t \in Ref : holds'[t] = holds[t] \/ p \in holds[t]
    <3>1. CASE holds' = holds
      BY <3>1
    <3>2. CASE holds' = [t \in Ref |-> holds[t] \ {p}]
      BY <3>2
    <3> QED BY <3>1, <3>2 DEF CallReturns, Bury
  <2>4. \A t \in Ref : holds'[t] = holds[t] \/ res[t] = "set"
    BY <1>1, <2>3, IdleHolds
  <2> QED BY <1>2, <2>1, <2>2, <2>4, MailSet, ClientStep
<1>4. Working'
  <2>1. queue' = queue /\ queue \in Seq(Proc)
    BY DEF CallReturns, NifInv, TypeOK
  <2>2. \A i \in 1..Len(queue) : pc'[queue[i]] = "queued"
    BY <1>1, <1>2, <2>1 DEF NifInv, Working
  <2>3. \A q \in Proc : pc'[q] \in {"queued", "running"} => q \in holds'[arg'[q]]
    <3> SUFFICES ASSUME NEW q \in Proc, pc'[q] \in {"queued", "running"}
                 PROVE  q \in holds'[arg'[q]]
      OBVIOUS
    <3>1. q # p /\ arg[q] \in Ref
      BY <1>1 DEF NifInv, TypeOK
    <3>2. q \in holds[arg[q]]
      BY <1>2, <3>1 DEF NifInv, Working
    <3> QED BY <1>2, <3>1, <3>2
  <2>4. \A q \in Proc, t \in Ref :
          <<q, t>> \in running' => pc'[q] = "running" /\ arg'[q] = t
    <3> SUFFICES ASSUME NEW q \in Proc, NEW t \in Ref, <<q, t>> \in running'
                 PROVE  pc'[q] = "running" /\ arg'[q] = t
      OBVIOUS
    <3>1. <<q, t>> \in running /\ <<q, t>> # <<p, r>>
      BY DEF CallReturns
    <3>2. pc[q] = "running" /\ arg[q] = t
      BY <3>1 DEF NifInv, Working
    <3>3. q # p
      BY <1>1, <3>1, <3>2
    <3> QED BY <1>2, <3>2, <3>3
  <2> QED BY <2>1, <2>2, <2>3, <2>4 DEF Working, NifInv
<1> QED BY <1>3, <1>4 DEF NifInv

\* Sending, receiving and forgetting a Ref.
LEMMA RefMovesInv ==
  ASSUME NifInv, TypeOK', NEW p \in Proc, NEW r \in Ref,
         Receive(p, r) \/ Forget(p, r) \/ \E q \in Proc : Send(p, q, r)
  PROVE  NifInv'
<1>1. pc[p] = "idle" /\ (p \in holds[r] \/ <<p, r>> \in mail)
  BY DEF Receive, Forget, Send, Idle
<1>2. res[r] = "set"
  BY <1>1, IdleHolds, MailSet
<1>3. /\ UNCHANGED <<proc, pc, arg, res, vm, cref, queue, running, maker>>
      /\ \A q \in Proc, t \in Ref : <<q, t>> \in mail' => t = r \/ <<q, t>> \in mail
      /\ \A t \in Ref : t # r => holds'[t] = holds[t]
      /\ \A q \in Proc \ {p}, t \in Ref : q \in holds[t] => q \in holds'[t]
  <2>1. CASE Receive(p, r)
    BY <2>1 DEF Receive, NifInv, TypeOK
  <2>2. CASE Forget(p, r)
    BY <2>2 DEF Forget, NifInv, TypeOK
  <2>3. ASSUME NEW q \in Proc, Send(p, q, r)
        PROVE  /\ UNCHANGED <<proc, pc, arg, res, vm, cref, queue, running, maker>>
               /\ mail' \subseteq mail \cup {<<q, r>>}
               /\ holds' = holds \/ holds' = [holds EXCEPT ![r] = @ \ {p}]
    BY <2>3 DEF Send
  <2>4. ASSUME NEW q \in Proc, Send(p, q, r)
        PROVE  /\ \A t \in Ref : t # r => holds'[t] = holds[t]
               /\ \A s \in Proc \ {p}, t \in Ref : s \in holds[t] => s \in holds'[t]
    <3>1. CASE holds' = holds
      BY <3>1
    <3>2. CASE holds' = [holds EXCEPT ![r] = @ \ {p}]
      BY <3>2 DEF NifInv, TypeOK
    <3> QED BY <2>3, <2>4, <3>1, <3>2
  <2> QED BY <2>1, <2>2, <2>3, <2>4
<1>4. Making' /\ Known' /\ Attached'
  <2>1. pc[p] \notin Stages
    BY <1>1 DEF Stages
  <2>2. \A q \in Proc, t \in Ref : <<q, t>> \in mail' => res[t] = "set"
    BY <1>2, <1>3, MailSet
  <2> QED BY <1>2, <1>3, <2>1, <2>2, ClientStep
<1>5. Working'
  <2>1. \A q \in Proc : pc[q] \in {"queued", "running"} => q \in holds'[arg[q]]
    BY <1>1, <1>3 DEF NifInv, Working, TypeOK
  <2> QED BY <1>3, <2>1 DEF NifInv, Working
<1> QED BY <1>4, <1>5 DEF NifInv

\* A process that exits takes its waiting job out of the queue.
LEMMA ExitsInv ==
  ASSUME NifInv, TypeOK', NEW p \in Proc, Exits(p)
  PROVE  NifInv'
<1>1. pc[p] \in {"idle", "queued"} /\ pc'[p] = "idle" /\ arg' = arg /\ running' = running
  BY DEF Exits, NifInv, TypeOK
<1>2. \A q \in Proc \ {p} :
        /\ pc'[q] = pc[q] /\ arg'[q] = arg[q] /\ proc'[q] = proc[q]
        /\ \A t \in Ref : q \in holds[t] => q \in holds'[t]
  BY DEF Exits, Bury, NifInv, TypeOK
<1>3. Making' /\ Known' /\ Attached'
  <2>1. res' = res /\ vm' = vm /\ cref' = cref /\ maker' = maker /\ mail' \subseteq mail
    BY DEF Exits, Bury
  <2>2. pc[p] \notin Stages /\ pc'[p] \notin Stages
    BY <1>1 DEF Stages
  <2>3. \A t \in Ref : holds'[t] = holds[t] \/ p \in holds[t]
    BY DEF Exits, Bury, NifInv, TypeOK
  <2>4. \A t \in Ref : holds'[t] = holds[t] \/ res[t] = "set"
    BY <1>1, <2>3, IdleHolds
  <2> QED BY <1>2, <2>1, <2>2, <2>4, MailSet, ClientStep
<1>4. /\ \A i \in 1..Len(queue') : queue'[i] # p /\ pc[queue'[i]] = "queued"
                                /\ queue'[i] \in Proc
      /\ \A i, j \in 1..Len(queue') : queue'[i] = queue'[j] => i = j
  <2>0. /\ queue \in Seq(Proc)
        /\ \A i \in 1..Len(queue) : pc[queue[i]] = "queued" /\ queue[i] \in Proc
        /\ \A i, j \in 1..Len(queue) : queue[i] = queue[j] => i = j
    BY DEF NifInv, TypeOK, Working
  <2>1. CASE pc[p] = "idle"
    BY <2>0, <2>1 DEF Exits
  <2>2. CASE pc[p] = "queued"
    <3>1. PICK k \in 1..Len(queue) : queue[k] = p /\ queue' = RemoveAt(queue, k)
      BY <2>2 DEF Exits
    <3>2. /\ Len(queue') = Len(queue) - 1
          /\ \A i \in 1..(Len(queue) - 1) :
               queue'[i] = IF i < k THEN queue[i] ELSE queue[i + 1]
      BY <2>0, <3>1, RemoveAtElements
    <3> DEFINE from(i) == IF i < k THEN i ELSE i + 1
    <3>3. \A i \in 1..Len(queue') :
            from(i) \in 1..Len(queue) /\ queue'[i] = queue[from(i)] /\ from(i) # k
      BY <2>0, <3>2
    <3>4. \A i, j \in 1..Len(queue') : from(i) = from(j) => i = j
      BY <2>0, <3>2
    <3> HIDE DEF from
    <3>5. \A i \in 1..Len(queue') : queue'[i] # p
      BY <2>0, <3>1, <3>3
    <3>6. \A i \in 1..Len(queue') : pc[queue'[i]] = "queued" /\ queue'[i] \in Proc
      BY <2>0, <3>3
    <3>7. ASSUME NEW i \in 1..Len(queue'), NEW j \in 1..Len(queue'),
                 queue'[i] = queue'[j]
          PROVE  i = j
      <4>1. from(i) = from(j)
        BY <2>0, <3>3, <3>7
      <4> QED BY <3>4, <4>1
    <3> QED BY <3>5, <3>6, <3>7
  <2> QED BY <1>1, <2>1, <2>2
<1>5. Working'
  <2>1. \A i \in 1..Len(queue') : pc'[queue'[i]] = "queued"
    BY <1>2, <1>4
  <2>2. \A q \in Proc : pc'[q] \in {"queued", "running"} => q \in holds'[arg'[q]]
    <3> SUFFICES ASSUME NEW q \in Proc, pc'[q] \in {"queued", "running"}
                 PROVE  q \in holds'[arg'[q]]
      OBVIOUS
    <3>1. q # p /\ arg[q] \in Ref
      BY <1>1 DEF NifInv, TypeOK
    <3>2. q \in holds[arg[q]]
      BY <1>2, <3>1 DEF NifInv, Working
    <3> QED BY <1>2, <3>1, <3>2
  <2>3. \A q \in Proc, t \in Ref :
          <<q, t>> \in running' => pc'[q] = "running" /\ arg'[q] = t
    BY <1>1, <1>2 DEF NifInv, Working
  <2> QED BY <1>4, <2>1, <2>2, <2>3 DEF Working
<1> QED BY <1>3, <1>5 DEF NifInv

\* A process that is killed in its call keeps its heap, and so the Ref.
LEMMA KilledInv ==
  ASSUME NifInv, TypeOK', NEW p \in Proc, KilledInCall(p)
  PROVE  NifInv'
<1>1. Making' /\ Known' /\ Attached'
  <2>1. UNCHANGED <<pc, arg, res, vm, cref, holds, mail, maker>>
    BY DEF KilledInCall
  <2>2. pc[p] \notin Stages
    BY DEF KilledInCall, Stages
  <2>3. \A q \in Proc \ {p} : proc'[q] = proc[q]
    BY DEF KilledInCall, NifInv, TypeOK
  <2> QED BY <2>1, <2>2, <2>3, MailSet, ClientStep
<1>2. Working'
  BY DEF KilledInCall, Working, NifInv
<1> QED BY <1>1, <1>2 DEF NifInv

-----------------------------------------------------------------------------
\* A resource that ailua_nif_alloc works on is new.
LEMMA NewAllocatesInv ==
  ASSUME NifInv, TypeOK', NEW p \in Proc, NEW r \in Ref, NewAllocates(p, r)
  PROVE  NifInv'
<1>1. /\ pc[p] = "idle" /\ proc[p] = "alive" /\ res[r] = "unused"
      /\ pc'[p] = "allocated" /\ arg'[p] = r /\ res'[r] = "raw" /\ cref'[r]
      /\ maker'[r] = p /\ holds' = holds /\ vm' = vm /\ proc' = proc
      /\ mail' = mail /\ queue' = queue /\ running' = running
  BY DEF NewAllocates, Idle, NifInv, TypeOK
<1>2. ASSUME NEW q \in Proc, q # p
      PROVE  pc'[q] = pc[q] /\ arg'[q] = arg[q]
  BY <1>2 DEF NewAllocates, NifInv, TypeOK
<1>3. ASSUME NEW t \in Ref, t # r
      PROVE  res'[t] = res[t] /\ cref'[t] = cref[t] /\ maker'[t] = maker[t]
  BY <1>3 DEF NewAllocates, NifInv, TypeOK
<1>4. ASSUME NEW q \in Proc, NEW t \in Ref, Creating(q, t)
      PROVE  t # r /\ Creating(q, t)' /\ pc'[q] = pc[q]
  <2>1. MakingBy(q) /\ pc[q] \in Stages /\ arg[q] = t
    BY <1>4 DEF Creating, NifInv, Making
  <2>2. res[t] = "raw" /\ q # p
    BY <1>1, <2>1 DEF MakingBy, Stages
  <2> QED BY <1>1, <1>2, <2>1, <2>2 DEF Creating
<1>5. vm[r] = "none" /\ holds[r] = {} /\ \A q \in Proc : <<q, r>> \notin mail
  BY <1>1, <1>4 DEF NifInv, Known, KnownRef, Attached, AttachedRef
<1>6. Making'
  <2> SUFFICES ASSUME NEW q \in Proc, pc'[q] \in Stages PROVE MakingBy(q)'
    BY DEF Making, MakingBy
  <2>1. CASE q = p
    BY <1>1, <1>5, <2>1 DEF MakingBy
  <2>2. CASE q # p
    <3>1. MakingBy(q) /\ arg[q] \in Ref /\ pc[q] \in Stages /\ Creating(q, arg[q])
      BY <1>2, <2>2 DEF NifInv, Making, TypeOK, Creating
    <3>2. arg[q] # r
      BY <1>4, <3>1
    <3> QED BY <1>1, <1>2, <1>3, <2>2, <3>1, <3>2 DEF MakingBy
  <2> QED BY <2>1, <2>2
<1>7. Known'
  <2> SUFFICES ASSUME NEW t \in Ref PROVE KnownRef(t)'
    BY DEF Known
  <2>1. KnownRef(t)
    BY DEF NifInv, Known
  <2>2. CASE t = r
    BY <1>1, <1>5, <2>2 DEF KnownRef
  <2>3. CASE t # r
    BY <1>1, <1>3, <1>4, <2>1, <2>3 DEF KnownRef
  <2> QED BY <2>2, <2>3
<1>8. Attached'
  <2> SUFFICES ASSUME NEW t \in Ref PROVE AttachedRef(t)'
    BY DEF Attached
  <2>1. AttachedRef(t)
    BY DEF NifInv, Attached
  <2>2. CASE t = r
    BY <1>1, <1>5, <2>2 DEF AttachedRef
  <2>3. CASE t # r
    BY <1>1, <1>3, <1>4, <2>1, <2>3 DEF AttachedRef
  <2> QED BY <2>2, <2>3
<1>9. Working'
  <2>1. \A q \in Proc : pc'[q] \in {"queued", "running"} => q \in holds'[arg'[q]]
    BY <1>1, <1>2 DEF NifInv, Working
  <2>2. \A q \in Proc, t \in Ref :
          <<q, t>> \in running' => pc'[q] = "running" /\ arg'[q] = t
    BY <1>1, <1>2 DEF NifInv, Working
  <2>3. \A i \in 1..Len(queue) : pc'[queue[i]] = "queued"
    <3>1. \A i \in 1..Len(queue) : pc[queue[i]] = "queued" /\ queue[i] \in Proc
      BY DEF NifInv, Working, TypeOK
    <3> QED BY <1>1, <1>2, <3>1
  <2> QED BY <1>1, <2>1, <2>2, <2>3 DEF NifInv, Working
<1> QED BY <1>6, <1>7, <1>8, <1>9 DEF NifInv

\* Only resources that are set are destroyed: the others are referenced.
LEMMA DestroyedWasSet ==
  ASSUME NifInv, NEW r \in Ref, Destroy(r)
  PROVE  /\ res[r] = "set" /\ holds[r] = {}
         /\ \A p \in Proc : ~Creating(p, r) /\ <<p, r>> \notin mail
<1>1. ~cref[r] /\ holds[r] = {} /\ \A p \in Proc : <<p, r>> \notin mail
  BY DEF Destroy, Referenced
<1>2. ASSUME NEW p \in Proc, Creating(p, r) PROVE FALSE
  <2>1. MakingBy(p) /\ pc[p] \in Stages /\ arg[p] = r
    BY <1>2 DEF Creating, NifInv, Making
  <2> QED BY <1>1, <2>1 DEF MakingBy, Stages
<1>3. res[r] # "raw"
  BY <1>1, <1>2 DEF NifInv, Known, KnownRef
<1> QED BY <1>1, <1>2, <1>3 DEF Destroy

\* The destructor finds the virtual machine, and nobody in it.
LEMMA DestroyInv ==
  ASSUME NifInv, TypeOK', NEW r \in Ref, Destroy(r)
  PROVE  NifInv'
<1>1. /\ res[r] = "set" /\ holds[r] = {}
      /\ \A p \in Proc : ~Creating(p, r) /\ <<p, r>> \notin mail
  BY DestroyedWasSet
<1>2. res'[r] = "destroyed" /\ vm'[r] = "closed"
  BY <1>1 DEF Destroy, NifInv, TypeOK
<1>3. UNCHANGED <<proc, pc, arg, cref, holds, mail, queue, running, maker>>
  BY DEF Destroy
<1>4. ASSUME NEW t \in Ref, t # r PROVE res'[t] = res[t] /\ vm'[t] = vm[t]
  BY <1>4 DEF Destroy, NifInv, TypeOK
<1>5. Making'
  <2> SUFFICES ASSUME NEW q \in Proc, pc'[q] \in Stages PROVE MakingBy(q)'
    BY DEF Making, MakingBy
  <2>1. MakingBy(q) /\ arg[q] \in Ref /\ Creating(q, arg[q])
    BY <1>3 DEF NifInv, Making, TypeOK, Creating
  <2>2. arg[q] # r
    BY <1>1, <2>1
  <2> QED BY <1>3, <1>4, <2>1, <2>2 DEF MakingBy
<1>6. Known'
  <2> SUFFICES ASSUME NEW t \in Ref PROVE KnownRef(t)'
    BY DEF Known
  <2>1. KnownRef(t)
    BY DEF NifInv, Known
  <2> QED BY <1>1, <1>2, <1>3, <1>4, <2>1 DEF KnownRef, Creating
<1>7. Attached'
  <2> SUFFICES ASSUME NEW t \in Ref PROVE AttachedRef(t)'
    BY DEF Attached
  <2>1. AttachedRef(t)
    BY DEF NifInv, Attached
  <2> QED BY <1>2, <1>3, <1>4, <2>1 DEF AttachedRef, Creating
<1>8. Working'
  BY <1>3 DEF NifInv, Working
<1> QED BY <1>5, <1>6, <1>7, <1>8 DEF NifInv

-----------------------------------------------------------------------------
\* The invariant is inductive.
LEMMA NifStep == NifInv /\ [Next]_vars => NifInv'
<1> SUFFICES ASSUME NifInv, [Next]_vars PROVE NifInv'
  OBVIOUS
<1>1. TypeOK'
  BY TypeStep DEF NifInv
<1>2. ASSUME NEW p \in Proc, NewStep(p) PROVE NifInv'
  BY <1>1, <1>2, NewFailsInv, NewOpensInv, NewMakesTermInv, NewReleasesInv,
     NewReturnsInv DEF NewStep
<1>3. CASE UNCHANGED vars
  <2>1. Making' /\ Known' /\ Attached' /\ Working'
    <3>1. UNCHANGED <<proc, pc, arg, res, vm, cref, holds, mail, queue, running, maker>>
      BY <1>3 DEF vars
    <3>2. Making'
      BY <3>1 DEF NifInv, Making, MakingBy
    <3>3. Known'
      BY <3>1 DEF NifInv, Known, KnownRef, Creating
    <3>4. Attached'
      BY <3>1 DEF NifInv, Attached, AttachedRef, Creating
    <3>5. Working'
      BY <3>1 DEF NifInv, Working
    <3> QED BY <3>2, <3>3, <3>4, <3>5
  <2> QED BY <1>1, <2>1 DEF NifInv
<1> QED BY <1>1, <1>2, <1>3, CallStartsInv, ExitsInv, KilledInv, NewAllocatesInv,
           CallInv, CallReturnsInv, RefMovesInv, DestroyInv DEF Next

\* So it holds of every reachable state.
LEMMA NifInvariant == Spec => []NifInv
  BY NifInit, NifStep, PTL DEF Spec

\* However Refs are shared and whoever is killed, no dirty scheduler is inside
\* a virtual machine after lua_close.
THEOREM NeverUsedAfterClose == Spec => []NoUseAfterClose
<1>1. NifInv => NoUseAfterClose
  <2> SUFFICES ASSUME NifInv, NEW p \in Proc, NEW r \in Ref, <<p, r>> \in running
               PROVE  vm[r] = "open"
    BY DEF NoUseAfterClose
  <2>1. pc[p] = "running" /\ p \in holds[r]
    BY DEF NifInv, Working
  <2> QED BY <2>1, IdleHolds
<1> QED BY <1>1, NifInvariant, PTL

\* Only a resource without a virtual machine ever leaks.
THEOREM NeverLeaksVM == Spec => []NoVMLeaks
<1>1. NifInv => NoVMLeaks
  BY DEF NifInv, Attached, AttachedRef, NoVMLeaks
<1> QED BY <1>1, NifInvariant, PTL

\* free_ailua_res never reads an uninitialised res->ailua.
THEOREM DestructorSafe == Spec => DestructorFindsVM
<1>1. NifInv /\ [Next]_vars =>
        [\A r \in Ref : res[r] = "raw" => res'[r] # "destroyed"]_vars
  <2> SUFFICES ASSUME NifInv, Next, NEW r \in Ref, res[r] = "raw", res'[r] = "destroyed"
               PROVE  FALSE
    OBVIOUS
  <2>1. ASSUME NEW t \in Ref, Destroy(t) PROVE FALSE
    <3>1. t = r
      BY <2>1 DEF Destroy, NifInv, TypeOK
    <3> QED BY <2>1, <3>1, DestroyedWasSet
  <2>2. ASSUME NEW p \in Proc, NewStep(p) PROVE FALSE
    BY <2>2 DEF NewStep, NewFails, NewOpens, NewMakesTerm, NewReleases,
                NewReturns, NifInv, TypeOK
  <2>3. ASSUME NEW p \in Proc, NEW t \in Ref, NewAllocates(p, t) PROVE FALSE
    BY <2>3 DEF NewAllocates, NifInv, TypeOK
  <2>4. ASSUME res' = res PROVE FALSE
    BY <2>4
  <2> QED BY <2>1, <2>2, <2>3, <2>4 DEF Next, CallStarts, Exits, KilledInCall,
             Call, CallReturns, Receive, Forget, Send
<1> QED BY <1>1, NifInvariant, PTL DEF Spec, DestructorFindsVM

-----------------------------------------------------------------------------
(***************************************************************************)
(* One thread per virtual machine, for clients that hand their Refs over.  *)
(***************************************************************************)
\* There is one copy of a Ref, in a heap or in a message.
OneCopy(r) ==
    /\ \A p, q \in Proc : {p, q} \subseteq holds[r] => p = q
    /\ \A p, q \in Proc : {<<p, r>>, <<q, r>>} \subseteq mail => p = q
    /\ \A p, q \in Proc : <<p, r>> \in mail => q \notin holds[r]
Owned == \A r \in Ref : OneCopy(r)

\* Where copies are only dropped there is still one.
LEMMA CopiesDropped ==
  ASSUME Owned, mail' \subseteq mail, \A r \in Ref : holds'[r] \subseteq holds[r]
  PROVE  Owned'
  BY DEF Owned, OneCopy

\* enif_make_resource makes the first copy.
LEMMA FirstCopy ==
  ASSUME NifInv, Owned, NEW p \in Proc, NewMakesTerm(p)
  PROVE  Owned'
<1>1. /\ arg[p] \in Ref /\ res[arg[p]] = "raw" /\ holds[arg[p]] = {}
      /\ mail' = mail /\ holds' = [holds EXCEPT ![arg[p]] = @ \cup {p}]
  <2>1. MakingBy(p) /\ arg[p] \in Ref
    BY DEF NifInv, TypeOK, Making
  <2>2. pc[p] = "opened" /\ pc[p] \in Stages
    BY DEF NewMakesTerm, Stages
  <2>3. res[arg[p]] = "raw" /\ holds[arg[p]] = {}
    BY <2>1, <2>2 DEF MakingBy
  <2> QED BY <2>1, <2>3 DEF NewMakesTerm
<1>2. \A q \in Proc : <<q, arg[p]>> \notin mail
  BY <1>1, MailSet
<1>3. holds'[arg[p]] = {p} /\ \A r \in Ref : r # arg[p] => holds'[r] = holds[r]
  BY <1>1 DEF NifInv, TypeOK
<1> QED BY <1>1, <1>2, <1>3 DEF Owned, OneCopy

\* A message moves the copy, if the sender does not keep one.
LEMMA CopyMoves ==
  ASSUME NifInv, Owned, Sharing # "shared", NEW p \in Proc, NEW r \in Ref,
         Receive(p, r) \/ \E q \in Proc : Send(p, q, r)
  PROVE  Owned'
<1>1. CASE Receive(p, r)
  <2>1. /\ mail' = mail \ {<<p, r>>} /\ <<p, r>> \in mail
        /\ holds' = [holds EXCEPT ![r] = @ \cup {p}]
    BY <1>1 DEF Receive
  <2>2. holds[r] = {}
    BY <2>1 DEF Owned, OneCopy, NifInv, TypeOK
  <2>3. holds'[r] = {p} /\ \A t \in Ref : t # r => holds'[t] = holds[t]
    BY <2>1, <2>2 DEF NifInv, TypeOK
  <2>4. \A q \in Proc : <<q, r>> \notin mail'
    BY <2>1 DEF Owned, OneCopy
  <2> QED BY <2>1, <2>3, <2>4 DEF Owned, OneCopy
<1>2. ASSUME NEW q \in Proc, Send(p, q, r) PROVE Owned'
  <2>1. /\ p \in holds[r] /\ mail' \subseteq mail \cup {<<q, r>>}
        /\ holds' = [holds EXCEPT ![r] = @ \ {p}]
    BY <1>2, NifAssumption DEF Send, NifAssumption
  <2>2. holds[r] = {p} /\ \A s \in Proc : <<s, r>> \notin mail
    BY <2>1 DEF Owned, OneCopy, NifInv, TypeOK
  <2>3. holds'[r] = {} /\ \A t \in Ref : t # r => holds'[t] = holds[t]
    BY <2>1, <2>2 DEF NifInv, TypeOK
  <2> QED BY <2>1, <2>2, <2>3 DEF Owned, OneCopy
<1> QED BY <1>1, <1>2

\* No step makes a second copy.
LEMMA OwnedStep ==
  ASSUME Sharing # "shared"
  PROVE  NifInv /\ Owned /\ [Next]_vars => Owned'
<1> SUFFICES ASSUME NifInv, Owned, [Next]_vars PROVE Owned'
  OBVIOUS
<1>1. ASSUME NEW p \in Proc, NewMakesTerm(p) PROVE Owned'
  BY <1>1, FirstCopy
<1>2. ASSUME NEW p \in Proc, NEW r \in Ref,
             Receive(p, r) \/ \E q \in Proc : Send(p, q, r)
      PROVE  Owned'
  BY <1>2, CopyMoves
<1>3. ASSUME NEW p \in Proc, NEW r \in Ref, Forget(p, r) PROVE Owned'
  BY <1>3, CopiesDropped DEF Forget, NifInv, TypeOK
<1>4. ASSUME NEW p \in Proc, Bury(p) PROVE Owned'
  BY <1>4, CopiesDropped DEF Bury
<1>5. CASE UNCHANGED <<holds, mail>>
  BY <1>5, CopiesDropped
<1> QED BY <1>1, <1>2, <1>3, <1>4, <1>5
        DEF Next, vars, NewStep, NewFails, NewOpens, NewReleases, NewReturns,
            NewAllocates, Call, CallStarts, CallReturns, Exits, KilledInCall, Destroy

\* As long as clients keep a Ref to themselves or hand it over, however many
\* dirty schedulers there are and whoever is killed, one thread at a time is
\* inside a virtual machine.
THEOREM OneThread ==
  ASSUME Sharing # "shared"
  PROVE  Spec => []OneThreadPerVM
<1>1. Init => Owned
  BY DEF Init, Owned, OneCopy
<1>2. NifInv /\ Owned => OneThreadPerVM
  <2> SUFFICES ASSUME NifInv, Owned, NEW p \in Proc, NEW q \in Proc, NEW r \in Ref,
                      {<<p, r>>, <<q, r>>} \subseteq running
               PROVE  p = q
    BY DEF OneThreadPerVM
  <2>1. {p, q} \subseteq holds[r]
    BY DEF NifInv, Working
  <2> QED BY <2>1 DEF Owned, OneCopy
<1>3. NifInv /\ Owned /\ [Next]_vars => Owned'
  BY OwnedStep
<1> QED BY <1>1, <1>2, <1>3, NifInvariant, PTL DEF Spec
=============================================================================

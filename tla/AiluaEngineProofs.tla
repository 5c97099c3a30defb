------------------------- MODULE AiluaEngineProofs -------------------------
(***************************************************************************)
(* Proofs about one virtual machine, for every choice of the constants of  *)
(* AiluaEngine: any values, scripts, names and argument lists.             *)
(***************************************************************************)
EXTENDS AiluaEngine, TLAPS, WellFoundedInduction, SequenceTheorems,
        FiniteSetTheorems

\* A nonempty set of naturals has a least element, and Min is it.
LEMMA NatMin ==
  ASSUME NEW S \in SUBSET Nat, S # {}
  PROVE  Min(S) \in S /\ \A y \in S : Min(S) <= y
<1> DEFINE T == {1..x : x \in S}
<1>1. T \subseteq FiniteSubsetsOf(Nat)
  BY FS_Interval DEF FiniteSubsetsOf
<1>2. T # {}
  OBVIOUS
<1>3. IsWellFoundedOn(StrictSubsetOrdering(Nat), FiniteSubsetsOf(Nat))
  BY FS_StrictSubsetOrderingWellFounded
<1> HIDE DEF T
<1>4. PICK m \in T : \A t \in T : <<t, m>> \notin StrictSubsetOrdering(Nat)
  BY <1>1, <1>2, <1>3, WFMin
<1>5. PICK x \in S : m = 1..x
  BY DEF T
<1>6. ASSUME NEW y \in S PROVE x <= y
  <2>1. SUFFICES ASSUME y < x PROVE FALSE
    OBVIOUS
  <2>2. 1..y \in T /\ 1..y \subseteq 1..x /\ x \in 1..x /\ x \notin 1..y
    BY <2>1 DEF T
  <2>3. <<1..y, 1..x>> \in StrictSubsetOrdering(Nat)
    BY <2>2 DEF StrictSubsetOrdering
  <2> QED BY <2>2, <2>3, <1>4, <1>5
<1>7. \E z \in S : \A y \in S : z =< y
  BY <1>6
<1> QED BY <1>7 DEF Min

\* A function on 1..n is a sequence, of length 0 when n is negative.
LEMMA FunSeq ==
  ASSUME NEW n \in Int, NEW S, NEW f \in [1..n -> S]
  PROVE f \in Seq(S) /\ Len(f) = (IF n >= 0 THEN n ELSE 0)
<1>1. CASE n >= 0
  BY <1>1
<1>2. CASE n < 0
  <2>1. f \in [1..0 -> S]
    BY <1>2
  <2> QED BY <2>1, <1>2
<1> QED BY <1>1, <1>2

\* lua_settop and lua_pop leave a stack of values, whatever the count.
LEMMA PopType ==
  ASSUME NEW s \in Seq(Value), NEW n \in Int
  PROVE lua_pop(s, n) \in Seq(Value)
<1>1. CASE -n - 1 >= 0
  <2>1. lua_pop(s, n) = [i \in 1..(-n) |-> IF i <= Len(s) THEN s[i] ELSE Nil]
     BY <1>1 DEF lua_pop, lua_settop
  <2>2. lua_pop(s, n) \in [1..(-n) -> Value]
     BY <2>1, EngineAssumption, LenProperties
  <2> QED BY <2>2, <1>1
<1>2. CASE ~(-n - 1 >= 0)
  <2>1. lua_pop(s, n) = SubSeq(s, 1, Len(s) - n)
     BY <1>2 DEF lua_pop, lua_settop
  <2>2. \A i \in 1..(Len(s)-n) : s[i] \in Value
    BY <1>2
  <2> QED BY <2>1, <2>2, SubSeqProperties
<1> QED BY <1>1, <1>2

\* Each result leaks at most one metatable, and what is leaked are values.
LEMMA LeakedType ==
  ASSUME NEW s \in Seq(Value)
  PROVE  /\ IsFiniteSet(Leaking(s)) /\ Cardinality(Leaking(s)) \in Nat
         /\ Cardinality(Leaking(s)) <= Len(s)
         /\ lua_gettop(s) >= 0 => Cardinality(Leaking(s)) <= lua_gettop(s)
         /\ Leaked(s) \in Seq(Value)
         /\ Len(Leaked(s)) = Cardinality(Leaking(s))
<1>1. lua_gettop(s) \in Int /\ Len(s) \in Nat
  BY DEF lua_gettop
<1>2. /\ IsFiniteSet(1..lua_gettop(s))
      /\ Cardinality(1..lua_gettop(s)) =
           IF 1 > lua_gettop(s) THEN 0 ELSE lua_gettop(s)
  BY <1>1, FS_Interval
<1>3. Leaking(s) \in SUBSET (1..lua_gettop(s))
  BY DEF Leaking
<1>4. /\ IsFiniteSet(Leaking(s)) /\ Cardinality(Leaking(s)) \in Nat
      /\ Cardinality(Leaking(s)) <= Cardinality(1..lua_gettop(s))
  BY <1>2, <1>3, FS_Subset, FS_CardinalityType
<1>5. Leaked(s) \in [1..Cardinality(Leaking(s)) -> Value]
  BY EngineAssumption DEF Leaked
<1>6. Leaked(s) \in Seq(Value) /\ Len(Leaked(s)) = Cardinality(Leaking(s))
  BY <1>4, <1>5, FunSeq
<1> QED BY <1>1, <1>2, <1>4, <1>6 DEF lua_gettop

\* Every result becomes a term or what an uninitialised variable held.
LEMMA ReplyAtType ==
  ASSUME NEW s \in Seq(Value), NEW i \in 1..lua_gettop(s)
  PROVE  ReplyAt(s, i) \in ReplyTerm
<1> DEFINE assigned == {j \in i..lua_gettop(s) : ~Unsupported(s[j + 1])}
<1>1. CASE assigned = {}
  BY <1>1 DEF ReplyAt, ReplyTerm
<1>2. CASE assigned # {}
  <2>1. assigned \in SUBSET Nat
    BY DEF lua_gettop
  <2>2. Min(assigned) \in assigned
    BY <1>2, <2>1, NatMin
  <2>3. s[Min(assigned) + 1] \in Value
    BY <2>2 DEF lua_gettop
  <2>4. ReplyAt(s, i) = Converted(s, Min(assigned))
    BY <1>2 DEF ReplyAt
  <2> QED BY <2>3, <2>4 DEF Converted, ErlTerm, ReplyTerm
<1> QED BY <1>1, <1>2

\* What a script assigns keeps every global a value.
LEMMA AssignedType ==
  ASSUME TypeOK, NEW effect \in Effects \cup {NoAssignment}
  PROVE  Assigned(effect) \in [Key -> Value]
<1>1. PICK K \in SUBSET Key : effect \in [K -> Value]
  <2>1. CASE effect = NoAssignment
    <3>1. NoAssignment \in [{} -> Value]
      BY DEF NoAssignment
    <3> QED BY <2>1, <3>1
  <2>2. CASE effect \in Effects
    BY <2>2, EngineAssumption
  <2> QED BY <2>1, <2>2
<1>2. \A k \in Key : (IF k \in DOMAIN effect THEN effect[k] ELSE globals[k]) \in Value
  BY <1>1 DEF TypeOK
<1> QED BY <1>2 DEF Assigned

\* The answers without results are answers.
LEMMA AnswerType ==
  ASSUME NEW kind \in {"none", "loaded", "ok", "error", "badarg"}
  PROVE  Answer(kind) \in ReplyType
<1>1. <<>> \in Seq(ReplyTerm) /\ <<>> \in Seq(Value)
  BY EmptySeq
<1> HIDE DEF ReplyTerm
<1> QED BY <1>1 DEF Answer, ReplyType

\* Reporting an error, or aborting on it, keeps the types.
LEMMA ReportType ==
  ASSUME TypeOK, NEW s \in Seq(Value), s # <<>>,
         NEW effect \in Effects \cup {NoAssignment}, Report(s, effect)
  PROVE  /\ slots' \in Seq(Value) /\ ciTop' \in Nat
         /\ globals' \in [Key -> Value]
         /\ status' \in {"up", "aborted", "wild"}
         /\ reply' \in ReplyType
<1>1. CASE HasText(s[Len(s)])
  <2>1. /\ slots' = lua_pop(s, 1) /\ ciTop' = AdjustedTop(ciTop, s)
        /\ globals' = Assigned(effect) /\ reply' = Answer("error")
        /\ status' = status
    BY <1>1 DEF Report
  <2>2. slots' \in Seq(Value)
    BY <2>1, PopType
  <2>3. ciTop' \in Nat
    BY <2>1 DEF AdjustedTop, TypeOK
  <2> QED BY <2>1, <2>2, <2>3, AssignedType, AnswerType DEF TypeOK
<1>2. CASE ~HasText(s[Len(s)])
  BY <1>2, AnswerType DEF Report, Abort, TypeOK
<1> QED BY <1>1, <1>2

\* Converting the results, or aborting on them, keeps the types.
LEMMA CollectType ==
  ASSUME TypeOK, NEW s \in Seq(Value), NEW own \in Seq(Value),
         NEW effect \in Effects \cup {NoAssignment}, Collect(s, own, effect)
  PROVE  /\ slots' \in Seq(Value) /\ ciTop' \in Nat
         /\ globals' \in [Key -> Value]
         /\ status' \in {"up", "aborted", "wild"}
         /\ reply' \in ReplyType
<1>1. CASE \E i \in 1..lua_gettop(s) : ProbeRaises(s, i)
  BY <1>1, AnswerType DEF Collect, Abort, TypeOK
<1>2. CASE ~\E i \in 1..lua_gettop(s) : ProbeRaises(s, i)
  <2>1. lua_gettop(s) \in Int
    BY DEF lua_gettop
  <2>2. slots' \in Seq(Value)
    <3>1. s \o Leaked(s) \in Seq(Value)
      BY LeakedType, ConcatProperties
    <3> QED BY <1>2, <2>1, <3>1, PopType DEF Collect
  <2>3. globals' \in [Key -> Value]
    BY <1>2, AssignedType DEF Collect
  <2>4. reply' \in ReplyType
    <3> DEFINE terms == [i \in 1..lua_gettop(s) |-> ReplyAt(s, i)]
    <3>1. terms \in [1..lua_gettop(s) -> ReplyTerm]
      BY ReplyAtType
    <3>2. terms \in Seq(ReplyTerm)
      BY <2>1, <3>1, FunSeq
    <3>3. reply' = [kind |-> "ok", own |-> own, results |-> terms]
      BY <1>2 DEF Collect
    <3> HIDE DEF terms
    <3> QED BY <3>2, <3>3 DEF ReplyType
  <2> QED BY <1>2, <2>2, <2>3, <2>4 DEF Collect, AdjustedTop, TypeOK
<1> QED BY <1>1, <1>2

\* Looking up the callee pushes one slot, or two for "t:m", above the stack.
LEMMA PreparedType ==
  ASSUME TypeOK, NEW name \in NameType
  PROVE  /\ Found(name) \in Value /\ Method(name) \in Value
         /\ Prepared(name) \in Seq(Value)
         /\ Len(Prepared(name)) =
              Len(slots) + (IF HasTable(name) /\ InvokeSelf(name) THEN 2 ELSE 1)
         /\ \A i \in 1..Len(slots) : Prepared(name)[i] = slots[i]
<1>1. Found(name) \in Value
  BY DEF TypeOK, Found, HasTable, NameType
<1>2. Method(name) \in Value
  <2>1. name.key \in Key
    BY DEF NameType
  <2>2. Field[Found(name)] \in [Key -> Value]
    BY <1>1, EngineAssumption
  <2> QED BY <2>1, <2>2 DEF Method
<1> DEFINE once(v) == lua_push(slots, v)
<1>3. \A v \in Value : /\ once(v) \in Seq(Value) /\ Len(once(v)) = Len(slots) + 1
                       /\ \A i \in 1..Len(slots) : once(v)[i] = slots[i]
  BY AppendProperties DEF lua_push, TypeOK
<1>4. \A v, w \in Value :
         /\ lua_push(once(v), w) \in Seq(Value)
         /\ Len(lua_push(once(v), w)) = Len(slots) + 2
         /\ \A i \in 1..Len(slots) : lua_push(once(v), w)[i] = slots[i]
  <2> SUFFICES ASSUME NEW v \in Value, NEW w \in Value
               PROVE  /\ lua_push(once(v), w) \in Seq(Value)
                      /\ Len(lua_push(once(v), w)) = Len(slots) + 2
                      /\ \A i \in 1..Len(slots) : lua_push(once(v), w)[i] = slots[i]
    OBVIOUS
  <2> HIDE DEF once
  <2>1. /\ Append(once(v), w) \in Seq(Value)
        /\ Len(Append(once(v), w)) = Len(once(v)) + 1
        /\ \A i \in 1..Len(once(v)) : Append(once(v), w)[i] = once(v)[i]
    BY <1>3, AppendProperties
  <2>2. Len(slots) \in Nat
    BY DEF TypeOK
  <2> QED BY <1>3, <2>1, <2>2 DEF lua_push
<1> QED BY <1>1, <1>2, <1>3, <1>4 DEF Prepared

\* Pushing n arguments pushes n values.
LEMMA PushedType ==
  ASSUME NEW terms \in Seq(Term), NEW n \in Nat, n <= Len(terms),
         \A j \in 1..n : Pushed[terms[j]] \in Value
  PROVE  PushedUpTo(terms, n) \in Seq(Value) /\ Len(PushedUpTo(terms, n)) = n
<1>1. PushedUpTo(terms, n) \in [1..n -> Value]
  BY DEF PushedUpTo
<1> QED BY <1>1, FunSeq

\* Every argument list gives a sequence of terms.
LEMMA ArgumentsType ==
  ASSUME NEW args \in ArgLists
  PROVE  Arguments(args) \in Seq(Term)
  BY EngineAssumption DEF Arguments

\* The results of a function end up above everything below its callee.
LEMMA ReturnType ==
  ASSUME NEW s \in Seq(Value), NEW c \in 1..Len(s), NEW own \in Seq(Value)
  PROVE  /\ ReturnTo(s, c, own) \in Seq(Value)
         /\ Len(ReturnTo(s, c, own)) = c - 1 + Len(own)
         /\ \A i \in 1..Len(own) : ReturnTo(s, c, own)[c - 1 + i] = own[i]
<1>1. /\ SubSeq(s, 1, c - 1) \in Seq(Value)
      /\ Len(SubSeq(s, 1, c - 1)) = c - 1
  BY SubSeqProperties
<1> QED BY <1>1, ConcatProperties DEF ReturnTo

\* An error object ends up where the callee was.
LEMMA RaiseType ==
  ASSUME NEW s \in Seq(Value), NEW c \in 1..Len(s), NEW err \in Value
  PROVE  /\ RaiseTo(s, c, err) \in Seq(Value)
         /\ RaiseTo(s, c, err) # <<>>
         /\ Len(RaiseTo(s, c, err)) = c
         /\ RaiseTo(s, c, err)[c] = err
<1>1. /\ SubSeq(s, 1, c - 1) \in Seq(Value)
      /\ Len(SubSeq(s, 1, c - 1)) = c - 1
  BY SubSeqProperties
<1> QED BY <1>1, AppendProperties DEF RaiseTo

\* lua_pcall is called on a stack of values, with the callee not above it.
LEMMA CallStackType ==
  ASSUME TypeOK, NEW name \in NameType, NEW terms \in Seq(Term),
         AllPushed(terms)
  PROVE  /\ CallStack(name, terms) \in Seq(Value)
         /\ Len(CallStack(name, terms)) = Len(Prepared(name)) + Len(terms)
         /\ Callee(name, terms) \in Int
         /\ Callee(name, terms) <= Len(CallStack(name, terms))
<1>1. /\ PushedUpTo(terms, Len(terms)) \in Seq(Value)
      /\ Len(PushedUpTo(terms, Len(terms))) = Len(terms)
  BY PushedType DEF AllPushed
<1>2. /\ CallStack(name, terms) \in Seq(Value)
      /\ Len(CallStack(name, terms)) = Len(Prepared(name)) + Len(terms)
  <2>1. Prepared(name) \in Seq(Value)
    BY PreparedType
  <2> DEFINE p == Prepared(name)
             q == PushedUpTo(terms, Len(terms))
  <2> HIDE DEF p, q
  <2>2. p \o q \in Seq(Value) /\ Len(p \o q) = Len(p) + Len(q)
    BY <1>1, <2>1, ConcatProperties DEF p, q
  <2> QED BY <1>1, <2>2 DEF CallStack, p, q
<1> QED BY <1>2 DEF Callee, CalleeIndex, PcallArgs

\* The virtual machine keeps its types (ailua_dofile, ailua_call).
THEOREM TypeCorrect == Spec => []TypeOK
<1>1. Init => TypeOK
  <2> SUFFICES ASSUME Init PROVE TypeOK
    OBVIOUS
  <2>1. slots \in Seq(Value)
    BY EngineAssumption DEF Init, FreshStack
  <2>2. globals \in [Key -> Value]
    BY EngineAssumption DEF Init
  <2>3. reply \in ReplyType
    BY AnswerType DEF Init
  <2>4. ciTop \in Nat
    BY EngineAssumption DEF Init
  <2> QED BY <2>1, <2>2, <2>3, <2>4 DEF Init, TypeOK
<1>2. TypeOK /\ [Next]_vars => TypeOK'
  <2> SUFFICES ASSUME TypeOK, [Next]_vars PROVE TypeOK'
    OBVIOUS
  <2>1. CASE UNCHANGED vars
    BY <2>1 DEF TypeOK, vars
  <2>2. CASE DofileUnreadable
    BY <2>2, AnswerType DEF DofileUnreadable, TypeOK
  <2>3. CASE DofileFails
    BY <2>3, AnswerType DEF DofileFails, TypeOK
  <2>4. ASSUME NEW effect \in Effects, NEW results \in FileResults,
               DofileRuns(effect, results)
        PROVE  TypeOK'
    <3>1. results \in Seq(Value)
      BY EngineAssumption
    <3>2. slots' \in Seq(Value)
      BY <2>4, <3>1, ConcatProperties DEF DofileRuns, TypeOK
    <3>3. ciTop' \in Nat
      BY <2>4, <3>2 DEF DofileRuns, TypeOK, AdjustedTop
    <3> QED BY <2>4, <3>2, <3>3, AssignedType, AnswerType DEF DofileRuns, TypeOK
  <2>5. ASSUME NEW effect \in Effects, NEW err \in Errors,
               DofileRaises(effect, err)
        PROVE  TypeOK'
    <3>1. lua_push(slots, err) \in Seq(Value) /\ lua_push(slots, err) # <<>>
      BY EngineAssumption, AppendProperties DEF lua_push, TypeOK
    <3> QED BY <2>5, <3>1, ReportType DEF DofileRaises, TypeOK
  <2>6. CASE DofileCallsFileName
    <3>1. Message \in Value /\ slots \in Seq(Value)
      BY EngineAssumption DEF TypeOK
    <3>2. lua_push(slots, Message) \in Seq(Value) /\ lua_push(slots, Message) # <<>>
      BY <3>1, AppendProperties DEF lua_push
    <3> QED BY <2>6, <3>2, ReportType DEF DofileCallsFileName, TypeOK
  <2>7. CASE DofileWild
    BY <2>7, AnswerType DEF DofileWild, TypeOK
  <2>8. CASE CallUnreadable
    BY <2>8, AnswerType DEF CallUnreadable, TypeOK
  <2>9. ASSUME NEW name \in NameType, NEW terms \in Seq(Term), Call(name, terms)
        PROVE  TypeOK'
    <3>1. /\ Found(name) \in Value /\ Method(name) \in Value
          /\ Prepared(name) \in Seq(Value)
      BY PreparedType
    <3>2. CASE CallNoTable(name)
      <4>1. slots' \in Seq(Value)
        BY <3>1, <3>2, AppendProperties DEF CallNoTable, lua_push, TypeOK
      <4> QED BY <3>2, <4>1, AnswerType DEF CallNoTable, TypeOK
    <3>3. CASE CallNoFunction(name)
      <4>1. slots' \in Seq(Value)
        BY <3>1, <3>3, AppendProperties DEF CallNoFunction, lua_push, TypeOK
      <4> QED BY <3>3, <4>1, AnswerType DEF CallNoFunction, TypeOK
    <3>4. CASE CallRefused(name, terms)
      <4>1. PICK i \in 1..Len(terms) :
              /\ FailsAt(terms, i, Refused)
              /\ slots' = lua_pop(Prepared(name) \o PushedUpTo(terms, i - 1),
                                  lua_gettop(Prepared(name) \o PushedUpTo(terms, i - 1)))
              /\ overrun' \in BOOLEAN
        BY <3>4 DEF CallRefused, TypeOK
      <4>2. PushedUpTo(terms, i - 1) \in Seq(Value)
        BY <4>1, PushedType DEF FailsAt
      <4>3. Prepared(name) \o PushedUpTo(terms, i - 1) \in Seq(Value)
        BY <3>1, <4>2, ConcatProperties
      <4>4. slots' \in Seq(Value)
        <5> DEFINE s == Prepared(name) \o PushedUpTo(terms, i - 1)
        <5> HIDE DEF s
        <5>1. s \in Seq(Value) /\ slots' = lua_pop(s, lua_gettop(s))
          BY <4>1, <4>3 DEF s
        <5>2. lua_gettop(s) \in Int
          BY <5>1 DEF lua_gettop
        <5> QED BY <5>1, <5>2, PopType
      <4> QED BY <3>4, <4>1, <4>4, AnswerType DEF CallRefused, TypeOK
    <3>5. CASE CallArgumentRaises(name, terms)
      BY <3>5, AnswerType DEF CallArgumentRaises, Abort, TypeOK
    <3>6. ASSUME NEW effect \in Effects, NEW own \in Results,
                 CallReturns(name, terms, effect, own)
          PROVE  TypeOK'
      <4>1. own \in Seq(Value)
        BY EngineAssumption
      <4>2. /\ CallStack(name, terms) \in Seq(Value)
            /\ Callee(name, terms) \in 1..Len(CallStack(name, terms))
        BY <3>6, CallStackType DEF CallReturns, Invoked, CallsFunction
      <4>3. ReturnTo(CallStack(name, terms), Callee(name, terms), own) \in Seq(Value)
        BY <4>1, <4>2, ReturnType
      <4>4. Collect(ReturnTo(CallStack(name, terms), Callee(name, terms), own),
                    own, effect)
        BY <3>6 DEF CallReturns
      <4>5. overrun' \in BOOLEAN /\ clean' \in BOOLEAN
        BY <3>6 DEF CallReturns, OverrunBy, TypeOK
      <4> QED BY <4>1, <4>3, <4>4, <4>5, CollectType DEF TypeOK
    <3>7. ASSUME NEW effect \in Effects, NEW err \in Errors,
                 CallRaises(name, terms, effect, err)
          PROVE  TypeOK'
      <4>1. err \in Value
        BY EngineAssumption
      <4>2. /\ CallStack(name, terms) \in Seq(Value)
            /\ Callee(name, terms) \in 1..Len(CallStack(name, terms))
        BY <3>7, CallStackType DEF CallRaises, Invoked, CallsFunction
      <4>3. /\ RaiseTo(CallStack(name, terms), Callee(name, terms), err) \in Seq(Value)
            /\ RaiseTo(CallStack(name, terms), Callee(name, terms), err) # <<>>
        BY <4>1, <4>2, RaiseType
      <4>4. Report(RaiseTo(CallStack(name, terms), Callee(name, terms), err), effect)
        BY <3>7 DEF CallRaises
      <4>5. overrun' \in BOOLEAN /\ clean' \in BOOLEAN
        BY <3>7 DEF CallRaises, OverrunBy, TypeOK
      <4> QED BY <4>3, <4>4, <4>5, ReportType DEF TypeOK
    <3>8. CASE CallNotCallable(name, terms)
      <4>1. Message \in Value
        BY EngineAssumption
      <4>2. /\ CallStack(name, terms) \in Seq(Value)
            /\ Callee(name, terms) \in 1..Len(CallStack(name, terms))
        BY <3>8, CallStackType DEF CallNotCallable, Invoked
      <4>3. /\ RaiseTo(CallStack(name, terms), Callee(name, terms), Message) \in Seq(Value)
            /\ RaiseTo(CallStack(name, terms), Callee(name, terms), Message) # <<>>
        BY <4>1, <4>2, RaiseType
      <4>4. Report(RaiseTo(CallStack(name, terms), Callee(name, terms), Message),
                   NoAssignment)
        BY <3>8 DEF CallNotCallable
      <4>5. overrun' \in BOOLEAN /\ clean' \in BOOLEAN
        BY <3>8 DEF CallNotCallable, OverrunBy, TypeOK
      <4> QED BY <4>3, <4>4, <4>5, ReportType DEF TypeOK
    <3>9. CASE CallWild(name, terms)
      BY <3>9, AnswerType DEF CallWild, OverrunBy, TypeOK
    <3> QED BY <2>9, <3>2, <3>3, <3>4, <3>5, <3>6, <3>7, <3>8, <3>9 DEF Call
  <2>10. ASSUME NEW name \in Names \ {Unreadable}, NEW args \in ArgLists,
                Call(name, Arguments(args))
         PROVE  TypeOK'
    BY <2>9, <2>10, ArgumentsType, EngineAssumption
  <2> QED BY <2>1, <2>2, <2>3, <2>4, <2>5, <2>6, <2>7, <2>8, <2>10 DEF Next, Dofile
<1> QED BY <1>1, <1>2, PTL DEF Spec

-----------------------------------------------------------------------------
\* lua_pop(s, n) removes n slots.
LEMMA PopLength ==
  ASSUME NEW s \in Seq(Value), NEW n \in 0..Len(s)
  PROVE  Len(lua_pop(s, n)) = Len(s) - n
<1>1. lua_pop(s, n) = SubSeq(s, 1, Len(s) - n)
  <2>1. Len(s) \in Nat /\ n \in Int /\ ~(-n - 1 >= 0)
    OBVIOUS
  <2> QED BY <2>1 DEF lua_pop, lua_settop
<1>2. Len(s) - n \in Int /\ \A i \in 1..(Len(s) - n) : s[i] \in Value
  OBVIOUS
<1>3. Len(SubSeq(s, 1, Len(s) - n)) = IF 1 <= Len(s) - n THEN Len(s) - n ELSE 0
  <2> DEFINE m == Len(s) - n
  <2>1. m \in Int /\ \A i \in 1..m : s[i] \in Value
    OBVIOUS
  <2> HIDE DEF m
  <2>2. Len(SubSeq(s, 1, m)) = IF 1 <= m THEN m - 1 + 1 ELSE 0
    BY <2>1, SubSeqProperties
  <2> QED BY <2>1, <2>2 DEF m
<1> QED BY <1>1, <1>3

\* Reporting an error removes the one slot of its object.
LEMMA ReportLength ==
  ASSUME TypeOK, NEW s \in Seq(Value), Len(s) >= 1,
         NEW effect, Report(s, effect)
  PROVE  \/ HasText(s[Len(s)]) /\ Len(slots') = Len(s) - 1
                /\ status' = status /\ ciTop' >= ciTop
                /\ reply' = Answer("error")
         \/ ~HasText(s[Len(s)]) /\ UNCHANGED slots /\ status' = "aborted"
<1>1. CASE HasText(s[Len(s)])
  <2>1. /\ slots' = lua_pop(s, 1) /\ status' = status
        /\ ciTop' = AdjustedTop(ciTop, s) /\ reply' = Answer("error")
    BY <1>1 DEF Report
  <2>2. Len(lua_pop(s, 1)) = Len(s) - 1
    BY PopLength
  <2>3. ciTop' >= ciTop
    BY <2>1 DEF AdjustedTop, TypeOK
  <2> QED BY <1>1, <2>1, <2>2, <2>3
<1>2. CASE ~HasText(s[Len(s)])
  BY <1>2 DEF Report, Abort
<1> QED BY <1>1, <1>2

\* After a successful call the bottom slot and the leaked metatables remain.
LEMMA CollectEffect ==
  ASSUME TypeOK, NEW s \in Seq(Value), Len(s) >= 1, NEW own, NEW effect,
         Collect(s, own, effect)
  PROVE  \/ /\ \E i \in 1..lua_gettop(s) : ProbeRaises(s, i)
            /\ UNCHANGED slots /\ status' = "aborted"
            /\ reply' = Answer("none")
         \/ /\ ~\E i \in 1..lua_gettop(s) : ProbeRaises(s, i)
            /\ Len(slots') = 1 + Cardinality(Leaking(s))
            /\ status' = status /\ ciTop' = AdjustedTop(ciTop, s)
            /\ reply' = [kind |-> "ok", own |-> own,
                         results |-> [i \in 1..lua_gettop(s) |-> ReplyAt(s, i)]]
<1>1. CASE \E i \in 1..lua_gettop(s) : ProbeRaises(s, i)
  BY <1>1 DEF Collect, Abort
<1>2. CASE ~\E i \in 1..lua_gettop(s) : ProbeRaises(s, i)
  <2>1. lua_gettop(s) \in Nat /\ lua_gettop(s) = Len(s) - 1
    BY DEF lua_gettop
  <2>2. CASE lua_gettop(s) = 0
    <3>1. Leaking(s) = {}
      BY <2>2 DEF Leaking
    <3>2. slots' = s
      BY <1>2, <2>2 DEF Collect
    <3> QED BY <1>2, <2>1, <2>2, <3>1, <3>2, FS_EmptySet DEF Collect
  <2>3. CASE lua_gettop(s) # 0
    <3> DEFINE t == s \o Leaked(s)
    <3>1. t \in Seq(Value) /\ Len(t) = Len(s) + Cardinality(Leaking(s))
      BY LeakedType, ConcatProperties
    <3>2. slots' = lua_pop(t, lua_gettop(s))
      BY <1>2, <2>3 DEF Collect
    <3> HIDE DEF t
    <3>3. Cardinality(Leaking(s)) \in Nat
      BY LeakedType
    <3>4. lua_gettop(s) \in 0..Len(t)
      BY <2>1, <3>1, <3>3
    <3>5. Len(lua_pop(t, lua_gettop(s))) = Len(t) - lua_gettop(s)
      BY <3>1, <3>4, PopLength
    <3> QED BY <1>2, <2>1, <3>1, <3>2, <3>3, <3>5 DEF Collect
  <2> QED BY <2>2, <2>3
<1> QED BY <1>1, <1>2

\* Where lua_pcall finds the callee when ":" only follows a table name.
LEMMA CalleeAboveStack ==
  ASSUME TypeOK, NEW name \in NameType, NEW terms \in Seq(Term),
         AllPushed(terms), InvokeSelf(name) => HasTable(name)
  PROVE  /\ CallStack(name, terms) \in Seq(Value)
         /\ Callee(name, terms) = Len(slots) + 1
         /\ Callee(name, terms) \in 1..Len(CallStack(name, terms))
<1>1. Len(slots) \in Nat /\ Len(terms) \in Nat
  BY DEF TypeOK
<1>2. Len(Prepared(name)) = Len(slots) + (IF InvokeSelf(name) THEN 2 ELSE 1)
  BY PreparedType
<1>3. /\ CallStack(name, terms) \in Seq(Value)
      /\ Len(CallStack(name, terms)) = Len(Prepared(name)) + Len(terms)
  BY CallStackType
<1>4. Callee(name, terms)
        = Len(CallStack(name, terms)) - (Len(terms) + (IF InvokeSelf(name) THEN 1 ELSE 0))
  BY DEF Callee, CalleeIndex, PcallArgs
<1> QED BY <1>1, <1>2, <1>3, <1>4

\* No client passes a name with a bare ':' in front.
SelfHasTable ==
    \A name \in Names \ {Unreadable} : InvokeSelf(name) => HasTable(name)

\* With names as the README has them, no sequence of requests makes ailua_call
\* or ailua_dofile sink L->top below the base frame, or read a callee below it.
THEOREM NeverBelowBase ==
  ASSUME SelfHasTable
  PROVE  Spec => []NoUnderflow
<1>1. Init => NoUnderflow
  BY DEF Init, FreshStack, NoUnderflow
<1>2. TypeOK /\ NoUnderflow /\ [Next]_vars => NoUnderflow'
  <2> SUFFICES ASSUME TypeOK, NoUnderflow, [Next]_vars PROVE NoUnderflow'
    OBVIOUS
  <2>0. Len(slots) \in Nat /\ Len(slots) >= 1 /\ lua_gettop(slots) \in Nat
        /\ status # "wild"
    BY DEF TypeOK, NoUnderflow, lua_gettop
  <2>1. CASE UNCHANGED vars
    BY <2>1 DEF NoUnderflow, vars
  <2>2. CASE DofileUnreadable \/ DofileFails \/ CallUnreadable
    BY <2>2 DEF DofileUnreadable, DofileFails, CallUnreadable, NoUnderflow
  <2>3. ASSUME NEW effect \in Effects, NEW results \in FileResults,
               DofileRuns(effect, results)
        PROVE  NoUnderflow'
    <3>1. results \in Seq(Value) /\ slots \in Seq(Value)
      BY EngineAssumption DEF TypeOK
    <3>2. Len(slots \o results) = Len(slots) + Len(results) /\ Len(results) \in Nat
      BY <3>1, ConcatProperties
    <3> QED BY <2>0, <2>3, <3>2 DEF DofileRuns, NoUnderflow
  <2>4. ASSUME NEW effect \in Effects, NEW err \in Errors,
               DofileRaises(effect, err)
        PROVE  NoUnderflow'
    <3>1. /\ lua_push(slots, err) \in Seq(Value)
          /\ Len(lua_push(slots, err)) = Len(slots) + 1
      BY EngineAssumption, AppendProperties DEF lua_push, TypeOK
    <3>2. Report(lua_push(slots, err), effect)
      BY <2>4 DEF DofileRaises
    <3> HIDE DEF lua_push
    <3> QED BY <2>0, <3>1, <3>2, ReportLength DEF NoUnderflow
  <2>5. CASE DofileCallsFileName \/ DofileWild
    BY <2>0, <2>5 DEF DofileCallsFileName, DofileWild
  <2>6. ASSUME NEW name \in NameType, NEW terms \in Seq(Term),
               InvokeSelf(name) => HasTable(name), Call(name, terms)
        PROVE  NoUnderflow'
    <3>1. Found(name) \in Value /\ Method(name) \in Value /\ slots \in Seq(Value)
      BY PreparedType DEF TypeOK
    <3>2. CASE CallNoTable(name)
      <4>1. Len(lua_push(slots, Found(name))) = Len(slots) + 1
        BY <3>1, AppendProperties DEF lua_push
      <4> QED BY <2>0, <3>2, <4>1 DEF CallNoTable, NoUnderflow
    <3>3. CASE CallNoFunction(name)
      <4>1. /\ lua_push(slots, Found(name)) \in Seq(Value)
            /\ Len(lua_push(slots, Found(name))) = Len(slots) + 1
        BY <3>1, AppendProperties DEF lua_push
      <4>2. Len(lua_push(lua_push(slots, Found(name)), Method(name))) = Len(slots) + 2
        BY <2>0, <3>1, <4>1, AppendProperties DEF lua_push
      <4> QED BY <2>0, <3>3, <4>2 DEF CallNoFunction, NoUnderflow
    <3>4. CASE CallRefused(name, terms)
      <4>1. PICK i \in 1..Len(terms) :
              /\ FailsAt(terms, i, Refused)
              /\ slots' = lua_pop(Prepared(name) \o PushedUpTo(terms, i - 1),
                                  lua_gettop(Prepared(name) \o PushedUpTo(terms, i - 1)))
        BY <3>4 DEF CallRefused
      <4> DEFINE s == Prepared(name) \o PushedUpTo(terms, i - 1)
      <4>2. PushedUpTo(terms, i - 1) \in Seq(Value)
        BY <4>1, PushedType DEF FailsAt
      <4>3. Prepared(name) \in Seq(Value) /\ Len(Prepared(name)) >= 1
        BY <2>0, PreparedType
      <4>4. s \in Seq(Value) /\ Len(s) \in Nat /\ Len(s) >= 1
        BY <4>2, <4>3, ConcatProperties
      <4>5. slots' = lua_pop(s, lua_gettop(s))
        BY <4>1
      <4> HIDE DEF s
      <4>6. lua_gettop(s) \in 0..Len(s) /\ lua_gettop(s) = Len(s) - 1
        BY <4>4 DEF lua_gettop
      <4>7. Len(slots') = 1
        <5>1. Len(lua_pop(s, lua_gettop(s))) = Len(s) - lua_gettop(s)
          BY <4>4, <4>6, PopLength
        <5> QED BY <4>4, <4>5, <4>6, <5>1
      <4>8. status' = status
        BY <3>4 DEF CallRefused
      <4> QED BY <2>0, <4>7, <4>8 DEF NoUnderflow
    <3>5. CASE CallArgumentRaises(name, terms)
      BY <2>0, <3>5 DEF CallArgumentRaises, Abort, NoUnderflow
    <3>6. ASSUME NEW effect \in Effects, NEW own \in Results,
                 CallReturns(name, terms, effect, own)
          PROVE  NoUnderflow'
      <4>1. own \in Seq(Value) /\ Len(own) \in Nat
        BY EngineAssumption
      <4>2. /\ CallStack(name, terms) \in Seq(Value)
            /\ Callee(name, terms) = Len(slots) + 1
            /\ Callee(name, terms) \in 1..Len(CallStack(name, terms))
        BY <2>6, <3>6, CalleeAboveStack DEF CallReturns, Invoked
      <4> DEFINE s == ReturnTo(CallStack(name, terms), Callee(name, terms), own)
      <4>3. s \in Seq(Value) /\ Len(s) = Len(slots) + Len(own)
        <5>1. /\ s \in Seq(Value)
              /\ Len(s) = Callee(name, terms) - 1 + Len(own)
          BY <4>1, <4>2, ReturnType
        <5> HIDE DEF s
        <5> QED BY <2>0, <4>1, <4>2, <5>1
      <4>4. Collect(s, own, effect)
        BY <3>6 DEF CallReturns
      <4> HIDE DEF s
      <4>5. Cardinality(Leaking(s)) \in Nat
        BY <4>3, LeakedType
      <4> QED BY <2>0, <4>1, <4>3, <4>4, <4>5, CollectEffect DEF NoUnderflow
    <3>7. ASSUME NEW effect \in Effects \cup {NoAssignment}, NEW err \in Value,
                 Invoked(name, terms),
                 Report(RaiseTo(CallStack(name, terms), Callee(name, terms), err), effect)
          PROVE  NoUnderflow'
      <4>1. /\ CallStack(name, terms) \in Seq(Value)
            /\ Callee(name, terms) = Len(slots) + 1
            /\ Callee(name, terms) \in 1..Len(CallStack(name, terms))
        BY <2>6, <3>7, CalleeAboveStack DEF Invoked
      <4>2. /\ RaiseTo(CallStack(name, terms), Callee(name, terms), err) \in Seq(Value)
            /\ Len(RaiseTo(CallStack(name, terms), Callee(name, terms), err))
                 = Len(slots) + 1
        BY <4>1, RaiseType
      <4> QED BY <2>0, <3>7, <4>2, ReportLength DEF NoUnderflow
    <3>8. ASSUME NEW effect \in Effects, NEW err \in Errors,
                 CallRaises(name, terms, effect, err)
          PROVE  NoUnderflow'
      BY <3>7, <3>8, EngineAssumption DEF CallRaises
    <3>9. CASE CallNotCallable(name, terms)
      BY <3>7, <3>9, EngineAssumption DEF CallNotCallable
    <3>10. CASE CallWild(name, terms)
      <4>1. Callee(name, terms) = Len(slots) + 1 /\ Callee(name, terms) < 1
        BY <2>6, <3>10, CalleeAboveStack DEF CallWild, Invoked
      <4> QED BY <2>0, <4>1
    <3> QED BY <2>6, <3>2, <3>3, <3>4, <3>5, <3>6, <3>8, <3>9, <3>10 DEF Call
  <2>7. ASSUME NEW name \in Names \ {Unreadable}, NEW args \in ArgLists,
               Call(name, Arguments(args))
        PROVE  NoUnderflow'
    BY <2>6, <2>7, ArgumentsType, EngineAssumption DEF SelfHasTable
  <2> QED BY <2>1, <2>2, <2>3, <2>4, <2>5, <2>7 DEF Next, Dofile
<1> QED BY <1>1, <1>2, TypeCorrect, PTL DEF Spec

-----------------------------------------------------------------------------
\* A request on a stack with nothing left on it, within the argument limits,
\* pushes within the base frame.
LEMMA CleanPushes ==
  ASSUME TypeOK, Len(slots) = 1, ciTop >= MinStack + 1,
         NEW name \in NameType, NEW terms \in Seq(Term), NEW n \in 0..Len(terms),
         \A i \in 1..Len(terms) : i + 2 + Scratch[terms[i]] <= MinStack
  PROVE  PushedWithin(PushPeaks(name, terms, n), ciTop)
<1>1. MinStack \in Nat /\ MinStack >= 2 /\ Scratch \in [Term -> Nat] /\ ciTop \in Nat
  BY EngineAssumption DEF TypeOK
<1>2. Len(Prepared(name)) \in Nat /\ Len(Prepared(name)) <= 3
  <2>1. Len(Prepared(name))
          = Len(slots) + (IF HasTable(name) /\ InvokeSelf(name) THEN 2 ELSE 1)
    BY PreparedType
  <2> QED BY <2>1
<1>3. Len(slots) + (IF HasTable(name) THEN 2 ELSE 1) <= ciTop
  BY <1>1
<1>4. \A i \in 1..n : Len(Prepared(name)) + i + Scratch[terms[i]] <= ciTop
  <2> SUFFICES ASSUME NEW i \in 1..n
               PROVE  Len(Prepared(name)) + i + Scratch[terms[i]] <= ciTop
    OBVIOUS
  <2>1. i \in 1..Len(terms) /\ terms[i] \in Term
    OBVIOUS
  <2>2. i + 2 + Scratch[terms[i]] <= MinStack /\ Scratch[terms[i]] \in Nat
    BY <1>1, <2>1
  <2> QED BY <1>1, <1>2, <2>1, <2>2
<1> QED BY <1>3, <1>4 DEF PushPeaks, PushedWithin

\* So does one whose argument i is refused.
LEMMA CleanRefusal ==
  ASSUME TypeOK, Len(slots) = 1, ciTop >= MinStack + 1,
         NEW name \in NameType, NEW terms \in Seq(Term), NEW i \in 1..Len(terms),
         \A j \in 1..Len(terms) : j + 2 + Scratch[terms[j]] <= MinStack
  PROVE  PushedWithin(RefusedPeaks(name, terms, i), ciTop)
<1>1. PushedWithin(PushPeaks(name, terms, i - 1), ciTop)
  <2>1. i - 1 \in 0..Len(terms)
    OBVIOUS
  <2> QED BY <2>1, CleanPushes
<1>2. Len(Prepared(name)) + i - 1 + Scratch[terms[i]] <= ciTop
  <2>1. MinStack \in Nat /\ Scratch[terms[i]] \in Nat /\ ciTop \in Nat
    BY EngineAssumption DEF TypeOK
  <2>2. Len(Prepared(name)) \in Nat /\ Len(Prepared(name)) <= 3
    <3>1. Len(Prepared(name))
            = Len(slots) + (IF HasTable(name) /\ InvokeSelf(name) THEN 2 ELSE 1)
      BY PreparedType
    <3> QED BY <3>1
  <2>3. i + 2 + Scratch[terms[i]] <= MinStack
    OBVIOUS
  <2> QED BY <2>1, <2>2, <2>3
<1> QED BY <1>1, <1>2 DEF RefusedPeaks, PushedWithin

\* Converting the results of a function that kept to the contract, with
\* nothing below them: no lookup misses, and each is converted exactly.
LEMMA CleanConversion ==
  ASSUME TypeOK, ciTop >= MinStack + 1,
         NEW s \in Seq(Value), NEW own \in Seq(Value), CleanResults(own),
         Len(s) = 1 + Len(own), \A i \in 1..Len(own) : s[i + 1] = own[i]
  PROVE  /\ ~\E i \in 1..lua_gettop(s) : ProbeRaises(s, i)
         /\ Leaking(s) = {}
         /\ [i \in 1..lua_gettop(s) |-> ReplyAt(s, i)] = Exact(own)
         /\ ~\E i \in 1..lua_gettop(s) : ConversionPeak(s, i) > AdjustedTop(ciTop, s)
<1>1. lua_gettop(s) = Len(own) /\ Len(own) \in Nat /\ Len(s) \in Nat
  BY DEF lua_gettop
<1>2. \A i \in 1..Len(own) :
        /\ s[i + 1] = own[i] /\ own[i] \in Value /\ ~Unsupported(own[i])
        /\ HasMetatable(own[i]) => i = Len(own) /\ Kind[own[i]] = "map"
        /\ IsTable(own[i]) => Len(own) + 2 <= MinStack
  BY DEF CleanResults
<1>3. \A i \in 1..Len(own) : HasMetatable(s[i + 1]) => MarkFound(s, i)
  BY <1>1, <1>2 DEF MarkFound, IsTop
<1>4. Leaking(s) = {}
  BY <1>1, <1>3 DEF Leaking
<1>5. ~\E i \in 1..lua_gettop(s) : ProbeRaises(s, i)
  BY <1>1, <1>2 DEF ProbeRaises, IsTop
<1>6. ASSUME NEW i \in 1..Len(own)
      PROVE  ReplyAt(s, i) = ErlTerm(own[i], Kind[own[i]] = "map")
  <2> DEFINE assigned == {j \in i..lua_gettop(s) : ~Unsupported(s[j + 1])}
  <2>1. assigned = i..Len(own)
    BY <1>1, <1>2
  <2>2. i \in assigned /\ assigned \in SUBSET Nat /\ \A j \in assigned : i <= j
    BY <2>1
  <2>3. Min(assigned) = i
    <3>1. Min(assigned) \in assigned /\ \A j \in assigned : Min(assigned) <= j
      BY <2>2, NatMin
    <3> QED BY <2>2, <3>1
  <2>4. ReplyAt(s, i) = Converted(s, i)
    BY <2>2, <2>3 DEF ReplyAt
  <2>5. MarkFound(s, i) <=> Kind[own[i]] = "map"
    BY <1>1, <1>2 DEF MarkFound, IsTop, HasMetatable
  <2>6. CASE Kind[own[i]] = "map"
    BY <1>2, <2>4, <2>5, <2>6 DEF Converted, ErlTerm
  <2>7. CASE Kind[own[i]] # "map"
    BY <1>2, <2>4, <2>5, <2>7 DEF Converted, ErlTerm
  <2> QED BY <2>6, <2>7
<1>7. [i \in 1..lua_gettop(s) |-> ReplyAt(s, i)] = Exact(own)
  BY <1>1, <1>6 DEF Exact
<1>8. ASSUME NEW i \in 1..lua_gettop(s)
      PROVE  ~(ConversionPeak(s, i) > AdjustedTop(ciTop, s))
  <2>1. {j \in Leaking(s) : j > i} = {}
    BY <1>4
  <2>2. Cardinality({j \in Leaking(s) : j > i}) = 0
    BY <2>1, FS_EmptySet
  <2>3. AdjustedTop(ciTop, s) >= ciTop /\ AdjustedTop(ciTop, s) >= Len(s)
        /\ AdjustedTop(ciTop, s) \in Nat /\ ciTop \in Nat /\ MinStack \in Nat
    BY <1>1, EngineAssumption DEF AdjustedTop, TypeOK
  <2>4. ConversionPeak(s, i) = Len(s) + (IF HasMetatable(s[i + 1]) THEN 2
                                         ELSE IF IsTable(s[i + 1]) THEN 1 ELSE 0)
    BY <1>1, <2>2 DEF ConversionPeak
  <2>5. CASE IsTable(s[i + 1])
    <3>1. Len(own) + 2 <= MinStack
      BY <1>1, <1>2, <2>5
    <3> QED BY <1>1, <2>3, <2>4, <3>1
  <2>6. CASE ~IsTable(s[i + 1])
    <3>1. ~HasMetatable(s[i + 1])
      BY <2>6 DEF IsTable, HasMetatable
    <3> QED BY <1>1, <2>3, <2>4, <2>6, <3>1
  <2> QED BY <2>5, <2>6
<1> QED BY <1>4, <1>5, <1>7, <1>8

\* ContractKept, and that ci->top never sinks below what a fresh state has.
ContractInv ==
    clean => /\ status = "up"
             /\ Len(slots) = 1
             /\ ciTop >= MinStack + 1
             /\ ~overrun
             /\ reply.results = Exact(reply.own)

\* An answer without results is exact.
LEMMA AnswerExact ==
  ASSUME NEW kind
  PROVE  Answer(kind).results = Exact(Answer(kind).own)
  BY DEF Answer, Exact

\* Reporting the error of a request within the contract keeps the contract.
LEMMA ReportClean ==
  ASSUME TypeOK, ContractInv, clean, clean', ~overrun',
         NEW s \in Seq(Value), Len(s) = 2, HasText(s[2]),
         NEW effect, Report(s, effect)
  PROVE  ContractInv'
<1>1. /\ Len(slots') = 1 /\ status' = status /\ ciTop' >= ciTop
      /\ reply' = Answer("error")
  <2>1. Len(s) >= 1 /\ s[Len(s)] = s[2]
    OBVIOUS
  <2>2. HasText(s[Len(s)])
    BY <2>1
  <2>3. /\ Len(slots') = Len(s) - 1 /\ status' = status /\ ciTop' >= ciTop
        /\ reply' = Answer("error")
    BY <2>1, <2>2, ReportLength
  <2> QED BY <2>3
<1>2. ciTop' >= MinStack + 1
  <2>1. ciTop' \in Nat /\ ciTop \in Nat /\ MinStack \in Nat
    BY EngineAssumption DEF TypeOK, Report, AdjustedTop
  <2> QED BY <1>1, <2>1 DEF ContractInv
<1> QED BY <1>1, <1>2, AnswerExact DEF ContractInv

\* For every client and script that keep the contract, ailua keeps its own part:
\* no crash, nothing left on the stack, no push past ci->top, exact answers.
THEOREM ContractHolds == Spec => []ContractKept
<1>1. Init => ContractInv
  <2> SUFFICES ASSUME Init PROVE ContractInv
    OBVIOUS
  <2>1. ciTop >= MinStack + 1 /\ Len(slots) = 1
    BY EngineAssumption DEF Init, FreshStack
  <2> QED BY <2>1, AnswerExact DEF Init, ContractInv
<1>2. TypeOK /\ ContractInv /\ [Next]_vars => ContractInv'
  <2> SUFFICES ASSUME TypeOK, ContractInv, [Next]_vars, clean' PROVE ContractInv'
    BY DEF ContractInv
  <2>1. CASE UNCHANGED vars
    BY <2>1 DEF ContractInv, vars
  <2>2. CASE DofileUnreadable \/ DofileFails \/ CallUnreadable
    BY <2>2, AnswerExact
       DEF DofileUnreadable, DofileFails, CallUnreadable, ContractInv
  <2>3. ASSUME NEW effect \in Effects, NEW results \in FileResults,
               DofileRuns(effect, results)
        PROVE  ContractInv'
    <3>1. results = <<>> /\ clean
      BY <2>3 DEF DofileRuns
    <3>2. slots' = slots
      BY <2>3, <3>1, ConcatEmptySeq DEF DofileRuns, TypeOK
    <3>3. ciTop' >= ciTop /\ ciTop' \in Nat /\ ciTop \in Nat /\ MinStack \in Nat
      BY <2>3, <3>2, EngineAssumption DEF DofileRuns, AdjustedTop, TypeOK
    <3> QED BY <2>3, <3>1, <3>2, <3>3, AnswerExact DEF DofileRuns, ContractInv
  <2>4. ASSUME NEW effect \in Effects, NEW err \in Errors,
               DofileRaises(effect, err)
        PROVE  ContractInv'
    <3>1. clean /\ HasText(err) /\ overrun' = overrun /\ err \in Value
      BY <2>4, EngineAssumption DEF DofileRaises
    <3>2. slots \in Seq(Value) /\ Len(slots) = 1 /\ ~overrun
      BY <3>1 DEF ContractInv, TypeOK
    <3>3. /\ lua_push(slots, err) \in Seq(Value)
          /\ Len(lua_push(slots, err)) = 2
          /\ lua_push(slots, err)[2] = err
      <4>1. /\ Append(slots, err) \in Seq(Value)
            /\ Len(Append(slots, err)) = Len(slots) + 1
            /\ Append(slots, err)[Len(slots) + 1] = err
        <5>1. slots \in Seq(Value) /\ err \in Value
          BY <3>1, <3>2
        <5> QED BY ONLY <5>1, AppendProperties, Zenon
      <4> QED BY <3>2, <4>1 DEF lua_push
    <3>4. Report(lua_push(slots, err), effect)
      BY <2>4 DEF DofileRaises
    <3> HIDE DEF lua_push
    <3> QED BY <3>1, <3>2, <3>3, <3>4, ReportClean
  <2>5. CASE DofileCallsFileName \/ DofileWild
    <3>1. clean /\ lua_gettop(slots) < 0
      BY <2>5 DEF DofileCallsFileName, DofileWild
    <3> QED BY <3>1 DEF ContractInv, lua_gettop
  <2>6. ASSUME NEW name \in NameType, NEW terms \in Seq(Term), Call(name, terms)
        PROVE  ContractInv'
    <3>1. CASE CallNoTable(name) \/ CallNoFunction(name)
               \/ CallArgumentRaises(name, terms) \/ CallWild(name, terms)
      BY <3>1 DEF CallNoTable, CallNoFunction, CallArgumentRaises, CallWild
    <3>2. ASSUME clean, CleanCall(name, terms)
          PROVE  /\ Len(slots) = 1 /\ ciTop >= MinStack + 1
                 /\ InvokeSelf(name) => HasTable(name)
                 /\ \A n \in 0..Len(terms) :
                      PushedWithin(PushPeaks(name, terms, n), ciTop)
                 /\ \A i \in 1..Len(terms) :
                      PushedWithin(RefusedPeaks(name, terms, i), ciTop)
      BY <3>2, CleanPushes, CleanRefusal DEF CleanCall, ContractInv
    <3>3. CASE CallRefused(name, terms)
      <4>1. clean /\ CleanCall(name, terms)
        BY <3>3 DEF CallRefused
      <4>2. PICK i \in 1..Len(terms) :
              /\ FailsAt(terms, i, Refused)
              /\ slots' = lua_pop(Prepared(name) \o PushedUpTo(terms, i - 1),
                                  lua_gettop(Prepared(name) \o PushedUpTo(terms, i - 1)))
              /\ overrun' = (overrun \/ ~PushedWithin(RefusedPeaks(name, terms, i), ciTop))
        BY <3>3 DEF CallRefused
      <4> DEFINE s == Prepared(name) \o PushedUpTo(terms, i - 1)
      <4>3. PushedUpTo(terms, i - 1) \in Seq(Value)
        <5>1. FailsAt(terms, i, Refused) /\ i - 1 \in Nat /\ i - 1 <= Len(terms)
          BY <4>2
        <5>2. \A j \in 1..(i - 1) : Pushed[terms[j]] \in Value
          BY <5>1 DEF FailsAt
        <5> QED BY <5>1, <5>2, PushedType
      <4>4. Prepared(name) \in Seq(Value) /\ Len(Prepared(name)) >= 1
        BY <3>2, <4>1, PreparedType
      <4>5. s \in Seq(Value) /\ Len(s) \in Nat /\ Len(s) >= 1
        BY <4>3, <4>4, ConcatProperties
      <4>6. slots' = lua_pop(s, lua_gettop(s))
        BY <4>2
      <4> HIDE DEF s
      <4>7. lua_gettop(s) \in 0..Len(s) /\ lua_gettop(s) = Len(s) - 1
        BY <4>5 DEF lua_gettop
      <4>8. Len(lua_pop(s, lua_gettop(s))) = Len(s) - lua_gettop(s)
        BY <4>5, <4>7, PopLength
      <4>9. Len(slots') = 1
        BY <4>5, <4>6, <4>7, <4>8
      <4>10. ~overrun'
        <5>1. PushedWithin(RefusedPeaks(name, terms, i), ciTop)
          BY <3>2, <4>1
        <5> QED BY <4>1, <4>2, <5>1 DEF ContractInv
      <4> QED BY <3>3, <4>1, <4>9, <4>10, AnswerExact DEF CallRefused, ContractInv
    <3>4. ASSUME clean, CleanCall(name, terms), Invoked(name, terms)
          PROVE  /\ CallStack(name, terms) \in Seq(Value)
                 /\ Callee(name, terms) = 2
                 /\ Callee(name, terms) \in 1..Len(CallStack(name, terms))
                 /\ ~OverrunBy(name, terms)
      <4>1. /\ CallStack(name, terms) \in Seq(Value)
            /\ Callee(name, terms) = 2
            /\ Callee(name, terms) \in 1..Len(CallStack(name, terms))
        <5>1. /\ Len(slots) = 1 /\ AllPushed(terms)
              /\ InvokeSelf(name) => HasTable(name)
          BY <3>2, <3>4 DEF Invoked
        <5>2. /\ CallStack(name, terms) \in Seq(Value)
              /\ Callee(name, terms) = Len(slots) + 1
              /\ Callee(name, terms) \in 1..Len(CallStack(name, terms))
          BY <5>1, CalleeAboveStack
        <5> QED BY <5>1, <5>2
      <4>2. Len(terms) \in 0..Len(terms)
        OBVIOUS
      <4> QED BY <3>2, <3>4, <4>1, <4>2 DEF OverrunBy, ContractInv
    <3>5. ASSUME NEW effect \in Effects, NEW own \in Results,
                 CallReturns(name, terms, effect, own)
          PROVE  ContractInv'
      <4>1. /\ clean /\ CleanCall(name, terms) /\ CleanResults(own)
            /\ Invoked(name, terms)
        BY <3>5 DEF CallReturns
      <4>2. own \in Seq(Value) /\ Len(own) \in Nat
        BY EngineAssumption
      <4> DEFINE s == ReturnTo(CallStack(name, terms), Callee(name, terms), own)
      <4>3. /\ s \in Seq(Value) /\ Len(s) = 1 + Len(own)
            /\ \A i \in 1..Len(own) : s[i + 1] = own[i]
        <5>1. /\ s \in Seq(Value) /\ Len(s) = Callee(name, terms) - 1 + Len(own)
              /\ \A i \in 1..Len(own) : s[Callee(name, terms) - 1 + i] = own[i]
          BY <3>4, <4>1, <4>2, ReturnType
        <5> HIDE DEF s
        <5>2. Callee(name, terms) = 2
          BY <3>4, <4>1
        <5> QED BY <5>1, <5>2, <4>2
      <4>4. /\ Collect(s, own, effect)
            /\ overrun' = (\/ OverrunBy(name, terms)
                           \/ \E i \in 1..lua_gettop(s) :
                                ConversionPeak(s, i) > AdjustedTop(ciTop, s))
        BY <3>5 DEF CallReturns
      <4> HIDE DEF s
      <4>5. /\ ~\E i \in 1..lua_gettop(s) : ProbeRaises(s, i)
            /\ Leaking(s) = {}
            /\ [i \in 1..lua_gettop(s) |-> ReplyAt(s, i)] = Exact(own)
            /\ ~\E i \in 1..lua_gettop(s) : ConversionPeak(s, i) > AdjustedTop(ciTop, s)
        BY <3>2, <4>1, <4>2, <4>3, CleanConversion
      <4>6. /\ Len(slots') = 1 + Cardinality(Leaking(s))
            /\ status' = status /\ ciTop' = AdjustedTop(ciTop, s)
            /\ reply' = [kind |-> "ok", own |-> own,
                         results |-> [i \in 1..lua_gettop(s) |-> ReplyAt(s, i)]]
        <5>1. s \in Seq(Value) /\ Len(s) >= 1 /\ Collect(s, own, effect)
          BY <4>2, <4>3, <4>4
        <5> QED BY <4>5, <5>1, CollectEffect
      <4>7. Len(slots') = 1
        BY <4>5, <4>6, FS_EmptySet
      <4>8. ciTop' >= MinStack + 1
        <5>1. ciTop \in Nat /\ MinStack \in Nat /\ ciTop >= MinStack + 1
          BY <3>2, <4>1, EngineAssumption DEF TypeOK
        <5> QED BY <4>2, <4>3, <4>6, <5>1 DEF AdjustedTop
      <4>9. ~overrun'
        BY <3>4, <4>1, <4>4, <4>5
      <4>10. reply'.results = Exact(reply'.own)
        BY <4>5, <4>6
      <4> QED BY <4>1, <4>6, <4>7, <4>8, <4>9, <4>10 DEF ContractInv
    <3>6. ASSUME clean, CleanCall(name, terms), Invoked(name, terms),
                 NEW err \in Value, HasText(err), NEW effect,
                 Report(RaiseTo(CallStack(name, terms), Callee(name, terms), err), effect),
                 overrun' = OverrunBy(name, terms)
          PROVE  ContractInv'
      <4> DEFINE s == RaiseTo(CallStack(name, terms), Callee(name, terms), err)
      <4>1. s \in Seq(Value) /\ Len(s) = 2 /\ s[2] = err
        <5> DEFINE t == CallStack(name, terms)
                   c == Callee(name, terms)
        <5>1. t \in Seq(Value) /\ c = 2 /\ c \in 1..Len(t)
          BY <3>4, <3>6
        <5> HIDE DEF t, c
        <5>2. err \in Value
          BY <3>6
        <5>3. RaiseTo(t, c, err) \in Seq(Value)
          BY <5>1, <5>2, RaiseType
        <5>4. Len(RaiseTo(t, c, err)) = c
          BY <5>1, <5>2, RaiseType
        <5>5. RaiseTo(t, c, err)[c] = err
          BY <5>1, <5>2, RaiseType
        <5> QED BY <5>1, <5>3, <5>4, <5>5 DEF t, c
      <4>2. Report(s, effect) /\ ~overrun'
        BY <3>4, <3>6
      <4> HIDE DEF s
      <4> QED BY <3>6, <4>1, <4>2, ReportClean
    <3>7. ASSUME NEW effect \in Effects, NEW err \in Errors,
                 CallRaises(name, terms, effect, err)
          PROVE  ContractInv'
      BY <3>6, <3>7, EngineAssumption DEF CallRaises
    <3>8. CASE CallNotCallable(name, terms)
      <4>1. Message \in Value /\ HasText(Message)
        BY EngineAssumption DEF HasText
      <4> QED BY <3>6, <3>8, <4>1 DEF CallNotCallable
    <3> QED BY <2>6, <3>1, <3>3, <3>5, <3>7, <3>8 DEF Call
  <2>7. ASSUME NEW name \in Names \ {Unreadable}, NEW args \in ArgLists,
               Call(name, Arguments(args))
        PROVE  ContractInv'
    BY <2>6, <2>7, ArgumentsType, EngineAssumption
  <2> QED BY <2>1, <2>2, <2>3, <2>4, <2>5, <2>7 DEF Next, Dofile
<1>3. ContractInv => ContractKept
  BY DEF ContractInv, ContractKept
<1> QED BY <1>1, <1>2, <1>3, TypeCorrect, PTL DEF Spec

-----------------------------------------------------------------------------
\* Only a function that returns makes an "ok".
LEMMA OnlyReturnsAnswerOk ==
  ASSUME Next
  PROVE  \/ \E kind \in {"none", "loaded", "error", "badarg"} : reply' = Answer(kind)
         \/ \E name \in Names \ {Unreadable}, args \in ArgLists,
               effect \in Effects, own \in Results :
                 CallReturns(name, Arguments(args), effect, own)
<1> DEFINE Other == \E kind \in {"none", "loaded", "error", "badarg"} : reply' = Answer(kind)
<1>1. ASSUME NEW s, NEW effect, Report(s, effect) PROVE Other
  BY <1>1 DEF Report, Abort
<1>2. CASE Dofile
  BY <1>1, <1>2 DEF Dofile, DofileUnreadable, DofileFails, DofileRuns,
     DofileRaises, DofileCallsFileName, DofileWild
<1>3. CASE CallUnreadable
  BY <1>3 DEF CallUnreadable
<1>4. ASSUME NEW name \in Names \ {Unreadable}, NEW args \in ArgLists,
             Call(name, Arguments(args)),
             ~\E effect \in Effects, own \in Results :
                 CallReturns(name, Arguments(args), effect, own)
      PROVE  Other
  <2>1. CASE \E effect \in Effects, err \in Errors :
               CallRaises(name, Arguments(args), effect, err)
    BY <1>1, <2>1 DEF CallRaises
  <2>2. CASE CallNotCallable(name, Arguments(args))
    BY <1>1, <2>2 DEF CallNotCallable
  <2>3. CASE \/ CallNoTable(name) \/ CallNoFunction(name)
             \/ CallRefused(name, Arguments(args))
             \/ CallArgumentRaises(name, Arguments(args))
             \/ CallWild(name, Arguments(args))
    BY <2>3 DEF CallNoTable, CallNoFunction, CallRefused, CallArgumentRaises,
       CallWild, Abort
  <2> QED BY <1>4, <2>1, <2>2, <2>3 DEF Call
<1> QED BY <1>2, <1>3, <1>4 DEF Next

\* What a call that returns with "ok" did.
LEMMA OkCall ==
  ASSUME TypeOK, NEW name \in Names \ {Unreadable}, NEW args \in ArgLists,
         NEW effect \in Effects, NEW own \in Results,
         CallReturns(name, Arguments(args), effect, own)
  PROVE  LET s == ReturnTo(CallStack(name, Arguments(args)),
                           Callee(name, Arguments(args)), own)
         IN  /\ Collect(s, own, effect)
             /\ s \in Seq(Value)
             /\ Len(s) = Callee(name, Arguments(args)) - 1 + Len(own)
             /\ \A i \in 1..Len(own) :
                  s[Callee(name, Arguments(args)) - 1 + i] = own[i]
<1> DEFINE terms == Arguments(args)
           t == CallStack(name, terms)
           c == Callee(name, terms)
<1>1. terms \in Seq(Term) /\ name \in NameType /\ own \in Seq(Value)
  BY ArgumentsType, EngineAssumption
<1>2. AllPushed(terms) /\ c >= 1 /\ Collect(ReturnTo(t, c, own), own, effect)
  BY DEF CallReturns, Invoked, CallsFunction
<1>3. t \in Seq(Value) /\ c \in Int /\ c <= Len(t)
  BY <1>1, <1>2, CallStackType
<1> HIDE DEF t, c
<1>4. c \in 1..Len(t)
  BY <1>2, <1>3
<1>5. ReturnTo(t, c, own) \in Seq(Value)
  BY <1>1, <1>3, <1>4, ReturnType
<1>6. Len(ReturnTo(t, c, own)) = c - 1 + Len(own)
  BY <1>1, <1>3, <1>4, ReturnType
<1>7. \A i \in 1..Len(own) : ReturnTo(t, c, own)[c - 1 + i] = own[i]
  BY <1>1, <1>3, <1>4, ReturnType
<1> QED BY <1>2, <1>5, <1>6, <1>7 DEF t, c

\* When no lookup missed, popping lua_gettop(s) slots leaves the bottom one,
\* and lua_settop restores that one should it be missing.
LEMMA PopAllLength ==
  ASSUME NEW s \in Seq(Value), Leaking(s) = {}
  PROVE  Len(IF lua_gettop(s) = 0 THEN s
             ELSE lua_pop(s \o Leaked(s), lua_gettop(s))) = 1
<1> DEFINE t == s \o Leaked(s)
           g == lua_gettop(s)
<1>1. Len(s) \in Nat /\ g \in Int /\ g + 1 = Len(s)
  BY DEF lua_gettop
<1>2. Leaked(s) \in Seq(Value) /\ Len(Leaked(s)) = 0
  BY LeakedType, FS_EmptySet
<1>3. t \in Seq(Value) /\ Len(t) = Len(s)
  BY <1>1, <1>2, ConcatProperties
<1> SUFFICES Len(IF g = 0 THEN s ELSE lua_pop(t, g)) = 1
  OBVIOUS
<1> HIDE DEF t, g
<1>4. CASE g = 0
  BY <1>1, <1>4
<1>5. CASE g < 0
  <2>1. lua_pop(t, g) = [i \in 1..(-g) |-> IF i <= Len(t) THEN t[i] ELSE Nil]
    BY <1>1, <1>5 DEF lua_pop, lua_settop
  <2>2. lua_pop(t, g) \in [1..(-g) -> Value]
    BY <1>3, <2>1, EngineAssumption, LenProperties
  <2>3. -g = 1 /\ -g \in Int
    BY <1>1, <1>5
  <2>4. Len(lua_pop(t, g)) = 1
    <3> DEFINE n == -g
    <3>1. n \in Int /\ n = 1 /\ lua_pop(t, g) \in [1..n -> Value]
      BY <2>2, <2>3
    <3> HIDE DEF n
    <3>2. Len(lua_pop(t, g)) = IF n >= 0 THEN n ELSE 0
      BY <3>1, FunSeq
    <3> QED BY <3>1, <3>2
  <2> QED BY <1>5, <2>4
<1>6. CASE g > 0
  <2>1. g \in 0..Len(t)
    BY <1>1, <1>3, <1>6
  <2>2. Len(lua_pop(t, g)) = Len(t) - g
    BY <1>3, <2>1, PopLength
  <2>3. Len(lua_pop(t, g)) = 1
    BY <1>1, <1>3, <2>2
  <2> QED BY <1>6, <2>3
<1> QED BY <1>1, <1>4, <1>5, <1>6

\* A supported result reads as its own conversion.
LEMMA SupportedReply ==
  ASSUME NEW s \in Seq(Value), NEW i \in 1..lua_gettop(s), ~Unsupported(s[i + 1])
  PROVE  ReplyAt(s, i) = Converted(s, i)
<1> DEFINE assigned == {j \in i..lua_gettop(s) : ~Unsupported(s[j + 1])}
<1>1. i \in assigned /\ assigned \in SUBSET Nat /\ \A j \in assigned : i <= j
  BY DEF lua_gettop
<1>2. Min(assigned) \in assigned /\ \A j \in assigned : Min(assigned) <= j
  BY <1>1, NatMin
<1>3. Min(assigned) = i
  BY <1>1, <1>2
<1> QED BY <1>1, <1>3 DEF ReplyAt

\* One good call empties the stack, whatever earlier requests left on it and
\* whatever names the client used.
THEOREM CallRepairs == Spec => GoodCallRepairs
<1> DEFINE A == reply'.kind = "ok" /\ NoneHasMetatable(reply'.results)
                => Len(slots') = 1
<1>1. TypeOK /\ [Next]_vars => [A]_vars
  <2> SUFFICES ASSUME TypeOK, Next, reply'.kind = "ok",
                      NoneHasMetatable(reply'.results)
               PROVE  Len(slots') = 1
    OBVIOUS
  <2>1. \A kind \in {"none", "loaded", "error", "badarg"} : reply' # Answer(kind)
    BY DEF Answer
  <2>2. PICK name \in Names \ {Unreadable}, args \in ArgLists,
             effect \in Effects, own \in Results :
               CallReturns(name, Arguments(args), effect, own)
    BY <2>1, OnlyReturnsAnswerOk
  <2> DEFINE s == ReturnTo(CallStack(name, Arguments(args)),
                           Callee(name, Arguments(args)), own)
  <2>3. Collect(s, own, effect) /\ s \in Seq(Value)
    BY <2>2, OkCall
  <2> HIDE DEF s
  <2>4. ~\E i \in 1..lua_gettop(s) : ProbeRaises(s, i)
    BY <2>1, <2>3 DEF Collect, Abort
  <2>5. /\ slots' = IF lua_gettop(s) = 0 THEN s
                    ELSE lua_pop(s \o Leaked(s), lua_gettop(s))
        /\ reply'.results = [i \in 1..lua_gettop(s) |-> ReplyAt(s, i)]
    BY <2>3, <2>4 DEF Collect
  <2>6. Leaking(s) = {}
    <3>1. ASSUME NEW i \in 1..lua_gettop(s), HasMetatable(s[i + 1]) PROVE FALSE
      <4>1. ReplyAt(s, i) = Converted(s, i)
        <5>1. ~Unsupported(s[i + 1])
          BY <3>1 DEF HasMetatable, Unsupported
        <5> QED BY <2>3, <5>1, SupportedReply
      <4>2. ReplyAt(s, i).v = s[i + 1]
        BY <4>1 DEF Converted, ErlTerm
      <4>3. Garbage # Converted(s, i)
        <5>1. s[i + 1] \in Value
          BY <2>3 DEF lua_gettop
        <5>2. Converted(s, i) \in [v : Value, as : {"scalar", "list", "map"}]
          BY <5>1 DEF Converted, ErlTerm
        <5> QED BY <5>2, EngineAssumption
      <4>4. reply'.results[i] = ReplyAt(s, i) /\ i \in 1..Len(reply'.results)
        BY <2>3, <2>5 DEF lua_gettop
      <4> QED BY <3>1, <4>1, <4>2, <4>3, <4>4 DEF NoneHasMetatable
    <3> QED BY <3>1 DEF Leaking
  <2> QED BY <2>5, <2>6, <2>3, PopAllLength
<1> QED BY <1>1, TypeCorrect, PTL DEF Spec, GoodCallRepairs

\* With names as the README has them, a function's own results come last in its
\* answer, none missing, whatever earlier requests left behind.
THEOREM OwnResultsComeLast ==
  ASSUME SelfHasTable
  PROVE  Spec => []OwnResultsLast
<1>1. Init => OwnResultsLast
  BY DEF Init, OwnResultsLast, Answer
<1>2. TypeOK /\ NoUnderflow /\ OwnResultsLast /\ [Next]_vars => OwnResultsLast'
  <2> SUFFICES ASSUME TypeOK, NoUnderflow, OwnResultsLast, [Next]_vars
               PROVE  OwnResultsLast'
    OBVIOUS
  <2>1. CASE UNCHANGED vars
    BY <2>1 DEF OwnResultsLast, vars
  <2>2. CASE \E kind \in {"none", "loaded", "error", "badarg"} : reply' = Answer(kind)
    BY <2>2 DEF OwnResultsLast, Answer
  <2>3. ASSUME NEW name \in Names \ {Unreadable}, NEW args \in ArgLists,
               NEW effect \in Effects, NEW own \in Results,
               CallReturns(name, Arguments(args), effect, own)
        PROVE  OwnResultsLast'
    <3> DEFINE c == Callee(name, Arguments(args))
               s == ReturnTo(CallStack(name, Arguments(args)), c, own)
               extra == Len(slots) - 1
    <3>1. /\ own \in Seq(Value) /\ Arguments(args) \in Seq(Term)
          /\ name \in NameType
          /\ InvokeSelf(name) => HasTable(name)
      BY ArgumentsType, EngineAssumption DEF SelfHasTable
    <3>2. c = Len(slots) + 1
      <4>1. AllPushed(Arguments(args))
        BY <2>3 DEF CallReturns, Invoked
      <4> QED BY <3>1, <4>1, CalleeAboveStack
    <3>3. /\ Collect(s, own, effect) /\ s \in Seq(Value)
          /\ Len(s) = c - 1 + Len(own)
          /\ \A i \in 1..Len(own) : s[c - 1 + i] = own[i]
      BY <2>3, OkCall
    <3> HIDE DEF s, c
    <3>4. Len(slots) \in Nat /\ extra \in Nat /\ Len(own) \in Nat
      BY <3>1 DEF TypeOK, NoUnderflow
    <3>5. lua_gettop(s) \in Nat /\ lua_gettop(s) = extra + Len(own)
      BY <3>2, <3>3, <3>4 DEF lua_gettop
    <3>6. CASE \E i \in 1..lua_gettop(s) : ProbeRaises(s, i)
      <4>1. reply' = Answer("none")
        BY <3>3, <3>6 DEF Collect, Abort
      <4> QED BY <2>2, <4>1
    <3>7. CASE ~\E i \in 1..lua_gettop(s) : ProbeRaises(s, i)
      <4>1. /\ reply'.results = [i \in 1..lua_gettop(s) |-> ReplyAt(s, i)]
            /\ reply'.own = own
        BY <3>3, <3>7 DEF Collect
      <4>2. Len(reply'.results) = lua_gettop(s)
        BY <3>5, <4>1
      <4>3. Len(reply'.results) - Len(reply'.own) = extra
        BY <3>4, <3>5, <4>1, <4>2
      <4>4. ASSUME NEW i \in 1..Len(own), ~HasMetatable(own[i]), ~Unsupported(own[i])
            PROVE  reply'.results[extra + i] = Exact(own)[i]
        <5>1. extra + i \in 1..lua_gettop(s) /\ s[extra + i + 1] = own[i]
          <6>1. extra + i + 1 = c - 1 + i
            BY <3>2, <3>4
          <6> QED BY <3>3, <3>4, <3>5, <6>1
        <5>2. ReplyAt(s, extra + i) = Converted(s, extra + i)
          BY <3>3, <4>4, <5>1, SupportedReply
        <5>3. Kind[own[i]] # "map"
          BY <4>4 DEF HasMetatable
        <5>4. Converted(s, extra + i) = ErlTerm(own[i], FALSE)
          BY <5>1, <5>3 DEF Converted, MarkFound, ErlTerm
        <5>5. Exact(own)[i] = ErlTerm(own[i], FALSE)
          BY <5>3 DEF Exact, ErlTerm
        <5> QED BY <4>1, <5>1, <5>2, <5>4, <5>5
      <4> DEFINE shift == Len(reply'.results) - Len(reply'.own)
      <4>5. shift >= 0
        BY <3>4, <4>3
      <4>6. \A i \in 1..Len(reply'.own) :
              (~HasMetatable(reply'.own[i]) /\ ~Unsupported(reply'.own[i]))
                => reply'.results[shift + i] = Exact(reply'.own)[i]
        BY <4>1, <4>3, <4>4
      <4> QED BY <4>5, <4>6 DEF OwnResultsLast
    <3> QED BY <3>6, <3>7
  <2> QED BY <2>1, <2>2, <2>3, OnlyReturnsAnswerOk
<1>3. Spec => []NoUnderflow
  BY NeverBelowBase
<1> QED BY <1>1, <1>2, <1>3, TypeCorrect, PTL DEF Spec

-----------------------------------------------------------------------------
\* The service converts values as the engine does.
LEMMA ServiceExact == \A own : Service!Exact(own) = Exact(own)
  BY DEF Exact, ErlTerm, IsTable, Service!Exact, Service!ErlTerm, Service!IsTable

\* What a script assigns in the engine is what one assigns in the service; a
\* request that assigns nothing is a script without effects.
LEMMA ScriptRuns ==
  ASSUME TypeOK, NEW effect \in Effects \cup {NoAssignment},
         globals' = Assigned(effect) \/ globals' = globals
  PROVE  Service!ScriptRan
<1>1. globals = Assigned(NoAssignment)
  BY DEF TypeOK, Assigned, NoAssignment
<1>2. \E e \in Effects \cup {NoAssignment} : globals' = Assigned(e)
  BY <1>1
<1> QED BY <1>2 DEF Service!ScriptRan, Assigned, NoAssignment

\* An answer without results is the one of the service.
LEMMA ServiceSays ==
  ASSUME NEW kind, reply' = Answer(kind)
  PROVE  Service!Say(kind, <<>>)
  BY ServiceExact, AnswerExact DEF Answer, Service!Say

\* While the contract is kept, reporting an error is the Failed of the service.
LEMMA ReportServes ==
  ASSUME TypeOK, status' = "up", NEW s, NEW effect \in Effects \cup {NoAssignment},
         Report(s, effect)
  PROVE  Service!Failed
<1>1. globals' = Assigned(effect) /\ reply' = Answer("error")
  BY DEF Report, Abort
<1> QED BY <1>1, ScriptRuns, ServiceSays DEF Service!Failed

\* A request within the contract is one of the four of the service.
LEMMA ServiceStep ==
  ASSUME TypeOK, ContractKept', [Next]_vars
  PROVE  [Service!Next]_(Service!service)
<1>1. CASE UNCHANGED vars
  BY <1>1 DEF vars, Service!service
<1>2. CASE ~clean'
  BY <1>2 DEF Service!Next, Service!ContractBroken
<1>3. CASE clean' /\ Next
  <2>1. /\ status' = "up"
        /\ reply'.results = Exact(reply'.own)
    BY <1>3 DEF ContractKept
  <2>2. ASSUME clean, Service!Loaded \/ Service!Answered \/ Service!Failed \/ Service!Rejected
        PROVE  [Service!Next]_(Service!service)
    BY <1>3, <2>2 DEF Service!Next, Service!Serve
  <2>3. CASE DofileUnreadable \/ DofileFails
    <3>1. clean /\ globals' = globals /\ reply' = Answer("error")
      BY <1>3, <2>3 DEF DofileUnreadable, DofileFails
    <3> QED BY <2>2, <3>1, ScriptRuns, ServiceSays DEF Service!Failed
  <2>4. ASSUME NEW effect \in Effects, NEW results \in FileResults,
               DofileRuns(effect, results)
        PROVE  [Service!Next]_(Service!service)
    <3>1. clean /\ globals' = Assigned(effect) /\ reply' = Answer("loaded")
      BY <1>3, <2>4 DEF DofileRuns
    <3> QED BY <2>2, <3>1, ScriptRuns, ServiceSays DEF Service!Loaded
  <2>5. ASSUME NEW effect \in Effects, NEW err \in Errors, DofileRaises(effect, err)
        PROVE  [Service!Next]_(Service!service)
    BY <1>3, <2>1, <2>2, <2>5, ReportServes DEF DofileRaises
  <2>6. CASE DofileCallsFileName
    BY <1>3, <2>1, <2>2, <2>6, ReportServes DEF DofileCallsFileName
  <2>7. CASE DofileWild
    BY <2>1, <2>7 DEF DofileWild
  <2>8. CASE CallUnreadable
    <3>1. clean /\ globals' = globals /\ reply' = Answer("badarg")
      BY <1>3, <2>8 DEF CallUnreadable
    <3> QED BY <2>2, <3>1, ServiceSays DEF Service!Rejected
  <2>9. ASSUME NEW name, NEW terms, Call(name, terms)
        PROVE  [Service!Next]_(Service!service)
    <3>1. ~CallNoTable(name) /\ ~CallNoFunction(name) /\ ~CallArgumentRaises(name, terms)
          /\ ~CallWild(name, terms)
      BY <1>3 DEF CallNoTable, CallNoFunction, CallArgumentRaises, CallWild
    <3>2. CASE CallRefused(name, terms)
      <4>1. clean /\ globals' = globals /\ reply' = Answer("badarg")
        BY <1>3, <3>2 DEF CallRefused
      <4> QED BY <2>2, <4>1, ServiceSays DEF Service!Rejected
    <3>3. ASSUME NEW effect \in Effects, NEW own \in Results,
                 CallReturns(name, terms, effect, own)
          PROVE  [Service!Next]_(Service!service)
      <4> DEFINE s == ReturnTo(CallStack(name, terms), Callee(name, terms), own)
      <4>1. clean /\ Collect(s, own, effect)
        BY <1>3, <3>3 DEF CallReturns
      <4> HIDE DEF s
      <4>2. /\ globals' = Assigned(effect)
            /\ reply' = [kind |-> "ok", own |-> own,
                         results |-> [i \in 1..lua_gettop(s) |-> ReplyAt(s, i)]]
        BY <2>1, <4>1 DEF Collect, Abort
      <4>3. reply' = [kind |-> "ok", results |-> Exact(own), own |-> own]
        BY <2>1, <4>2
      <4> QED BY <2>2, <4>1, <4>2, <4>3, ScriptRuns, ServiceExact
              DEF Service!Answered, Service!Say
    <3>4. ASSUME NEW effect \in Effects, NEW err \in Errors,
                 CallRaises(name, terms, effect, err)
          PROVE  [Service!Next]_(Service!service)
      BY <1>3, <2>1, <2>2, <3>4, ReportServes DEF CallRaises
    <3>5. CASE CallNotCallable(name, terms)
      BY <1>3, <2>1, <2>2, <3>5, ReportServes DEF CallNotCallable
    <3> QED BY <2>9, <3>1, <3>2, <3>3, <3>4, <3>5 DEF Call
  <2> QED BY <1>3, <2>3, <2>4, <2>5, <2>6, <2>7, <2>8, <2>9 DEF Next, Dofile
<1> QED BY <1>1, <1>2, <1>3

\* Against its contract the engine implements the service it is taken for, in
\* which no stack exists: each request maps to one of the service, with the same
\* answer and the same assignments (ailua_dofile, ailua_call).
THEOREM ServiceImplemented == Spec => ImplementsService
<1>1. Init => Service!Init
  BY ServiceExact DEF Init, Answer, Service!Init
<1>2. TypeOK /\ ContractKept' /\ [Next]_vars => [Service!Next]_(Service!service)
  BY ServiceStep
<1> QED BY <1>1, <1>2, TypeCorrect, ContractHolds, PTL DEF Spec, ImplementsService, Service!Spec
=============================================================================

---------------------------- MODULE AiluaEngine ----------------------------
(***************************************************************************)
(* One Lua virtual machine behind one ailua reference: ailua_dofile and    *)
(* ailua_call of c_src/ailua.c, executed one at a time (the NIF that runs  *)
(* them, and what happens when two run at once, is module AiluaNif).       *)
(*                                                                         *)
(* The state that survives a request is the Lua stack, the globals and     *)
(* ci->top.  Every early return of the C code is a disjunct of its own,    *)
(* and it leaves on the stack exactly what the C code leaves there.        *)
(* Scripts are the environment: which values a function returns, which     *)
(* error object it raises and which globals it assigns is chosen from the  *)
(* constant sets below.                                                    *)
(***************************************************************************)
EXTENDS LuaValues, FiniteSets, FiniteSetsExt

CONSTANTS
    Nil,        \* the Lua value nil
    Key,        \* global and field names
    Field,      \* Value -> [Key -> Value]: the fields of the tables
    Effects,    \* sets of global assignments a script may perform
    Results,    \* sequences of values a function may return
    FileResults,\* sequences of values a chunk may return
    Errors,     \* objects a script may raise with error()
    Names,      \* function names a client passes, see NameType
    Term,       \* Erlang terms a client passes as arguments
    Pushed,     \* Term -> Value, or Refused, or Raises: erlang_to_lua
    Scratch,    \* Term -> Nat: slots erlang_to_lua uses above the one it
                \*   leaves: 0 for a scalar, 1 for a list, 3 for a map;
                \*   all it uses if it refuses the term
    ArgLists,   \* argument lists: sequences of terms, or Improper
    NoTable,    \* "the name has no table part"
    Unreadable, \* a name or a path enif_get_string refuses (not a string,
                \*   255 characters or more)
    Improper,   \* an improper list: enif_is_list accepts it, its length is 0
    Refused,    \* erlang_to_lua returns 0 (a tuple, a pid, a bignum, ...)
    Raises,     \* erlang_to_lua raises: a map with a key that becomes nil
    Message,    \* the string object of an error Lua raises itself
    Metatable,  \* a metatable left on the stack by is_erl_boxer
    Garbage,    \* a term read from an uninitialised variable
    MinStack,   \* LUA_MINSTACK
    MaxDepth    \* bound: no request is issued on a deeper stack

(* "t:m" and "t.m" have a table part; ":m" has a separator and none.        *)
NameType == [table : Key \cup {NoTable}, sep : {"", ".", ":"}, key : Key]

ASSUME EngineAssumption ==
    /\ Nil \in Value /\ Message \in Value /\ Metatable \in Value
    /\ Kind \in [Value -> Kinds]
    /\ Kind[Nil] = "nil" /\ Kind[Message] = "str"
    /\ Field \in [Value -> [Key -> Value]]
    /\ Effects \subseteq UNION {[K -> Value] : K \in SUBSET Key}
    /\ Results \subseteq Seq(Value) /\ FileResults \subseteq Seq(Value)
    /\ Errors \subseteq Value
    /\ Names \subseteq NameType \cup {Unreadable}
    /\ Refused \notin Value /\ Raises \notin Value /\ Refused # Raises
    /\ Pushed \in [Term -> Value \cup {Refused, Raises}]
    /\ Scratch \in [Term -> Nat]
    /\ ArgLists \subseteq Seq(Term) \cup {Improper} /\ Improper \notin Seq(Term)
    /\ Garbage \notin [v : Value, as : {"scalar", "list", "map"}]
    /\ MinStack \in Nat /\ MinStack >= 2 /\ MaxDepth \in Nat

-----------------------------------------------------------------------------
(***************************************************************************)
(* The value stack of a lua_State as C code outside any Lua function sees  *)
(* it: the slots from ci->func of the base CallInfo up to (not including)  *)
(* L->top.  A stack is the sequence of those slots, so its first element   *)
(* is the 'function' entry that stack_init (lstate.c) fills with nil and   *)
(* API index i is element i + 1.  The release build of Lua compiles the    *)
(* api_check assertions away: nothing stops L->top from sinking to         *)
(* ci->func (the empty sequence) or from rising past ci->top.              *)
(***************************************************************************)
\* The stack of a fresh lua_State: only the 'function' entry of the base ci.
FreshStack == <<Nil>>

lua_gettop(s) == Len(s) - 1

lua_settop(s, idx) ==
    IF idx >= 0
    THEN [i \in 1..(idx + 1) |-> IF i <= Len(s) THEN s[i] ELSE Nil]
    ELSE SubSeq(s, 1, Len(s) + idx + 1)

lua_pop(s, n) == lua_settop(s, -n - 1)

\* Every push: store at L->top, then api_incr_top.
lua_push(s, v) == Append(s, v)

\* What lua_pcall sees: c.func = L->top - (nargs + 1).  The result is an index
\* into the sequence; it is 0 when the callee would lie below ci->func.
CalleeIndex(s, nargs) == Len(s) - nargs

\* luaD_poscall / moveresults with LUA_MULTRET: the results replace the callee
\* and its arguments.
ReturnTo(s, callee, results) == SubSeq(s, 1, callee - 1) \o results

\* luaD_pcall / seterrorobj: the error object replaces the callee, L->top is
\* the slot after it.
RaiseTo(s, callee, err) == Append(SubSeq(s, 1, callee - 1), err)

\* adjustresults: a call with LUA_MULTRET may raise ci->top, never lower it.
AdjustedTop(ciTop, s) == IF ciTop < Len(s) THEN Len(s) ELSE ciTop

VARIABLES
    slots,   \* the Lua stack between two requests
    ciTop,   \* ci->top of the base CallInfo, counted in slots from ci->func
    globals, \* the global table, Nil where undefined
    status,  \* "up"; "aborted": panic or NULL dereference killed the node;
             \*   "wild": the callee was read from below the stack
    reply,   \* the last answer to the client
    overrun, \* history: has an API call pushed past ci->top?
    clean    \* history: has every request so far been within the contract?

vars == <<slots, ciTop, globals, status, reply, overrun, clean>>

(***************************************************************************)
(* Answers.  "loaded" is the ok of ailua_dofile, "ok" that of ailua_call.  *)
(* own (history) is what the called function itself returned.              *)
(***************************************************************************)
ReplyTerm == [v : Value, as : {"scalar", "list", "map"}] \cup {Garbage}
ReplyType == [kind : {"none", "loaded", "ok", "error", "badarg"},
              results : Seq(ReplyTerm), own : Seq(Value)]

Answer(kind) == [kind |-> kind, results |-> <<>>, own |-> <<>>]

Init ==
    /\ slots = FreshStack
    /\ ciTop = MinStack + 1
    /\ globals = [k \in Key |-> Nil]
    /\ status = "up"
    /\ reply = Answer("none")
    /\ overrun = FALSE
    /\ clean = TRUE

-----------------------------------------------------------------------------
(***************************************************************************)
(* Converting the whole stack, as the result loop of ailua_call does.      *)
(* is_erl_boxer pushes the metatable of result i and then indexes slot     *)
(* i + 1, which is the metatable only when result i is the top of the      *)
(* stack; otherwise it is the next result.  When the lookup yields nil     *)
(* (every lookup but that of a marked table on top) the metatable stays    *)
(* on the stack.                                                           *)
(***************************************************************************)
IsTop(s, i) == i = lua_gettop(s)
MarkFound(s, i) == Kind[s[i + 1]] = "map" /\ IsTop(s, i)

\* lua_gettable on a nil, boolean, number or function: an error with no
\* handler, so lua_atpanic's function and then abort().
ProbeRaises(s, i) ==
    HasMetatable(s[i + 1]) /\ ~IsTop(s, i)
        /\ ~(Kind[s[i + 2]] = "str" \/ IsTable(s[i + 2]))

Leaking(s) == {i \in 1..lua_gettop(s) :
                    HasMetatable(s[i + 1]) /\ ~MarkFound(s, i)}
Leaked(s) == [i \in 1..Cardinality(Leaking(s)) |-> Metatable]

(* The slots in use while result i is converted: a metatable and a key for  *)
(* the lookup, a key and a value for lua_next, an element for lua_rawgeti,  *)
(* above the metatables that the results above i leaked.                   *)
ConversionPeak(s, i) ==
    Len(s) + Cardinality({j \in Leaking(s) : j > i})
           + (IF HasMetatable(s[i + 1]) THEN 2
              ELSE IF IsTable(s[i + 1]) THEN 1 ELSE 0)

Converted(s, i) == ErlTerm(s[i + 1], MarkFound(s, i))

\* Mutant: the loop that builds the answer starts at the bottom of the stack.
ReplyAtReversed(s, i) == Converted(s, lua_gettop(s) + 1 - i)

\* Mutant: an unsupported result is answered with a term of a new form.
ReplyAtTagged(s, i) ==
    IF Unsupported(s[i + 1]) THEN [v |-> s[i + 1], as |-> "func"] ELSE Converted(s, i)

(* lua_to_erlang does not assign *out for an unsupported type, so 'term'    *)
(* keeps the conversion of the result handled before it, the next higher   *)
(* one; the first result handled finds it uninitialised.                   *)
ReplyAt(s, i) ==
    LET assigned == {j \in i..lua_gettop(s) : ~Unsupported(s[j + 1])}
    IN  IF assigned = {} THEN Garbage ELSE Converted(s, Min(assigned))

-----------------------------------------------------------------------------
(***************************************************************************)
(* Names and arguments.                                                    *)
(***************************************************************************)
HasTable(name) == name.table # NoTable \* table_name_length > 0
InvokeSelf(name) == name.sep = ":"     \* invoke_self, even if table part is ""

\* The first lua_getglobal: the table when the name has one, else the function.
Found(name) == globals[IF HasTable(name) THEN name.table ELSE name.key]
Method(name) == Field[Found(name)][name.key]

Resolves(name) ==
    HasTable(name) => IsTable(Found(name)) /\ Kind[Method(name)] = "func"

\* The stack once the function, and the table for "t:m", is pushed.
Prepared(name) ==
    IF ~HasTable(name) THEN lua_push(slots, Found(name))
    ELSE IF InvokeSelf(name)
         THEN lua_push(lua_push(slots, Method(name)), Found(name))
         ELSE lua_push(slots, Method(name))

\* enif_get_list_length fails on an improper list and input_len stays 0.
Arguments(args) == IF args = Improper THEN <<>> ELSE args

\* erlang_to_lua fails at argument i, and did not fail before.
FailsAt(terms, i, how) ==
    /\ Pushed[terms[i]] = how
    /\ \A j \in 1..(i - 1) : Pushed[terms[j]] \in Value

PushedUpTo(terms, n) == [j \in 1..n |-> Pushed[terms[j]]]
AllPushed(terms) == \A i \in 1..Len(terms) : Pushed[terms[i]] \in Value

\* Mutant: every name with a table part counts the table as an argument.
PcallArgsWithTable(name, terms) ==
    Len(terms) + (IF HasTable(name) THEN 1 ELSE 0)

\* nargs of lua_pcall: 'if(invoke_self > 0) input_len++', whether or not a
\* table was pushed.
PcallArgs(name, terms) == Len(terms) + (IF InvokeSelf(name) THEN 1 ELSE 0)

NoAssignment == [k \in {} |-> Nil]
Assigned(effect) ==
    [k \in Key |-> IF k \in DOMAIN effect THEN effect[k] ELSE globals[k]]

(* The slots in use while the callee is looked up, and while each of the    *)
(* first n arguments is pushed.  Nothing calls lua_checkstack.             *)
PushPeaks(name, terms, n) ==
    {Len(slots) + (IF HasTable(name) THEN 2 ELSE 1)} \cup
    {Len(Prepared(name)) + i + Scratch[terms[i]] : i \in 1..n}

\* The same when argument i is refused, with what it has built by then.
RefusedPeaks(name, terms, i) ==
    PushPeaks(name, terms, i - 1)
        \cup {Len(Prepared(name)) + i - 1 + Scratch[terms[i]]}

PushedWithin(peaks, top) == \A p \in peaks : p <= top

(***************************************************************************)
(* The contract between a client with its scripts and ailua, as far as the *)
(* answers of ailua depend on it: what a request must not do for the next  *)
(* answers to be exact.                                                    *)
(***************************************************************************)
CleanResults(results) ==
    \A i \in 1..Len(results) :
        /\ ~Unsupported(results[i])
        /\ HasMetatable(results[i]) => i = Len(results) /\ Kind[results[i]] = "map"
        /\ IsTable(results[i]) => Len(results) + 2 <= MinStack

CleanCall(name, terms) ==
    /\ Resolves(name)
    /\ InvokeSelf(name) => HasTable(name)
    /\ \A i \in 1..Len(terms) : i + 2 + Scratch[terms[i]] <= MinStack

-----------------------------------------------------------------------------
(***************************************************************************)
(* Pieces of the actions.                                                  *)
(***************************************************************************)
Ready == status = "up" /\ Len(slots) <= MaxDepth

Abort == /\ status' = "aborted"
         /\ reply' = Answer("none")
         /\ UNCHANGED <<slots, ciTop, globals>>

\* Mutant: the error object stays on the stack.
ReportKeepingError(s, effect) ==
    IF HasText(s[Len(s)])
    THEN /\ slots' = s
         /\ ciTop' = AdjustedTop(ciTop, s)
         /\ globals' = Assigned(effect)
         /\ reply' = Answer("error")
         /\ UNCHANGED status
    ELSE Abort

\* Mutant: a script that raises is answered like a request that never ran.
ReportAsBadarg(s, effect) ==
    IF HasText(s[Len(s)])
    THEN /\ slots' = lua_pop(s, 1)
         /\ ciTop' = AdjustedTop(ciTop, s)
         /\ globals' = Assigned(effect)
         /\ reply' = Answer("badarg")
         /\ UNCHANGED status
    ELSE Abort

\* The error object is on top of s: reported and popped, or, when it has no
\* text, handed to enif_make_string as NULL.
Report(s, effect) ==
    IF HasText(s[Len(s)])
    THEN /\ slots' = lua_pop(s, 1)
         /\ ciTop' = AdjustedTop(ciTop, s)
         /\ globals' = Assigned(effect)
         /\ reply' = Answer("error")
         /\ UNCHANGED status
    ELSE Abort

\* Mutant: only the results of the function itself are popped.
CollectPoppingOwn(s, own, effect) ==
    IF \E i \in 1..lua_gettop(s) : ProbeRaises(s, i)
    THEN Abort
    ELSE /\ slots' = lua_pop(s \o Leaked(s), Len(own))
         /\ ciTop' = AdjustedTop(ciTop, s)
         /\ globals' = Assigned(effect)
         /\ reply' = [kind |-> "ok", own |-> own,
                      results |-> [i \in 1..lua_gettop(s) |-> ReplyAt(s, i)]]
         /\ UNCHANGED status

\* The tail of ailua_call after a successful lua_pcall left s: everything on
\* the stack is a result, and lua_gettop(s) slots are popped in the end.
Collect(s, own, effect) ==
    IF \E i \in 1..lua_gettop(s) : ProbeRaises(s, i)
    THEN Abort
    ELSE /\ slots' = IF lua_gettop(s) = 0
                     THEN s
                     ELSE lua_pop(s \o Leaked(s), lua_gettop(s))
         /\ ciTop' = AdjustedTop(ciTop, s)
         /\ globals' = Assigned(effect)
         /\ reply' = [kind |-> "ok", own |-> own,
                      results |-> [i \in 1..lua_gettop(s) |-> ReplyAt(s, i)]]
         /\ UNCHANGED status

-----------------------------------------------------------------------------
(***************************************************************************)
(* ailua_dofile                                                            *)
(***************************************************************************)
\* enif_get_string fails on the path: no Lua API is called.
DofileUnreadable ==
    /\ Ready
    /\ reply' = Answer("error")
    /\ UNCHANGED <<slots, ciTop, globals, status, overrun, clean>>

\* The file is missing or does not parse: luaL_loadfile leaves a message and
\* ailua_dofile pops it.
DofileFails ==
    /\ Ready /\ lua_gettop(slots) >= 0
    /\ reply' = Answer("error")
    /\ UNCHANGED <<slots, ciTop, globals, status, overrun, clean>>

\* The chunk runs to its end.  What it returns stays on the stack.
DofileRuns(effect, results) ==
    /\ Ready /\ lua_gettop(slots) >= 0
    /\ slots' = slots \o results
    /\ ciTop' = AdjustedTop(ciTop, slots')
    /\ globals' = Assigned(effect)
    /\ reply' = Answer("loaded")
    /\ clean' = (clean /\ results = <<>>)
    /\ UNCHANGED <<status, overrun>>

\* The chunk raises; the globals it assigned before stay assigned.
DofileRaises(effect, err) ==
    /\ Ready /\ lua_gettop(slots) >= 0
    /\ Report(lua_push(slots, err), effect)
    /\ clean' = (clean /\ HasText(err))
    /\ UNCHANGED overrun

(* On a stack below its base, luaL_loadfilex takes its file name to be at   *)
(* index 0, which lua_remove reads as L->top: the chunk is removed in its  *)
(* place, and lua_pcall calls the file name.  A missing file is worse: its *)
(* message is made of whatever the slot at L->top held.                    *)
DofileCallsFileName ==
    /\ Ready /\ lua_gettop(slots) < 0
    /\ Report(lua_push(slots, Message), NoAssignment)
    /\ UNCHANGED <<overrun, clean>>

DofileWild ==
    /\ Ready /\ lua_gettop(slots) < 0
    /\ status' = "wild"
    /\ reply' = Answer("none")
    /\ UNCHANGED <<slots, ciTop, globals, overrun, clean>>

(***************************************************************************)
(* ailua_call                                                              *)
(***************************************************************************)
CallUnreadable ==
    /\ Ready
    /\ reply' = Answer("badarg")
    /\ UNCHANGED <<slots, ciTop, globals, status, overrun, clean>>

\* "t.f" where t is no table: badarg, with the value of t left on the stack.
CallNoTable(name) ==
    /\ Ready
    /\ HasTable(name) /\ ~IsTable(Found(name))
    /\ slots' = lua_push(slots, Found(name))
    /\ reply' = Answer("badarg")
    /\ overrun' = (overrun \/ ~PushedWithin(PushPeaks(name, <<>>, 0), ciTop))
    /\ clean' = FALSE
    /\ UNCHANGED <<ciTop, globals, status>>

\* "t.f" where t.f is no function: badarg, with t and t.f left on the stack.
CallNoFunction(name) ==
    /\ Ready
    /\ HasTable(name) /\ IsTable(Found(name)) /\ ~Resolves(name)
    /\ slots' = lua_push(lua_push(slots, Found(name)), Method(name))
    /\ reply' = Answer("badarg")
    /\ overrun' = (overrun \/ ~PushedWithin(PushPeaks(name, <<>>, 0), ciTop))
    /\ clean' = FALSE
    /\ UNCHANGED <<ciTop, globals, status>>

\* An argument has no Lua counterpart: badarg, and the whole stack is popped.
CallRefused(name, terms) ==
    /\ Ready
    /\ Resolves(name)
    /\ \E i \in 1..Len(terms) :
         /\ FailsAt(terms, i, Refused)
         /\ LET s == Prepared(name) \o PushedUpTo(terms, i - 1)
            IN  slots' = lua_pop(s, lua_gettop(s))
         /\ overrun' = (overrun \/ ~PushedWithin(RefusedPeaks(name, terms, i), ciTop))
    /\ reply' = Answer("badarg")
    /\ clean' = (clean /\ CleanCall(name, terms))
    /\ UNCHANGED <<ciTop, globals, status>>

\* Storing under a nil key raises outside any lua_pcall.
CallArgumentRaises(name, terms) ==
    /\ Ready
    /\ Resolves(name)
    /\ \E i \in 1..Len(terms) : FailsAt(terms, i, Raises)
    /\ Abort
    /\ clean' = FALSE
    /\ UNCHANGED overrun

\* The stack lua_pcall is called on, and where it finds the callee.
CallStack(name, terms) == Prepared(name) \o PushedUpTo(terms, Len(terms))
Callee(name, terms) ==
    CalleeIndex(CallStack(name, terms), PcallArgs(name, terms))

Invoked(name, terms) ==
    /\ Ready
    /\ Resolves(name)
    /\ AllPushed(terms)

OverrunBy(name, terms) ==
    overrun \/ ~PushedWithin(PushPeaks(name, terms, Len(terms)), ciTop)

CallsFunction(name, terms) ==
    /\ Callee(name, terms) >= 1
    /\ Kind[CallStack(name, terms)[Callee(name, terms)]] = "func"

\* A function runs and returns.
CallReturns(name, terms, effect, own) ==
    /\ Invoked(name, terms)
    /\ CallsFunction(name, terms)
    /\ LET s == ReturnTo(CallStack(name, terms), Callee(name, terms), own)
       IN  /\ Collect(s, own, effect)
           /\ overrun' = (\/ OverrunBy(name, terms)
                          \/ \E i \in 1..lua_gettop(s) :
                               ConversionPeak(s, i) > AdjustedTop(ciTop, s))
    /\ clean' = (clean /\ CleanCall(name, terms) /\ CleanResults(own))

\* A function runs and raises; the globals it assigned stay assigned.
CallRaises(name, terms, effect, err) ==
    /\ Invoked(name, terms)
    /\ CallsFunction(name, terms)
    /\ Report(RaiseTo(CallStack(name, terms), Callee(name, terms), err), effect)
    /\ overrun' = OverrunBy(name, terms)
    /\ clean' = (clean /\ CleanCall(name, terms) /\ HasText(err))

\* "attempt to call a nil value": there is a callee and it is no function.
CallNotCallable(name, terms) ==
    /\ Invoked(name, terms)
    /\ Callee(name, terms) >= 1 /\ ~CallsFunction(name, terms)
    /\ Report(RaiseTo(CallStack(name, terms), Callee(name, terms), Message),
              NoAssignment)
    /\ overrun' = OverrunBy(name, terms)
    /\ clean' = (clean /\ CleanCall(name, terms))

\* The callee would lie below ci->func: what is read there is undefined.
CallWild(name, terms) ==
    /\ Invoked(name, terms)
    /\ Callee(name, terms) < 1
    /\ status' = "wild"
    /\ reply' = Answer("none")
    /\ overrun' = OverrunBy(name, terms)
    /\ clean' = FALSE
    /\ UNCHANGED <<slots, ciTop, globals>>

-----------------------------------------------------------------------------
Dofile ==
    \/ Unreadable \in Names /\ DofileUnreadable
    \/ DofileFails
    \/ \E effect \in Effects :
         \/ \E results \in FileResults : DofileRuns(effect, results)
         \/ \E err \in Errors : DofileRaises(effect, err)
    \/ DofileCallsFileName
    \/ DofileWild

Call(name, terms) ==
    \/ CallNoTable(name)
    \/ CallNoFunction(name)
    \/ CallRefused(name, terms)
    \/ CallArgumentRaises(name, terms)
    \/ \E effect \in Effects :
         \/ \E own \in Results : CallReturns(name, terms, effect, own)
         \/ \E err \in Errors : CallRaises(name, terms, effect, err)
    \/ CallNotCallable(name, terms)
    \/ CallWild(name, terms)

Next ==
    \/ Dofile
    \/ Unreadable \in Names /\ CallUnreadable
    \/ \E name \in Names \ {Unreadable}, args \in ArgLists :
         Call(name, Arguments(args))

Spec == Init /\ [][Next]_vars

-----------------------------------------------------------------------------
(***************************************************************************)
(* Properties.                                                             *)
(***************************************************************************)
\* Every variable has its type, in every state of the virtual machine.
TypeOK ==
    /\ slots \in Seq(Value)
    /\ ciTop \in Nat
    /\ globals \in [Key -> Value]
    /\ status \in {"up", "aborted", "wild"}
    /\ reply \in ReplyType
    /\ overrun \in BOOLEAN
    /\ clean \in BOOLEAN

(* As long as no request broke the contract, ailua keeps its side: the     *)
(* node is up, nothing is left on the stack between two requests, no       *)
(* request needed more slots than the base frame has, and the last answer  *)
(* holds exactly the values the function itself returned, each converted.  *)
ContractKept ==
    clean => /\ status = "up"
             /\ Len(slots) = 1
             /\ ~overrun
             /\ reply.results = Exact(reply.own)

(* L->top never sinks below the first slot of the base frame (the api_check *)
(* of lua_settop, "invalid new top"), whatever was left behind before.     *)
NoUnderflow == status # "wild" /\ Len(slots) >= 1

(* Whatever earlier requests left behind comes first: the last values of   *)
(* an answer are those of the function itself, none missing, and each one  *)
(* that needs no metatable lookup and has a conversion reads as it should. *)
OwnResultsLast ==
    reply.kind = "ok" =>
        LET extra == Len(reply.results) - Len(reply.own)
        IN  /\ extra >= 0
            /\ \A i \in 1..Len(reply.own) :
                 (~HasMetatable(reply.own[i]) /\ ~Unsupported(reply.own[i]))
                    => reply.results[extra + i] = Exact(reply.own)[i]

NoneHasMetatable(results) ==
    \A i \in 1..Len(results) :
        results[i] # Garbage => ~HasMetatable(results[i].v)

(* A successful call empties the stack, however much was left on it, as    *)
(* long as no value it converted has a metatable; so one good call repairs *)
(* what failing calls and returning chunks left behind.                    *)
GoodCallRepairs ==
    [][reply'.kind = "ok" /\ NoneHasMetatable(reply'.results)
       => Len(slots') = 1]_vars

(* An answer holds as many values as the function returned: what            *)
(* ailua_call calls the number of return values (c_src/ailua.c:233) is the *)
(* number of values on the stack.                                          *)
CountsOwnResults ==
    reply.kind = "ok" => Len(reply.results) = Len(reply.own)

(* Against the contract, ailua is the service it is taken for: every        *)
(* request maps to a request of LuaService, whatever the stack looks like.  *)
Service == INSTANCE LuaService WITH answer <- reply, inContract <- clean
ImplementsService == Service!Spec
=============================================================================

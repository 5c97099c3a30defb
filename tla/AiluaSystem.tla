---------------------------- MODULE AiluaSystem -----------------------------
(***************************************************************************)
(* AiluaNif with the steps of ailua_call inside: processes whose requests  *)
(* wait for a dirty scheduler, push on the stack of the virtual machine,   *)
(* run a script that reads and then writes a global, and are answered, or  *)
(* are killed meanwhile.  The engine is cut at its calls into Lua.         *)
(***************************************************************************)
EXTENDS AiluaNif

CONSTANTS
    Op,          \* "run", "raise" (the script ends with error) and "refused"
                 \*   (an argument that erlang_to_lua has no case for)
    NoRequest,
    MaxRequests  \* bound

ASSUME SystemAssumption == NoRequest \notin [id : Nat \ {0}, op : Op, ref : Ref]

VARIABLES
    stack,  \* Ref -> what is on the Lua stack
    log,    \* Ref -> the global that scripts append their request to
    at,     \* Proc -> the next step of its call
    req,    \* Proc -> [id, op, ref], or NoRequest
    seen,   \* Proc -> the value of the global in its script
    told,   \* Proc -> the answers it was given
    issued

inner == <<stack, log, at, req, seen, told>>
sys == <<vars, inner, issued>>

SysInit ==
    /\ Init /\ issued = 0
    /\ stack = [r \in Ref |-> <<>>] /\ log = [r \in Ref |-> <<>>]
    /\ at = [p \in Proc |-> "out"] /\ req = [p \in Proc |-> NoRequest]
    /\ seen = [p \in Proc |-> <<>>] /\ told = [p \in Proc |-> <<>>]

Inside(p, step) == pc[p] = "running" /\ at[p] = step
To(p, step) == at' = [at EXCEPT ![p] = step]
Slot(k, v) == [k |-> k, v |-> v]
On(r, s) == stack' = [stack EXCEPT ![r] = s]

Asks(p, r, op) ==
    /\ issued < MaxRequests /\ issued' = issued + 1
    /\ Call(p, r)
    /\ req' = [req EXCEPT ![p] = [id |-> issued + 1, op |-> op, ref |-> r]]
    /\ UNCHANGED <<stack, log, at, seen, told>>

Starts(p) ==
    /\ CallStarts(p) /\ To(p, "begin")
    /\ UNCHANGED <<stack, log, req, seen, told, issued>>

\* lua_getglobal
Prepares(p) ==
    /\ Inside(p, "begin") /\ To(p, "prepared")
    /\ On(req[p].ref, Append(stack[req[p].ref], Slot("function", <<>>)))
    /\ UNCHANGED <<vars, log, req, seen, told, issued>>

\* Mutant: what is on the stack stays there.
Pushes_keeping(p) ==
    LET r == req[p].ref IN
    /\ Inside(p, "prepared")
    /\ IF req[p].op = "refused" THEN UNCHANGED stack /\ To(p, "badarg")
       ELSE On(r, Append(stack[r], Slot("argument", <<>>))) /\ To(p, "pushed")
    /\ UNCHANGED <<vars, log, req, seen, told, issued>>

\* Mutant: an argument that is refused is tried again.
Pushes_again(p) ==
    LET r == req[p].ref IN
    /\ Inside(p, "prepared") /\ req[p].op # "refused"
    /\ On(r, Append(stack[r], Slot("argument", <<>>))) /\ To(p, "pushed")
    /\ UNCHANGED <<vars, log, req, seen, told, issued>>

\* erlang_to_lua for the arguments; one that is refused empties the stack.
Pushes(p) ==
    LET r == req[p].ref IN
    /\ Inside(p, "prepared")
    /\ IF req[p].op = "refused" THEN On(r, <<>>) /\ To(p, "badarg")
       ELSE On(r, Append(stack[r], Slot("argument", <<>>))) /\ To(p, "pushed")
    /\ UNCHANGED <<vars, log, req, seen, told, issued>>

\* lua_pcall: the callee is below its argument, whoever pushed it.
CalleeThere(r) == Len(stack[r]) > 1 /\ stack[r][Len(stack[r]) - 1].k = "function"
ScriptReads(p) ==
    /\ Inside(p, "pushed") /\ CalleeThere(req[p].ref) /\ To(p, "read")
    /\ seen' = [seen EXCEPT ![p] = log[req[p].ref]]
    /\ UNCHANGED <<vars, stack, log, req, told, issued>>

\* What the call leaves: the result, or the error object, that is popped at once.
ScriptWrites(p) ==
    LET r == req[p].ref
        now == Append(seen[p], req[p].id)
        below == SubSeq(stack[r], 1, Len(stack[r]) - 2)
    IN  /\ Inside(p, "read")
        /\ seen' = [seen EXCEPT ![p] = now] /\ log' = [log EXCEPT ![r] = now]
        /\ IF req[p].op = "raise" THEN On(r, below) /\ To(p, "raised")
           ELSE On(r, Append(below, Slot("result", now))) /\ To(p, "returned")
        /\ UNCHANGED <<vars, req, told, issued>>

\* The answer: all that is on the stack; the last pop empties it.
AnswerOf(p) ==
    CASE at[p] = "badarg" -> <<req[p].id, "badarg", <<>>>>
      [] at[p] = "raised" -> <<req[p].id, "error", <<>>>>
      [] at[p] = "returned" -> <<req[p].id, "ok", stack[req[p].ref]>>

Returns(p) ==
    LET r == req[p].ref IN
    /\ pc[p] = "running" /\ at[p] \in {"badarg", "raised", "returned"}
    /\ CallReturns(p, r) /\ To(p, "out")
    /\ IF at[p] = "returned" THEN On(r, <<>>) ELSE UNCHANGED stack
    /\ told' = IF proc[p] = "alive" THEN [told EXCEPT ![p] = Append(@, AnswerOf(p))] ELSE told
    /\ req' = [req EXCEPT ![p] = NoRequest] /\ seen' = [seen EXCEPT ![p] = <<>>]
    /\ UNCHANGED <<log, issued>>

\* A process that ends; what waited for it in the queue is gone with it.
Ends(p) ==
    /\ Exits(p) /\ req' = [req EXCEPT ![p] = NoRequest]
    /\ UNCHANGED <<stack, log, at, seen, told, issued>>

Engine(p) == Prepares(p) \/ Pushes(p) \/ ScriptReads(p) \/ ScriptWrites(p) \/ Returns(p)

Elsewhere ==
    /\ \/ \E p \in Proc : NewStep(p) \/ KilledInCall(p)
       \/ \E p \in Proc, r \in Ref : NewAllocates(p, r) \/ Receive(p, r) \/ Forget(p, r)
       \/ \E p, q \in Proc, r \in Ref : Send(p, q, r)
       \/ \E r \in Ref : Destroy(r)
    /\ UNCHANGED <<inner, issued>>

SysNext ==
    \/ \E p \in Proc, r \in Ref, op \in Op : Asks(p, r, op)
    \/ \E p \in Proc : Starts(p) \/ Engine(p) \/ Ends(p)
    \/ Elsewhere

SysSpec == SysInit /\ [][SysNext]_sys
\* A free scheduler takes the next job; C code goes on, and scripts end; the
\* runtime runs the destructor.
SysFairSpec ==
    /\ SysSpec
    /\ \A p \in Proc : WF_sys(Starts(p)) /\ WF_sys(Engine(p)) /\ WF_sys(Elsewhere /\ NewStep(p))
    /\ \A r \in Ref : WF_sys(Elsewhere /\ Destroy(r))

(***************************************************************************)
(* Whatever is queued, runs side by side on the schedulers, fails or is    *)
(* killed in between: as long as a Ref is kept or handed over, requests    *)
(* take effect one at a time and once, the answers go to those who asked,  *)
(* and hold the result of their own script and nothing else.               *)
(***************************************************************************)
Decided(p) ==
    CASE at[p] \in {"badarg", "raised"} -> AnswerOf(p)
      [] at[p] = "returned" -> <<req[p].id, "ok", seen[p]>>
      [] OTHER -> <<>>
Abstract == INSTANCE AiluaRequests WITH
    asked <- req, decided <- [p \in Proc |-> Decided(p)],
    told <- [p \in Proc |-> [i \in DOMAIN told[p] |->
                <<told[p][i][1], told[p][i][2],
                  IF Len(told[p][i][3]) = 1 THEN told[p][i][3][1].v ELSE <<>>>>]]
ImplementsRequests == Abstract!Spec

(***************************************************************************)
(* Every request leaves its scheduler, with an answer or with its process. *)
(***************************************************************************)
EveryRequestEnds == \A p \in Proc : req[p] # NoRequest ~> req[p] = NoRequest
=============================================================================

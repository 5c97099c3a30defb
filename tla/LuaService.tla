----------------------------- MODULE LuaService -----------------------------
(***************************************************************************)
(* What ailua promises a client that keeps its part of the contract, with  *)
(* no stack in sight.  Each answer is about the request it answers:        *)
(*   - "ok" holds exactly what the called function returned;               *)
(*   - "error" reports a script that raised (its assignments persist) or a *)
(*     file that could not be loaded;                                      *)
(*   - "badarg" means that no Lua code ran.                                *)
(* Once the client breaks the contract nothing is promised any more.       *)
(***************************************************************************)
EXTENDS LuaValues

CONSTANTS
    Nil,     \* the value of an undefined global
    Key,     \* global names
    Effects, \* the global assignments a script may perform
    Results  \* what a function may return

VARIABLES
    globals,   \* the global table
    answer,    \* the last answer
    inContract \* has the client kept its part so far?

service == <<globals, answer, inContract>>

Say(kind, own) ==
    answer' = [kind |-> kind, results |-> Exact(own), own |-> own]

\* A script ran, to its end or not, and assigned some globals.
ScriptRan ==
    \E effect \in Effects \cup {[k \in {} |-> Nil]} :
        globals' = [k \in Key |->
                      IF k \in DOMAIN effect THEN effect[k] ELSE globals[k]]

Init ==
    /\ globals = [k \in Key |-> Nil]
    /\ answer = [kind |-> "none", results |-> <<>>, own |-> <<>>]
    /\ inContract = TRUE

Loaded == ScriptRan /\ Say("loaded", <<>>)
Answered == ScriptRan /\ \E own \in Results : Say("ok", own)
Failed == ScriptRan /\ Say("error", <<>>)
Rejected == UNCHANGED globals /\ Say("badarg", <<>>)

Serve == /\ inContract /\ inContract'
         /\ Loaded \/ Answered \/ Failed \/ Rejected

ContractBroken == ~inContract'

Next == Serve \/ ContractBroken

Spec == Init /\ [][Next]_service
=============================================================================

--------------------------- MODULE AiluaRequests ----------------------------
(***************************************************************************)
(* What processes that do not share a Ref take ailua for: each request     *)
(* takes effect at one instant between being made and being answered, once,*)
(* on the virtual machine it names, and its answer is about that instant.  *)
(* A process that dies may or may not have had its last request served.    *)
(***************************************************************************)
EXTENDS Naturals, Sequences

CONSTANTS Proc, Ref, Op, NoRequest

VARIABLES
    log,     \* Ref -> the requests whose scripts ran, in their order
    asked,   \* Proc -> its request [id, op, ref], or NoRequest
    decided, \* Proc -> the answer to come, <<>> while it is not served
    told     \* Proc -> its answers so far: <<request, kind, log then>>

rvars == <<log, asked, decided, told>>

Nothing == <<>>
Init ==
    /\ log = [r \in Ref |-> <<>>]
    /\ asked = [p \in Proc |-> NoRequest] /\ decided = [p \in Proc |-> Nothing]
    /\ told = [p \in Proc |-> <<>>]

Request == [id : Nat \ {0}, op : Op, ref : Ref]

Ask(p) ==
    /\ asked[p] = NoRequest
    /\ asked'[p] \in Request /\ asked' = [asked EXCEPT ![p] = asked'[p]]
    /\ UNCHANGED <<log, decided, told>>

Serve(p) ==
    LET q == asked[p]
        ran == Append(log[q.ref], q.id)
    IN  /\ q # NoRequest /\ decided[p] = Nothing
        /\ IF q.op = "refused"
           THEN UNCHANGED log /\ decided' = [decided EXCEPT ![p] = <<q.id, "badarg", <<>>>>]
           ELSE /\ log' = [log EXCEPT ![q.ref] = ran]
                /\ decided' = [decided EXCEPT ![p] =
                                  IF q.op = "raise" THEN <<q.id, "error", <<>>>> ELSE <<q.id, "ok", ran>>]
        /\ UNCHANGED <<asked, told>>

Tell(p) ==
    /\ decided[p] # Nothing
    /\ told' = [told EXCEPT ![p] = Append(@, decided[p])]
    /\ asked' = [asked EXCEPT ![p] = NoRequest] /\ decided' = [decided EXCEPT ![p] = Nothing]
    /\ UNCHANGED log

\* The process is gone, and its request with it, served or not.
Drop(p) ==
    /\ asked' = [asked EXCEPT ![p] = NoRequest] /\ decided' = [decided EXCEPT ![p] = Nothing]
    /\ UNCHANGED <<log, told>>

Next == \E p \in Proc : Ask(p) \/ Serve(p) \/ Tell(p) \/ Drop(p)

Spec == Init /\ [][Next]_rvars
=============================================================================

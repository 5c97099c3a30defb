----------------------------- MODULE AiluaNif ------------------------------
(***************************************************************************)
(* The life of the references ailua hands to Erlang (c_src/ailua_nif.c):   *)
(* the resource object behind a Ref, the Lua virtual machine attached to   *)
(* it, the processes that hold the Ref, and the dirty CPU schedulers that  *)
(* run dofile and gencall.  What happens inside the virtual machine is     *)
(* module AiluaEngine; here it is entered and left.                        *)
(*                                                                         *)
(* The Erlang runtime is external: a resource is destroyed when its last   *)
(* reference is dropped; a process that is killed while a dirty NIF runs   *)
(* for it goes on exiting, its heap kept, until the NIF returns; new/0 and *)
(* new/1 run on a normal scheduler, where nothing interrupts them.         *)
(***************************************************************************)
EXTENDS Naturals, Sequences, FiniteSets, SequencesExt

CONSTANTS
    Proc,    \* Erlang processes
    Ref,     \* resource objects; bound: each is allocated once
    Dirty,   \* number of dirty CPU schedulers
    Sharing, \* what clients do with a Ref: "private", it stays with its
             \*   maker; "handover", it is sent and forgotten; "shared", kept
    NoProc   \* no process

ASSUME NifAssumption ==
    /\ Dirty \in Nat \ {0}
    /\ Ref # {}
    /\ Sharing \in {"private", "handover", "shared"}
    /\ NoProc \notin Proc

VARIABLES
    proc,    \* Proc -> "alive", "exiting" (a dirty NIF still runs) or "gone"
    pc,      \* Proc -> where it is: "idle", "queued" for a dirty scheduler,
             \*   "running" on one, or a stage of ailua_nif_alloc
    arg,     \* Proc -> the Ref its NIF works on, meaningless when idle
    res,     \* Ref -> "unused", "raw" (its field is uninitialised), "set"
             \*   (it points to the virtual machine) or "destroyed"
    vm,      \* Ref -> "none", "loose" (known to ailua_nif_alloc only),
             \*   "open" or "closed"
    cref,    \* Ref -> does the reference of enif_alloc_resource still count?
    holds,   \* Ref -> the processes whose heap has the Ref
    mail,    \* messages <<process, Ref>> not received yet
    queue,   \* the run queue of the dirty CPU schedulers
    running, \* <<process, Ref>>: the dirty NIFs inside a virtual machine
    maker    \* Ref -> the process that made it (history)

vars == <<proc, pc, arg, res, vm, cref, holds, mail, queue, running, maker>>

Stages == {"allocated", "opened", "termed", "released"}

Init ==
    /\ proc = [p \in Proc |-> "alive"]
    /\ pc = [p \in Proc |-> "idle"]
    /\ arg \in [Proc -> {CHOOSE r \in Ref : TRUE}]
    /\ res = [r \in Ref |-> "unused"]
    /\ vm = [r \in Ref |-> "none"]
    /\ cref = [r \in Ref |-> FALSE]
    /\ holds = [r \in Ref |-> {}]
    /\ mail = {}
    /\ queue = <<>>
    /\ running = {}
    /\ maker = [r \in Ref |-> NoProc]

Idle(p) == proc[p] = "alive" /\ pc[p] = "idle"
Creating(p, r) == pc[p] \in Stages /\ arg[p] = r

\* The reference count of the resource is not zero.
Referenced(r) == cref[r] \/ holds[r] # {} \/ \E p \in Proc : <<p, r>> \in mail

-----------------------------------------------------------------------------
(***************************************************************************)
(* ailua_nif_alloc                                                         *)
(***************************************************************************)
\* enif_alloc_resource: one reference, held by the C code.
NewAllocates(p, r) ==
    /\ Idle(p) /\ res[r] = "unused"
    /\ pc' = [pc EXCEPT ![p] = "allocated"]
    /\ arg' = [arg EXCEPT ![p] = r]
    /\ res' = [res EXCEPT ![r] = "raw"]
    /\ cref' = [cref EXCEPT ![r] = TRUE]
    /\ maker' = [maker EXCEPT ![r] = p]
    /\ UNCHANGED <<proc, vm, holds, mail, queue, running>>

\* Mutant: the caller of a failed new is never given control back.
NewFailsForGood(p) ==
    /\ pc[p] = "allocated"
    /\ pc' = [pc EXCEPT ![p] = "failed"]
    /\ UNCHANGED <<proc, arg, res, vm, cref, holds, mail, queue, running, maker>>

\* Mutant: the error path releases the resource, so nothing leaks.
NewFailsReleasing(p) ==
    /\ pc[p] = "allocated"
    /\ pc' = [pc EXCEPT ![p] = "idle"]
    /\ cref' = [cref EXCEPT ![arg[p]] = FALSE]
    /\ UNCHANGED <<proc, arg, res, vm, holds, mail, queue, running, maker>>

\* new(Path) where Path is no binary, or ailua_alloc returns NULL, having
\* closed what it had opened.  The resource is not released.
NewFails(p) ==
    /\ pc[p] = "allocated"
    /\ pc' = [pc EXCEPT ![p] = "idle"]
    /\ UNCHANGED <<proc, arg, res, vm, cref, holds, mail, queue, running, maker>>

\* ailua_alloc returns a virtual machine.
NewOpens(p) ==
    /\ pc[p] = "allocated"
    /\ pc' = [pc EXCEPT ![p] = "opened"]
    /\ vm' = [vm EXCEPT ![arg[p]] = "loose"]
    /\ UNCHANGED <<proc, arg, res, cref, holds, mail, queue, running, maker>>

\* enif_make_resource: the term, in the heap of the caller, is a reference.
NewMakesTerm(p) ==
    /\ pc[p] = "opened"
    /\ pc' = [pc EXCEPT ![p] = "termed"]
    /\ holds' = [holds EXCEPT ![arg[p]] = @ \cup {p}]
    /\ UNCHANGED <<proc, arg, res, vm, cref, mail, queue, running, maker>>

\* Mutant: enif_release_resource is forgotten.
NewKeeps(p) ==
    /\ pc[p] = "termed"
    /\ pc' = [pc EXCEPT ![p] = "released"]
    /\ UNCHANGED <<proc, arg, res, vm, cref, holds, mail, queue, running, maker>>

\* enif_release_resource
NewReleases(p) ==
    /\ pc[p] = "termed"
    /\ pc' = [pc EXCEPT ![p] = "released"]
    /\ cref' = [cref EXCEPT ![arg[p]] = FALSE]
    /\ UNCHANGED <<proc, arg, res, vm, holds, mail, queue, running, maker>>

\* res->ailua = ailua, and {ok, Ref} is returned.
NewReturns(p) ==
    /\ pc[p] = "released"
    /\ pc' = [pc EXCEPT ![p] = "idle"]
    /\ res' = [res EXCEPT ![arg[p]] = "set"]
    /\ vm' = [vm EXCEPT ![arg[p]] = "open"]
    /\ UNCHANGED <<proc, arg, cref, holds, mail, queue, running, maker>>

NewStep(p) ==
    NewFails(p) \/ NewOpens(p) \/ NewMakesTerm(p) \/ NewReleases(p) \/ NewReturns(p)

-----------------------------------------------------------------------------
(***************************************************************************)
(* ailua_nif_dofile and ailua_nif_gencall, on a dirty CPU scheduler        *)
(***************************************************************************)
Call(p, r) ==
    /\ Idle(p) /\ p \in holds[r]
    /\ pc' = [pc EXCEPT ![p] = "queued"]
    /\ arg' = [arg EXCEPT ![p] = r]
    /\ queue' = Append(queue, p)
    /\ UNCHANGED <<proc, res, vm, cref, holds, mail, running, maker>>

\* Mutant: the job is given to a thread and the caller goes on, as with the
\* pool of threads that dirty schedulers replaced.
CallStartsAsync(p) ==
    /\ queue # <<>> /\ p = Head(queue)
    /\ Cardinality(running) < Dirty
    /\ queue' = Tail(queue)
    /\ pc' = [pc EXCEPT ![p] = "idle"]
    /\ running' = running \cup {<<p, arg[p]>>}
    /\ UNCHANGED <<proc, arg, res, vm, cref, holds, mail, maker>>

CallStarts(p) ==
    /\ queue # <<>> /\ p = Head(queue)
    /\ Cardinality(running) < Dirty
    /\ queue' = Tail(queue)
    /\ pc' = [pc EXCEPT ![p] = "running"]
    /\ running' = running \cup {<<p, arg[p]>>}
    /\ UNCHANGED <<proc, arg, res, vm, cref, holds, mail, maker>>

\* What a process that ends leaves: its heap and its mailbox are freed.
Bury(p) ==
    /\ proc' = [proc EXCEPT ![p] = "gone"]
    /\ holds' = [r \in Ref |-> holds[r] \ {p}]
    /\ mail' = {m \in mail : m[1] # p}

\* The NIF returns; a process killed meanwhile ends only now.
CallReturns(p, r) ==
    /\ <<p, r>> \in running
    /\ running' = running \ {<<p, r>>}
    /\ pc' = [pc EXCEPT ![p] = "idle"]
    /\ IF proc[p] = "exiting" THEN Bury(p) ELSE UNCHANGED <<proc, holds, mail>>
    /\ UNCHANGED <<arg, res, vm, cref, queue, maker>>

-----------------------------------------------------------------------------
(***************************************************************************)
(* The processes                                                           *)
(***************************************************************************)
\* p sends a Ref to q.  Bound: one copy of a message is on its way.
Send(p, q, r) ==
    /\ Sharing # "private"
    /\ Idle(p) /\ p \in holds[r] /\ q # p
    /\ mail' = IF proc[q] = "alive" THEN mail \cup {<<q, r>>} ELSE mail
    /\ holds' = IF Sharing = "handover"
                THEN [holds EXCEPT ![r] = @ \ {p}] ELSE holds
    /\ UNCHANGED <<proc, pc, arg, res, vm, cref, queue, running, maker>>

Receive(p, r) ==
    /\ Idle(p) /\ <<p, r>> \in mail
    /\ mail' = mail \ {<<p, r>>}
    /\ holds' = [holds EXCEPT ![r] = @ \cup {p}]
    /\ UNCHANGED <<proc, pc, arg, res, vm, cref, queue, running, maker>>

\* p forgets the Ref and its garbage is collected.
Forget(p, r) ==
    /\ Idle(p) /\ p \in holds[r]
    /\ holds' = [holds EXCEPT ![r] = @ \ {p}]
    /\ UNCHANGED <<proc, pc, arg, res, vm, cref, mail, queue, running, maker>>

\* p exits or is killed, but not within new, before its job has started.
Exits(p) ==
    /\ proc[p] = "alive"
    /\ \/ pc[p] = "idle" /\ UNCHANGED queue
       \/ /\ pc[p] = "queued"
          /\ \E i \in 1..Len(queue) : queue[i] = p /\ queue' = RemoveAt(queue, i)
    /\ Bury(p)
    /\ pc' = [pc EXCEPT ![p] = "idle"]
    /\ UNCHANGED <<arg, res, vm, cref, running, maker>>

\* p is killed while its NIF runs: the NIF goes on, and keeps the heap.
KilledInCall(p) ==
    /\ proc[p] = "alive" /\ pc[p] = "running"
    /\ proc' = [proc EXCEPT ![p] = "exiting"]
    /\ UNCHANGED <<pc, arg, res, vm, cref, holds, mail, queue, running, maker>>

\* The destructor, free_ailua_res: ailua_free closes the virtual machine.
Destroy(r) ==
    /\ res[r] \in {"raw", "set"} /\ ~Referenced(r)
    /\ res' = [res EXCEPT ![r] = "destroyed"]
    /\ vm' = [vm EXCEPT ![r] = IF res[r] = "set" THEN "closed" ELSE @]
    /\ UNCHANGED <<proc, pc, arg, cref, holds, mail, queue, running, maker>>

-----------------------------------------------------------------------------
Next ==
    \/ \E p \in Proc : NewStep(p) \/ CallStarts(p) \/ Exits(p) \/ KilledInCall(p)
    \/ \E p \in Proc, r \in Ref :
         \/ NewAllocates(p, r) \/ Call(p, r) \/ CallReturns(p, r)
         \/ Receive(p, r) \/ Forget(p, r)
         \/ \E q \in Proc : Send(p, q, r)
    \/ \E r \in Ref : Destroy(r)

(* A NIF that was started goes on; scripts end; a dirty scheduler that is  *)
(* free takes the next job; the runtime runs the destructor.  Processes    *)
(* need not call, send, receive, forget or exit.                           *)
Fairness ==
    /\ \A p \in Proc : /\ WF_vars(NewStep(p))
                       /\ WF_vars(CallStarts(p))
                       /\ WF_vars(\E r \in Ref : CallReturns(p, r))
    /\ \A r \in Ref : WF_vars(Destroy(r))

Spec == Init /\ [][Next]_vars
FairSpec == Spec /\ Fairness

\* For the runs without liveness: no process is special.
ProcSymmetry == Permutations(Proc)

-----------------------------------------------------------------------------
(***************************************************************************)
(* Properties.                                                             *)
(***************************************************************************)
\* Every variable has its type.
TypeOK ==
    /\ proc \in [Proc -> {"alive", "exiting", "gone"}]
    /\ pc \in [Proc -> {"idle", "queued", "running"} \cup Stages]
    /\ arg \in [Proc -> Ref]
    /\ res \in [Ref -> {"unused", "raw", "set", "destroyed"}]
    /\ vm \in [Ref -> {"none", "loose", "open", "closed"}]
    /\ cref \in [Ref -> BOOLEAN]
    /\ holds \in [Ref -> SUBSET Proc]
    /\ mail \subseteq Proc \X Ref
    /\ queue \in Seq(Proc)
    /\ running \subseteq Proc \X Ref
    /\ maker \in [Ref -> Proc \cup {NoProc}]

(* No dirty NIF is inside a virtual machine that lua_close has freed, also *)
(* when the process it runs for was killed, and however Refs are shared.   *)
NoUseAfterClose ==
    \A p \in Proc, r \in Ref : <<p, r>> \in running => vm[r] = "open"

(* free_ailua_res never reads res->ailua before ailua_nif_alloc has set    *)
(* it, although the C code gives up its own reference before it does.      *)
DestructorFindsVM ==
    [][\A r \in Ref : res[r] = "raw" => res'[r] # "destroyed"]_vars

(* A resource may leak on the error paths of ailua_nif_alloc, but never    *)
(* with a virtual machine: each one is being made, or closed, or attached  *)
(* to a resource that only Erlang terms keep alive.                        *)
NoVMLeaks ==
    \A r \in Ref :
        /\ vm[r] = "loose" => \E p \in Proc : Creating(p, r)
        /\ vm[r] = "open" => res[r] = "set" /\ ~cref[r]

(* As long as clients hand a Ref over instead of keeping a copy, no two    *)
(* threads are ever inside one virtual machine: a killed process that is   *)
(* still in its call has not passed the Ref on.                            *)
OneThreadPerVM ==
    \A p, q \in Proc, r \in Ref :
        {<<p, r>>, <<q, r>>} \subseteq running => p = q

(* When no process that holds a Ref can use it any more and no message     *)
(* carries it, its virtual machine is closed, also when calls by killed    *)
(* processes are still running.                                            *)
OrphanCloses ==
    \A r \in Ref :
        (/\ vm[r] = "open"
         /\ \A p \in holds[r] : proc[p] # "alive"
         /\ \A p \in Proc : <<p, r>> \notin mail)
            ~> vm[r] = "closed"
=============================================================================

------------------------------- MODULE Startup -------------------------------
(***************************************************************************)
(* Start-up of one CAmkES component.  The control thread and the interface *)
(* threads (and the fault handler thread, when built) meet at two barriers *)
(* made of three counting semaphores; a negative count is the number of    *)
(* waiters.  A passive interface thread has no scheduling context of its   *)
(* own: it runs only while the control thread lends it one.                *)
(***************************************************************************)
EXTENDS Integers, FiniteSets

CONSTANTS Interfaces,  \* interface threads of the component
          Builds       \* build variants: passive interfaces, the fault handler
                       \* thread, interfaces whose __run returns or is missing

Build == [passive : SUBSET Interfaces, fault : SUBSET {"fault"},
          returns : SUBSET Interfaces]

ASSUME StartupAssumption == /\ IsFiniteSet(Interfaces)
                            /\ "control" \notin Interfaces
                            /\ "fault" \notin Interfaces
                            /\ "none" \notin Interfaces
                            /\ Builds \subseteq Build

VARIABLES build,  \* the variant built
          pc,     \* per thread: where it is in post_main
          ipc,    \* per thread: its place in a semaphore's system call
          lock,   \* pre_init_lock, interface_init_lock, post_init_lock
          left,   \* control thread: rounds left of its loop
          todo,   \* control thread: passive threads it has yet to attend to
          sc,     \* who holds the initialisation scheduling context
          ntfn    \* ntfn_passive_init: signalled?

vars == <<build, pc, ipc, lock, left, todo, sc, ntfn>>

Threads == Interfaces \cup {"control", "fault"}
Active  == Interfaces \ build.passive

\* The semaphore calls of post_main and the functions it calls: at which label,
\* on which semaphore, and what comes after.
Waits == [start |-> "pre", end |-> "pre", sync |-> "post", gather |-> "init",
          gatherOne |-> "init", finish |-> "init", aborted |-> "init"]
Posts == [wake |-> "pre", wakeOne |-> "pre", inited |-> "init",
          release |-> "post"]
After == [start |-> "init", end |-> "returned", sync |-> "ready",
          gather |-> "gather", gatherOne |-> "unbind", finish |-> "returned",
          aborted |-> "returned", wake |-> "wake", wakeOne |-> "gatherOne",
          inited |-> "sync", release |-> "release"]
Loops == {"wake", "gather", "release"}

Init ==
  /\ build \in Builds
  /\ pc = [t \in Threads |-> IF t = "control" THEN "preInit"
                             ELSE IF t \in Interfaces \cup build.fault
                               THEN "start" ELSE "absent"]
  /\ ipc = [t \in Threads |-> "none"]
  /\ lock = [s \in {"pre", "init", "post"} |-> 0]
  /\ left = 0
  /\ todo = {}
  /\ sc = "none"
  /\ ntfn = FALSE

CanRun(t)    == t \in build.passive => sc = t
At(t, l)     == CanRun(t) /\ ipc[t] = "none" /\ pc[t] = l
Goto(t, l)   == pc' = [pc EXCEPT ![t] = l]
InLoop(t)    == pc[t] \in Loops => left > 0
CountDown(t) == left' = IF pc[t] \in Loops THEN left - 1 ELSE left
------------------------------------------------------------------------------
(* sync_sem_bare_wait and sync_sem_bare_post.                              *)

sync_sem_bare_wait(t) ==
  /\ CanRun(t) /\ ipc[t] = "none" /\ pc[t] \in DOMAIN Waits /\ InLoop(t)
  /\ LET s == Waits[pc[t]] IN
       /\ lock' = [lock EXCEPT ![s] = @ - 1]
       /\ \/ /\ lock[s] > 0
             /\ Goto(t, After[pc[t]])
             /\ UNCHANGED ipc
          \/ /\ lock[s] <= 0
             /\ ipc' = [ipc EXCEPT ![t] = "enter"]
             /\ UNCHANGED pc
  /\ CountDown(t)
  /\ UNCHANGED <<build, todo, sc, ntfn>>

\* seL4_Recv: from here on the thread is in the endpoint's queue.
Receive(t) ==
  /\ CanRun(t) /\ ipc[t] = "enter"
  /\ ipc' = [ipc EXCEPT ![t] = "recv"]
  /\ UNCHANGED <<build, pc, lock, left, todo, sc, ntfn>>

\* Mutant: the post misses the last waiter.
PostMissesLast(t) ==
  /\ CanRun(t) /\ ipc[t] = "none" /\ pc[t] \in DOMAIN Posts /\ InLoop(t)
  /\ LET s == Posts[pc[t]] IN
       /\ lock' = [lock EXCEPT ![s] = @ + 1]
       /\ \/ /\ lock[s] + 1 >= 0
             /\ Goto(t, After[pc[t]])
             /\ UNCHANGED ipc
          \/ /\ lock[s] + 1 < 0
             /\ ipc' = [ipc EXCEPT ![t] = "send"]
             /\ UNCHANGED pc
  /\ CountDown(t)
  /\ UNCHANGED <<build, todo, sc, ntfn>>

sync_sem_bare_post(t) ==
  /\ CanRun(t) /\ ipc[t] = "none" /\ pc[t] \in DOMAIN Posts /\ InLoop(t)
  /\ LET s == Posts[pc[t]] IN
       /\ lock' = [lock EXCEPT ![s] = @ + 1]
       /\ \/ /\ lock[s] + 1 > 0
             /\ Goto(t, After[pc[t]])
             /\ UNCHANGED ipc
          \/ /\ lock[s] + 1 <= 0
             /\ ipc' = [ipc EXCEPT ![t] = "send"]
             /\ UNCHANGED pc
  /\ CountDown(t)
  /\ UNCHANGED <<build, todo, sc, ntfn>>

\* seL4_Signal on an endpoint is a blocking send: it meets a queued receiver,
\* who takes the message whether or not it has a scheduling context.
Meet(t, u) ==
  /\ ipc[t] = "send" /\ ipc[u] = "recv"
  /\ Posts[pc[t]] = Waits[pc[u]]
  /\ pc' = [pc EXCEPT ![t] = After[pc[t]], ![u] = After[pc[u]]]
  /\ ipc' = [ipc EXCEPT ![t] = "none", ![u] = "none"]
  /\ UNCHANGED <<build, lock, left, todo, sc, ntfn>>
------------------------------------------------------------------------------
(* component_control_main and the two sync functions it calls.             *)

\* Start a loop of n rounds at label l.
Enter(l, n) == /\ Goto("control", l)
               /\ left' = n
               /\ UNCHANGED <<build, ipc, lock, todo, sc, ntfn>>

Attend(l, todo_) == /\ Goto("control", l)
                    /\ todo' = todo_
                    /\ UNCHANGED <<build, ipc, lock, left, sc, ntfn>>

\* Mutant: one wake-up too many.
PreInitWakesMore == /\ At("control", "preInit")
                    /\ Enter("wake", Cardinality(Active \cup build.fault) + 1)

PreInit == /\ At("control", "preInit")
           /\ Enter("wake", Cardinality(Active \cup build.fault))

\* Mutant: one interface is not waited for.
GatherTooFew == /\ At("control", "wake") /\ left = 0
                /\ Enter("gather", IF Active = {} THEN 0
                                   ELSE Cardinality(Active) - 1)

Gather == /\ At("control", "wake") /\ left = 0
          /\ Enter("gather", Cardinality(Active))

Gathered == /\ At("control", "gather") /\ left = 0
            /\ Attend("passives", build.passive)

PassivesInited == /\ At("control", "passives") /\ todo = {}
                  /\ Attend("postInit", {})

PostInit == /\ At("control", "postInit")
            /\ Enter("release", Cardinality(Interfaces))

Released == /\ At("control", "release") /\ left = 0
            /\ Attend("settle", build.passive)

Settled == /\ At("control", "settle") /\ todo = {}
           /\ Attend("run", {})

\* run() returns, or there is none.
RunReturns == At("control", "run") /\ Attend("finish", {})

\* seL4_SchedContext_Bind; its failure ends start-up.
Bind(p) ==
  /\ p \in todo
  /\ \/ At("control", "passives") /\ Goto("control", "wakeOne")
     \/ At("control", "settle") /\ Goto("control", "settleWait")
  /\ sc' = p
  /\ UNCHANGED <<build, ipc, lock, left, todo, ntfn>>

BindFails ==
  /\ todo # {}
  /\ \/ At("control", "passives") /\ Goto("control", "aborted")
     \/ At("control", "settle") /\ Goto("control", "finish")
  /\ UNCHANGED <<build, ipc, lock, left, todo, sc, ntfn>>

Unbind ==
  /\ \/ At("control", "unbind") /\ Goto("control", "passives")
     \/ At("control", "settleUnbind") /\ Goto("control", "settle")
  /\ sc' = "none"
  /\ todo' = todo \ {sc}
  /\ UNCHANGED <<build, ipc, lock, left, ntfn>>

UnbindFails ==
  /\ \/ At("control", "unbind") /\ Goto("control", "aborted")
     \/ At("control", "settleUnbind") /\ Goto("control", "finish")
  /\ UNCHANGED <<build, ipc, lock, left, todo, sc, ntfn>>

\* seL4_Wait on ntfn_passive_init.
SettleWait ==
  /\ At("control", "settleWait")
  /\ ntfn
  /\ ntfn' = FALSE
  /\ Goto("control", "settleUnbind")
  /\ UNCHANGED <<build, ipc, lock, left, todo, sc>>
------------------------------------------------------------------------------
(* Interface threads and the fault handler thread.                         *)

InterfaceInit(t) ==
  /\ At(t, "init")
  /\ Goto(t, IF t = "fault" THEN "handling" ELSE "inited")
  /\ UNCHANGED <<build, ipc, lock, left, todo, sc, ntfn>>

\* __run or __run_passive; a passive thread also signals that it is ready.
InterfaceRun(t) ==
  /\ At(t, "ready")
  /\ Goto(t, IF t \in build.returns THEN "end" ELSE "serve")
  /\ ntfn' = (ntfn \/ t \in build.passive)
  /\ UNCHANGED <<build, ipc, lock, left, todo, sc>>

Control == \/ PreInit \/ Gather \/ Gathered \/ PassivesInited
           \/ PostInit \/ Released \/ Settled
           \/ Unbind \/ SettleWait \/ \E p \in Interfaces : Bind(p)
Step(t) == \/ sync_sem_bare_wait(t) \/ Receive(t) \/ sync_sem_bare_post(t)
           \/ InterfaceInit(t) \/ InterfaceRun(t)

Next == \/ Control \/ RunReturns \/ BindFails \/ UnbindFails
        \/ \E t \in Threads : Step(t)
        \/ \E t, u \in Threads : Meet(t, u)

Spec == Init /\ [][Next]_vars

\* The kernel runs the ready threads of a component, all of one priority, in
\* turn, and an endpoint serves its queue in order.
Fairness == /\ WF_vars(Control)
            /\ \A t \in Threads : WF_vars(Step(t))
            /\ \A t, u \in Threads : WF_vars(Meet(t, u))

FairSpec == Spec /\ Fairness
------------------------------------------------------------------------------
Labels == {"absent", "preInit", "wake", "gather", "passives", "wakeOne",
           "gatherOne", "unbind", "aborted", "postInit", "release", "settle",
           "settleWait", "settleUnbind", "run", "finish", "returned", "start",
           "init", "inited", "sync", "ready", "serve", "end", "handling"}

TypeOK ==
  /\ build \in Builds
  /\ pc \in [Threads -> Labels]
  /\ ipc \in [Threads -> {"none", "enter", "recv", "send"}]
  /\ lock \in [{"pre", "init", "post"} -> Int]
  /\ left \in Nat
  /\ todo \in SUBSET Interfaces
  /\ sc \in Interfaces \cup {"none"}
  /\ ntfn \in BOOLEAN

\* Refinement mapping: what the labels mean for the life cycle.
Phase == CASE pc["control"] = "preInit" -> "pre_init"
           [] pc["control"] \in {"wake", "gather", "passives", "wakeOne",
                                  "gatherOne", "unbind", "aborted"} -> "interface_init"
           [] pc["control"] = "postInit" -> "post_init"
           [] OTHER -> "up"
Inited  == {t \in Interfaces : pc[t] \notin {"start", "init"}}
Serving == {t \in Interfaces : pc[t] \in {"serve", "end", "returned"}}

Lifecycle == INSTANCE Lifecycle WITH phase <- Phase, inited <- Inited,
                                     serving <- Serving

\* The semaphores order start-up as component_control_main means to: no init of
\* an interface before pre_init is over, post_init only after every init, no
\* interface serving before post_init is over, whatever the interleaving.
ImplementsLifecycle == Lifecycle!Spec

\* An interface whose __run returns waits on the semaphore that the fault
\* handler, if there is one, may not have taken its wake-up from yet.
WakeUpsKept == build.fault = {} \/ build.returns = {}

\* "post_main(thread_id); UNREACHABLE();" (main): the wait at the end of
\* post_main holds every thread for ever.
NoThreadReturns == WakeUpsKept => \A t \in Threads : pc[t] # "returned"

\* Every thread gets through start-up: the interfaces serve, the fault handler
\* handles faults and the control thread reaches run.
EveryoneStarts ==
  build.passive = {} /\ WakeUpsKept =>
    <>(/\ pc["control"] \in {"run", "finish"}
       /\ \A t \in Interfaces : pc[t] \in {"serve", "end"}
       /\ \A t \in build.fault : pc[t] = "handling")

\* "Passive threads will receive the IPC despite not having scheduling contexts
\* at this point" (post_init_interface_sync): the control thread that wakes the
\* interfaces gets past its wake-ups.
WakesPassives == (pc["control"] = "release") ~> (pc["control"] # "release")
==============================================================================

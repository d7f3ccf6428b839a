------------------------------ MODULE TickLink ------------------------------
(***************************************************************************)
(* The Scheduler's tick and the seL4Notification connector that delivers   *)
(* it: an interface thread ("run") waits for the notification and either   *)
(* calls the registered callback or posts the handoff semaphore, on which  *)
(* client threads poll, wait, or register a callback.  The Dispatcher as   *)
(* it stands has no client thread that does any of these.                  *)
(*                                                                         *)
(* lock_count with its notification is a binary semaphore, handoff_value   *)
(* with its endpoint a counting one; a negative value counts the waiters.  *)
(***************************************************************************)
EXTENDS Scheduler, FiniteSets

CONSTANTS Clients,  \* threads that use the tick
          None      \* no callback

ASSUME ClientsAssumption == /\ IsFiniteSet(Clients)
                            /\ "run" \notin Clients
                            /\ None \notin Clients

VARIABLES notification,   \* the tick's notification object: signalled?
          lock_count,     \* binary semaphore of the connector
          lock_ntfn,      \* its notification object: signalled?
          handoff_value,  \* counting semaphore of pending ticks
          callback,       \* the registered callback, named by its client
          cb,             \* per thread: the callback it is about to invoke
          pc              \* per thread: where it is

linkVars == <<notification, lock_count, lock_ntfn, handoff_value, callback, cb,
              pc>>
vars     == <<schedVars, linkVars>>

Threads == Clients \cup {"run"}
IntMin  == -IntMax - 1

\* sync_atomic_increment, which wraps; a decrement fails at IntMin instead.
Incr(x) == Wrap(x + 1)

Init ==
  /\ SchedInit
  /\ notification = FALSE
  /\ lock_count = 1
  /\ lock_ntfn = FALSE
  /\ handoff_value = 0
  /\ callback = None
  /\ cb = [t \in Threads |-> None]
  /\ pc = [t \in Threads |-> "idle"]

At(t, label)   == pc[t] = label
Goto(t, label) == pc' = [pc EXCEPT ![t] = label]
------------------------------------------------------------------------------
(* lock() and unlock(): sync_bin_sem_bare_wait and _post.                  *)

Lock(t) ==
  /\ At(t, "lock")
  /\ \/ /\ lock_count = IntMin
        /\ Goto(t, "idle")
        /\ UNCHANGED lock_count
     \/ /\ lock_count > IntMin
        /\ lock_count' = lock_count - 1
        /\ Goto(t, IF lock_count <= 0 THEN "lockWait" ELSE "crit")
  /\ UNCHANGED <<schedVars, notification, lock_ntfn, handoff_value, callback, cb>>

LockWake(t) ==
  /\ At(t, "lockWait")
  /\ lock_ntfn
  /\ lock_ntfn' = FALSE
  /\ Goto(t, "crit")
  /\ UNCHANGED <<schedVars, notification, lock_count, handoff_value, callback,
                 cb>>

\* Where a thread goes once it holds the lock no more.
AfterUnlock(t) == IF cb[t] = None THEN "idle" ELSE "invoke"

\* Mutant: the lock is freed without a look at who waits for it.
UnlockSilent(t) ==
  /\ At(t, "unlock")
  /\ lock_count' = Incr(lock_count)
  /\ Goto(t, AfterUnlock(t))
  /\ UNCHANGED <<schedVars, notification, lock_ntfn, handoff_value, callback, cb>>

\* Mutant: the lock's notification is signalled although no thread waits.
UnlockAlways(t) ==
  /\ At(t, "unlock")
  /\ lock_count' = Incr(lock_count)
  /\ Goto(t, "unlockSignal")
  /\ UNCHANGED <<schedVars, notification, lock_ntfn, handoff_value, callback, cb>>

Unlock(t) ==
  /\ At(t, "unlock")
  /\ lock_count' = Incr(lock_count)
  /\ Goto(t, IF Incr(lock_count) <= 0 THEN "unlockSignal" ELSE AfterUnlock(t))
  /\ UNCHANGED <<schedVars, notification, lock_ntfn, handoff_value, callback, cb>>

UnlockSignal(t) ==
  /\ At(t, "unlockSignal")
  /\ lock_ntfn' = TRUE
  /\ Goto(t, AfterUnlock(t))
  /\ UNCHANGED <<schedVars, notification, lock_count, handoff_value, callback,
                 cb>>

Invoke(t) ==
  /\ At(t, "invoke")
  /\ cb' = [cb EXCEPT ![t] = None]
  /\ Goto(t, "idle")
  /\ UNCHANGED <<schedVars, notification, lock_count, lock_ntfn, handoff_value,
                 callback>>
------------------------------------------------------------------------------
(* hw_tick__run, the interface thread.                                     *)

RunWait ==
  /\ At("run", "idle")
  /\ notification
  /\ notification' = FALSE
  /\ Goto("run", "lock")
  /\ UNCHANGED <<schedVars, lock_count, lock_ntfn, handoff_value, callback, cb>>

\* Mutant: the callback is cleared before it is read.
RunClearCallback ==
  /\ At("run", "crit")
  /\ callback' = None
  /\ Goto("run", "check")
  /\ UNCHANGED <<schedVars, notification, lock_count, lock_ntfn, handoff_value, cb>>

RunTakeCallback ==
  /\ At("run", "crit")
  /\ cb' = [cb EXCEPT !["run"] = callback]
  /\ callback' = None
  /\ Goto("run", IF callback = None THEN "check" ELSE "unlock")
  /\ UNCHANGED <<schedVars, notification, lock_count, lock_ntfn, handoff_value>>

\* Mutant: no test for a full semaphore.
RunCheckNothing ==
  /\ At("run", "check")
  /\ Goto("run", "post")
  /\ UNCHANGED <<schedVars, notification, lock_count, lock_ntfn, handoff_value,
                 callback, cb>>

RunCheck ==
  /\ At("run", "check")
  /\ Goto("run", IF handoff_value # IntMax THEN "post" ELSE "unlock")
  /\ UNCHANGED <<schedVars, notification, lock_count, lock_ntfn, handoff_value,
                 callback, cb>>

\* Mutant: the post misses the last waiter.
RunPostOld ==
  /\ At("run", "post")
  /\ handoff_value' = Incr(handoff_value)
  /\ Goto("run", IF Incr(handoff_value) < 0 THEN "signal" ELSE "unlock")
  /\ UNCHANGED <<schedVars, notification, lock_count, lock_ntfn, callback, cb>>

RunPost ==
  /\ At("run", "post")
  /\ handoff_value' = Incr(handoff_value)
  /\ Goto("run", IF Incr(handoff_value) <= 0 THEN "signal" ELSE "unlock")
  /\ UNCHANGED <<schedVars, notification, lock_count, lock_ntfn, callback, cb>>

\* seL4_Signal on an endpoint is a blocking send: it meets a receiver.
RunSignal(c) ==
  /\ At("run", "signal")
  /\ At(c, "semRecv")
  /\ pc' = [pc EXCEPT !["run"] = "unlock", ![c] = "idle"]
  /\ UNCHANGED <<schedVars, notification, lock_count, lock_ntfn, handoff_value,
                 callback, cb>>
------------------------------------------------------------------------------
(* hw_tick_poll, hw_tick_wait and hw_tick_reg_callback, called by clients. *)

Poll(c) ==
  /\ At(c, "idle")
  /\ handoff_value > 0
  /\ handoff_value' = handoff_value - 1
  /\ UNCHANGED <<schedVars, notification, lock_count, lock_ntfn, callback, cb, pc>>

\* Mutant: the decrement is not the safe one.
WaitUnsafe(c) ==
  /\ At(c, "idle")
  /\ handoff_value' = handoff_value - 1
  /\ Goto(c, IF handoff_value <= 0 THEN "semRecv" ELSE "idle")
  /\ UNCHANGED <<schedVars, notification, lock_count, lock_ntfn, callback, cb>>

Wait(c) ==
  /\ At(c, "idle")
  /\ handoff_value > IntMin    \* or CE_OVERFLOW is reported and nothing done
  /\ handoff_value' = handoff_value - 1
  /\ Goto(c, IF handoff_value <= 0 THEN "semRecv" ELSE "idle")
  /\ UNCHANGED <<schedVars, notification, lock_count, lock_ntfn, callback, cb>>

\* Take a pending tick, and remember to invoke one's own callback.
TakePending(c, found) ==
  /\ handoff_value > 0
  /\ handoff_value' = handoff_value - 1
  /\ cb' = [cb EXCEPT ![c] = c]
  /\ Goto(c, found)

NonePending(c, label) ==
  /\ handoff_value <= 0
  /\ Goto(c, label)
  /\ UNCHANGED <<handoff_value, cb>>

RegFirstPoll(c) ==
  /\ At(c, "idle")
  /\ TakePending(c, "invoke") \/ NonePending(c, "lock")
  /\ UNCHANGED <<schedVars, notification, lock_count, lock_ntfn, callback>>

\* Mutant: no second poll under the lock.
RegNoSecondPoll(c) ==
  /\ At(c, "crit")
  /\ Goto(c, "slot")
  /\ UNCHANGED <<schedVars, notification, lock_count, lock_ntfn, handoff_value,
                 callback, cb>>

RegSecondPoll(c) ==
  /\ At(c, "crit")
  /\ TakePending(c, "unlock") \/ NonePending(c, "slot")
  /\ UNCHANGED <<schedVars, notification, lock_count, lock_ntfn, callback>>

\* Mutant: a registered callback is replaced.
RegOverwrites(c) ==
  /\ At(c, "slot")
  /\ callback' = c
  /\ Goto(c, "unlock")
  /\ UNCHANGED <<schedVars, notification, lock_count, lock_ntfn, handoff_value,
                 cb>>

RegSlot(c) ==
  /\ At(c, "slot")
  /\ callback' = IF callback = None THEN c ELSE callback
  /\ Goto(c, "unlock")
  /\ UNCHANGED <<schedVars, notification, lock_count, lock_ntfn, handoff_value,
                 cb>>
------------------------------------------------------------------------------
\* The Scheduler's loop; hw_tick_emit signals the notification.
SchedStart == StartDelay /\ UNCHANGED linkVars
SchedSpin  == Spin /\ UNCHANGED linkVars
SchedTick  == /\ EndDelay
              /\ notification' = TRUE
              /\ UNCHANGED <<lock_count, lock_ntfn, handoff_value, callback, cb,
                             pc>>
SetQuantum == ctrl_set_quantum /\ UNCHANGED linkVars

Sched      == SchedStart \/ SchedSpin \/ SchedTick
LockOps(t) == Lock(t) \/ LockWake(t) \/ Unlock(t) \/ UnlockSignal(t) \/ Invoke(t)
Run        == \/ RunWait
              \/ RunTakeCallback
              \/ RunCheck
              \/ RunPost
              \/ \E c \in Clients : RunSignal(c)
Client(c)  == \/ Poll(c)
              \/ Wait(c)
              \/ RegFirstPoll(c)
              \/ RegSecondPoll(c)
              \/ RegSlot(c)

Next == \/ Sched
        \/ SetQuantum
        \/ Run
        \/ \E t \in Threads : LockOps(t)
        \/ \E c \in Clients : Client(c)

Spec == Init /\ [][Next]_vars

\* The kernel runs every ready thread of equal priority in turn; notification
\* objects and endpoints wake their waiters in the order in which they came, so
\* none is passed over for ever.
\* No client is obliged to start an operation, only to finish it.
Fairness ==
  /\ WF_vars(Sched)
  /\ WF_vars(Run)
  /\ \A c \in Clients : SF_vars(RunSignal(c))
  /\ \A t \in Threads : /\ WF_vars(Lock(t))
                        /\ SF_vars(LockWake(t))
                        /\ WF_vars(Unlock(t) \/ UnlockSignal(t) \/ Invoke(t))
  /\ \A c \in Clients : WF_vars(RegSecondPoll(c) \/ RegSlot(c))

FairSpec == Spec /\ Fairness
------------------------------------------------------------------------------
Holding == {"crit", "check", "post", "signal", "slot", "unlock"}
Holds(t) == pc[t] \in Holding

Labels == Holding \cup {"idle", "lock", "lockWait", "unlockSignal", "invoke",
                        "semRecv"}

TypeOK ==
  /\ current_quantum_ms \in Uint32Range
  /\ sched \in [waiting : BOOLEAN, delay : Nat, i : Nat]
  /\ notification \in BOOLEAN
  /\ lock_count \in IntRange
  /\ lock_ntfn \in BOOLEAN
  /\ handoff_value \in IntRange
  /\ callback \in Clients \cup {None}
  /\ cb \in [Threads -> Clients \cup {None}]
  /\ pc \in [Threads -> Labels]

\* The lock built from an atomic counter and a notification object excludes:
\* at most one thread is between lock() and unlock().
LockExcludes == \A t, u \in Threads : Holds(t) /\ Holds(u) => t = u

\* "avoid reaching a state where there is both a registered callback and a
\* pending notification" (the connector's header): reg_callback polls again
\* under the lock, and the interface thread posts only with an empty slot.
NoCallbackWithPending == callback # None => handoff_value <= 0

\* The assertions of the two semaphores: the handoff semaphore is not full when
\* the interface thread posts it, though clients moved it since the test ("there
\* is no race condition here"), and the lock's count never exceeds 1.
SemaphoreAssertions ==
  /\ At("run", "post") => handoff_value < IntMax
  /\ lock_count <= 1

\* The handoff semaphore counts its sleepers: a negative value is the number of
\* clients asleep in hw_tick_wait that no post has been made for.
SleepersCounted ==
  Cardinality({c \in Clients : At(c, "semRecv")}) =
    (IF handoff_value < 0 THEN -handoff_value ELSE 0)
      + (IF At("run", "signal") THEN 1 ELSE 0)

\* A registered callback leaves its slot only into the hands of the interface
\* thread that will invoke it: no second registration overwrites it.
CallbackKept ==
  [][callback # None /\ callback' # callback
       => callback' = None /\ cb'["run"] = callback]_vars

\* The interface thread is never stuck: each tick signalled to it is taken,
\* whatever the clients do with the lock and the semaphore.
TicksTaken == notification ~> ~notification

\* A registered callback is invoked, by a later tick.
CallbackInvoked ==
  \A c \in Clients :
    (callback = c) ~> (\E t \in Threads : At(t, "invoke") /\ cb[t] = c)

\* A client asleep in hw_tick_wait wakes, unless callbacks, which the connector
\* prefers, go on taking the ticks.
SleeperWakes ==
  <>[](callback = None) =>
    \A c \in Clients : At(c, "semRecv") ~> At(c, "idle")

\* The Scheduler ticks for ever, however often set_quantum changes the quantum
\* under its loop: the bound of the loop is read once.
TicksForever == []<><<SchedTick>>_vars

\* Once nobody takes them any more, ticks pile up in the handoff semaphore to
\* INT_MAX and stay there: the count neither wraps nor blocks the interface
\* thread, whatever sleepers and callbacks the clients left behind.
PendingSaturates ==
  ~([]<><<\E c \in Clients : Client(c)>>_vars) => <>[](handoff_value = IntMax)
==============================================================================

--------------------------- MODULE TickLinkProofs ---------------------------
(***************************************************************************)
(* Proofs about TickLink, for every number of clients and every width of   *)
(* int: types, mutual exclusion of the connector's lock, the header's      *)
(* intent about callbacks and pending ticks, and the semaphores' counts.   *)
(***************************************************************************)
EXTENDS TickLink, FiniteSetTheorems, TLAPS

LEMMA Ranges == /\ IntMax \in Nat
                /\ IntMax >= 1
                /\ IntMin \in Int
                /\ IntMin = -IntMax - 1
                /\ IntRange = IntMin..IntMax
                /\ \A x \in IntRange : /\ Incr(x) \in IntRange
                                       /\ x < IntMax => Incr(x) = x + 1
                                       /\ x > IntMin => x - 1 \in IntRange
BY IntMaxAssumption DEF IntMin, IntRange, Incr, Wrap, WordSize

\* The Scheduler's own variables keep their types, whatever its quantum.
LEMMA SchedType ==
  ASSUME current_quantum_ms \in Uint32Range,
         sched \in [waiting : BOOLEAN, delay : Nat, i : Nat],
         Sched \/ SetQuantum
  PROVE  /\ current_quantum_ms' \in Uint32Range
         /\ sched' \in [waiting : BOOLEAN, delay : Nat, i : Nat]
<1>0. /\ Uint32Range \subseteq Nat
      /\ Loops \in Nat
      /\ \A m \in Quanta : ToUint32(m) \in Uint32Range
  BY IntMaxAssumption, SchedulerAssumption
     DEF Uint32Range, IntRange, WordSize, ToUint32
<1>1. current_quantum_ms * Loops \in Nat
  BY <1>0
<1>2. CASE SchedStart
  BY <1>1, <1>2, Zenon DEF SchedStart, StartDelay
<1>3. CASE SchedSpin
  BY <1>3 DEF SchedSpin, Spin
<1>4. CASE SchedTick
  BY <1>4, Zenon DEF SchedTick, EndDelay
<1>5. CASE SetQuantum
  BY <1>0, <1>5, Zenon DEF SetQuantum, ctrl_set_quantum
<1> QED
  BY <1>2, <1>3, <1>4, <1>5 DEF Sched

\* What a step does to the connector's variables when it is not a step of it.
LEMMA SchedLink ==
  ASSUME Sched \/ SetQuantum \/ UNCHANGED vars
  PROVE  /\ UNCHANGED <<lock_count, lock_ntfn, handoff_value, callback, cb, pc>>
         /\ notification' = TRUE \/ notification' = notification
<1>1. CASE UNCHANGED linkVars
  BY <1>1 DEF linkVars
<1>2. CASE SchedTick
  BY <1>2 DEF SchedTick
<1> QED
  BY <1>1, <1>2, Zenon DEF Sched, SetQuantum, SchedStart, SchedSpin, vars

LinkTypeOK ==
  /\ notification \in BOOLEAN
  /\ lock_count \in IntRange
  /\ lock_ntfn \in BOOLEAN
  /\ handoff_value \in IntRange
  /\ callback \in Clients \cup {None}
  /\ cb \in [Threads -> Clients \cup {None}]
  /\ pc \in [Threads -> Labels]

LEMMA InitType == Init => TypeOK
<1> SUFFICES ASSUME Init PROVE TypeOK
  OBVIOUS
<1>1. 0 \in IntRange /\ 1 \in IntRange
  BY Ranges
<1>2. /\ current_quantum_ms \in Uint32Range
      /\ sched \in [waiting : BOOLEAN, delay : Nat, i : Nat]
  BY SchedulerAssumption, Zenon DEF Init, SchedInit
<1>3. LinkTypeOK
  BY <1>1, Zenon DEF Init, LinkTypeOK, Labels
<1> QED
  BY <1>2, <1>3, Zenon DEF TypeOK, LinkTypeOK

LEMMA LinkType ==
  ASSUME LinkTypeOK, [Next]_vars
  PROVE  LinkTypeOK'
<1> USE DEF LinkTypeOK
<1>0. /\ "run" \in Threads
      /\ Clients \subseteq Threads
  BY DEF Threads
<1>1. CASE Sched \/ SetQuantum \/ UNCHANGED vars
  BY <1>1, SchedLink
<1>2. CASE Run
  <2>1. CASE RunWait
    BY <2>1, <1>0, Zenon DEF RunWait, Goto, Labels
  <2>2. CASE RunTakeCallback
    BY <2>2, <1>0, Zenon DEF RunTakeCallback, Goto, Labels, Holding
  <2>3. CASE RunCheck
    BY <2>3, <1>0, Zenon DEF RunCheck, Goto, Labels, Holding
  <2>4. CASE RunPost
    BY <2>4, <1>0, Ranges, Zenon DEF RunPost, Goto, Labels, Holding
  <2>5. ASSUME NEW c \in Clients, RunSignal(c) PROVE LinkTypeOK'
    BY <2>5, <1>0, Zenon DEF RunSignal, Labels, Holding
  <2> QED
    BY <1>2, <2>1, <2>2, <2>3, <2>4, <2>5 DEF Run
<1>3. ASSUME NEW t \in Threads, LockOps(t) PROVE LinkTypeOK'
  <2>0. AfterUnlock(t) \in Labels
    BY Zenon DEF AfterUnlock, Labels
  <2>1. CASE Lock(t)
    BY <2>1, Ranges, Zenon DEF Lock, Goto, Labels, Holding
  <2>2. CASE LockWake(t)
    BY <2>2, Zenon DEF LockWake, Goto, Labels, Holding
  <2>3. CASE Unlock(t)
    BY <2>0, <2>3, Ranges, Zenon DEF Unlock, Goto, Labels
  <2>4. CASE UnlockSignal(t)
    BY <2>0, <2>4, Zenon DEF UnlockSignal, Goto
  <2>5. CASE Invoke(t)
    BY <2>5, Zenon DEF Invoke, Goto, Labels
  <2> QED
    BY <1>3, <2>1, <2>2, <2>3, <2>4, <2>5 DEF LockOps
<1>4. ASSUME NEW c \in Clients, Client(c) PROVE LinkTypeOK'
  <2>0. handoff_value > 0 => handoff_value - 1 \in IntRange
    BY Ranges DEF IntRange
  <2>1. CASE Poll(c)
    BY <2>0, <2>1 DEF Poll
  <2>2. CASE Wait(c)
    BY <2>2, <1>0, Ranges, Zenon DEF Wait, Goto, Labels
  <2>3. CASE RegFirstPoll(c)
    BY <2>0, <2>3, <1>0
       DEF RegFirstPoll, TakePending, NonePending, Goto, Labels
  <2>4. CASE RegSecondPoll(c)
    BY <2>0, <2>4, <1>0
       DEF RegSecondPoll, TakePending, NonePending, Goto, Labels, Holding
  <2>5. CASE RegSlot(c)
    BY <2>5, <1>0, Zenon DEF RegSlot, Goto, Labels, Holding
  <2> QED
    BY <1>4, <2>1, <2>2, <2>3, <2>4, <2>5 DEF Client
<1> QED
  BY <1>1, <1>2, <1>3, <1>4 DEF Next

LEMMA NextType == TypeOK /\ [Next]_vars => TypeOK'
<1> SUFFICES ASSUME TypeOK, [Next]_vars PROVE TypeOK'
  OBVIOUS
<1>1. LinkTypeOK'
  BY LinkType, Zenon DEF TypeOK, LinkTypeOK
<1>2. /\ current_quantum_ms' \in Uint32Range
      /\ sched' \in [waiting : BOOLEAN, delay : Nat, i : Nat]
  <2>1. CASE Sched \/ SetQuantum
    BY <2>1, SchedType DEF TypeOK
  <2>2. CASE UNCHANGED schedVars
    BY <2>2, Zenon DEF schedVars, TypeOK
  <2>3. Run \/ (\E t \in Threads : LockOps(t)) \/ (\E c \in Clients : Client(c))
          => UNCHANGED schedVars
    BY Zenon DEF Run, RunWait, RunTakeCallback, RunCheck, RunPost, RunSignal,
      LockOps, Lock, LockWake, Unlock, UnlockSignal, Invoke, Client, Poll,
      Wait, RegFirstPoll, RegSecondPoll, RegSlot
  <2> QED
    BY <2>1, <2>2, <2>3, Zenon DEF Next, vars
<1> QED
  BY <1>1, <1>2, Zenon DEF TypeOK, LinkTypeOK

\* Every variable of the connector and of the Scheduler keeps its C type: no
\* counter leaves the range of an int.
THEOREM TypeCorrect == Spec => []TypeOK
BY InitType, NextType, PTL DEF Spec
------------------------------------------------------------------------------
(* Mutual exclusion.  The right to the lock is with a holder, with a thread *)
(* about to signal the lock's notification, or in that notification; the   *)
(* count is 1 less the threads that hold the lock or sleep on it.          *)

Asleep(t)   == At(t, "lockWait")
Handing(t)  == At(t, "unlockSignal")
Contenders  == {t \in Threads : Holds(t) \/ Asleep(t)}

LockInv ==
  /\ lock_count = 1 - Cardinality(Contenders)
  /\ \A t, u \in Threads :
       (Holds(t) \/ Handing(t)) /\ (Holds(u) \/ Handing(u)) => t = u
  /\ lock_ntfn => \A t \in Threads : ~Holds(t) /\ ~Handing(t)
  /\ lock_ntfn \/ (\E t \in Threads : Handing(t)) => \E t \in Threads : Asleep(t)
  /\ (\E t \in Threads : Asleep(t))
       => lock_ntfn \/ \E t \in Threads : Holds(t) \/ Handing(t)

LEMMA FiniteContenders ==
  /\ IsFiniteSet(Contenders)
  /\ Cardinality(Contenders) \in Nat
  /\ Cardinality(Contenders) = 0 <=> Contenders = {}
<1>1. IsFiniteSet(Threads)
  BY ClientsAssumption, FS_AddElement DEF Threads
<1>2. Contenders \in SUBSET Threads
  BY DEF Contenders
<1>3. IsFiniteSet(Contenders)
  BY <1>1, <1>2, FS_Subset
<1> QED
  BY <1>3, FS_CardinalityType, FS_EmptySet

\* What a step does to a thread when it leaves the lock alone.
Calm == {"idle", "lock", "invoke", "semRecv"}

Steady(t) == \/ pc'[t] = pc[t]
             \/ pc[t] \in Calm /\ pc'[t] \in Calm
             \/ pc[t] \in Holding /\ pc'[t] \in Holding

\* A step that leaves the lock alone keeps the invariant.
LEMMA LockFrame ==
  ASSUME LockInv,
         lock_count' = lock_count,
         lock_ntfn' = lock_ntfn,
         \A t \in Threads : Steady(t)
  PROVE  LockInv'
<1>1. \A t \in Threads : /\ Holds(t)' <=> Holds(t)
                         /\ Asleep(t)' <=> Asleep(t)
                         /\ Handing(t)' <=> Handing(t)
  BY Zenon DEF Steady, Calm, Holds, Holding, Asleep, Handing, At
<1>2. Contenders' = Contenders
  BY <1>1 DEF Contenders
<1>3. Cardinality(Contenders)' = Cardinality(Contenders)
  BY <1>2
<1> QED
  BY <1>1, <1>3 DEF LockInv

\* The places of the threads after thread t has gone from label a to label b.
LEMMA Moves ==
  ASSUME pc \in [Threads -> Labels], NEW t \in Threads, NEW b, Goto(t, b)
  PROVE  /\ \A u \in Threads \ {t} : pc'[u] = pc[u]
         /\ pc'[t] = b
BY DEF Goto

LEMMA LockStep ==
  ASSUME LinkTypeOK, LockInv, NEW t \in Threads, Lock(t)
  PROVE  LockInv'
<1>0. ~Holds(t) /\ ~Asleep(t) /\ ~Handing(t) /\ t \notin Contenders
  BY Zenon DEF Lock, At, Holds, Holding, Asleep, Handing, Contenders
<1>1. CASE lock_count = IntMin
  <2>1. UNCHANGED <<lock_count, lock_ntfn>> /\ Goto(t, "idle")
    BY <1>1, Ranges DEF Lock
  <2>2. \A u \in Threads : Steady(u)
    BY <2>1, Moves, Zenon DEF Lock, LinkTypeOK, Steady, Calm, At
  <2> QED
    BY <2>1, <2>2, LockFrame
<1>2. CASE lock_count # IntMin
  <2> DEFINE to == IF lock_count <= 0 THEN "lockWait" ELSE "crit"
  <2>1. /\ lock_count' = lock_count - 1
        /\ lock_ntfn' = lock_ntfn
        /\ Goto(t, to)
    BY <1>2 DEF Lock
  <2>2. /\ \A u \in Threads \ {t} : pc'[u] = pc[u]
        /\ pc'[t] = to
    BY <2>1, Moves DEF LinkTypeOK
  <2>3. Contenders' = Contenders \cup {t}
    BY <2>2, Zenon DEF Contenders, Holds, Holding, Asleep, At
  <2>4. Cardinality(Contenders') = Cardinality(Contenders) + 1
    BY <2>3, <1>0, FiniteContenders, FS_AddElement
  <2>5. lock_count' = 1 - Cardinality(Contenders')
    BY <2>1, <2>4, FiniteContenders DEF LockInv
  <2>6. \A u \in Threads \ {t} : /\ Holds(u)' <=> Holds(u)
                                 /\ Asleep(u)' <=> Asleep(u)
                                 /\ Handing(u)' <=> Handing(u)
    BY <2>2, Zenon DEF Holds, Asleep, Handing, At
  <2>7. CASE lock_count <= 0
    <3>1. ~Holds(t)' /\ Asleep(t)' /\ ~Handing(t)'
      BY <2>2, <2>7, Zenon DEF Holds, Holding, Asleep, Handing, At
    <3>2. Contenders # {}
      BY <2>7, FiniteContenders DEF LockInv
    <3>3. lock_ntfn \/ \E u \in Threads : Holds(u) \/ Handing(u)
      BY <3>2, Zenon DEF LockInv, Contenders
    <3> QED
      BY <2>1, <2>5, <2>6, <3>1, <3>3, <1>0 DEF LockInv
  <2>8. CASE lock_count > 0
    <3>0. Cardinality(Contenders) = 0
      BY <2>8, FiniteContenders DEF LockInv
    <3>1. Contenders = {}
      BY <3>0, FiniteContenders
    <3>2. \A u \in Threads : ~Holds(u) /\ ~Asleep(u)
      BY <3>1 DEF Contenders
    <3>3. ~lock_ntfn /\ \A u \in Threads : ~Handing(u)
      BY <3>2 DEF LockInv
    <3>4. Holds(t)' /\ ~Asleep(t)' /\ ~Handing(t)'
      <4>1. pc'[t] = "crit"
        BY <2>2, <2>8, Ranges DEF LinkTypeOK
      <4> QED
        BY <4>1, Zenon DEF Holds, Holding, Asleep, Handing, At
    <3> QED
      BY <2>1, <2>5, <2>6, <3>2, <3>3, <3>4 DEF LockInv
  <2> QED
    BY <2>7, <2>8, Ranges DEF LinkTypeOK
<1> QED
  BY <1>1, <1>2

LEMMA LockWakeStep ==
  ASSUME LinkTypeOK, LockInv, NEW t \in Threads, LockWake(t)
  PROVE  LockInv'
<1>1. /\ Asleep(t) /\ ~Holds(t) /\ ~Handing(t)
      /\ lock_ntfn /\ ~lock_ntfn'
      /\ lock_count' = lock_count
      /\ Goto(t, "crit")
  BY Zenon DEF LockWake, At, Asleep, Holds, Holding, Handing
<1>2. /\ \A u \in Threads \ {t} : pc'[u] = pc[u]
      /\ pc'[t] = "crit"
  BY <1>1, Moves DEF LinkTypeOK
<1>3. Holds(t)' /\ ~Asleep(t)' /\ ~Handing(t)'
  BY <1>2, Zenon DEF Holds, Holding, Asleep, Handing, At
<1>4. \A u \in Threads \ {t} : /\ Holds(u)' <=> Holds(u)
                               /\ Asleep(u)' <=> Asleep(u)
                               /\ Handing(u)' <=> Handing(u)
  BY <1>2, Zenon DEF Holds, Asleep, Handing, At
<1>5. Contenders' = Contenders
  BY <1>1, <1>3, <1>4 DEF Contenders
<1>6. lock_count' = 1 - Cardinality(Contenders')
  BY <1>1, <1>5 DEF LockInv
<1>7. \A u \in Threads : ~Holds(u) /\ ~Handing(u)
  BY <1>1 DEF LockInv
<1> QED
  BY <1>1, <1>3, <1>4, <1>6, <1>7 DEF LockInv

LEMMA UnlockStep ==
  ASSUME LinkTypeOK, LockInv, NEW t \in Threads, Unlock(t)
  PROVE  LockInv'
<1> DEFINE to == IF Incr(lock_count) <= 0 THEN "unlockSignal" ELSE AfterUnlock(t)
<1>1. /\ Holds(t) /\ ~Asleep(t) /\ ~Handing(t)
      /\ lock_count' = Incr(lock_count)
      /\ lock_ntfn' = lock_ntfn
      /\ Goto(t, to)
  BY Zenon DEF Unlock, At, Asleep, Holds, Holding, Handing
<1>2. /\ \A u \in Threads \ {t} : pc'[u] = pc[u]
      /\ pc'[t] = to
  BY <1>1, Moves DEF LinkTypeOK
<1>3. ~Holds(t)' /\ ~Asleep(t)' /\ (Handing(t)' <=> Incr(lock_count) <= 0)
  BY <1>2, Zenon DEF Holds, Holding, Asleep, Handing, At, AfterUnlock
<1>4. \A u \in Threads \ {t} : /\ Holds(u)' <=> Holds(u)
                               /\ Asleep(u)' <=> Asleep(u)
                               /\ Handing(u)' <=> Handing(u)
  BY <1>2, Zenon DEF Holds, Asleep, Handing, At
<1>5. Contenders' = Contenders \ {t} /\ t \in Contenders
  BY <1>1, <1>3, <1>4 DEF Contenders
<1>6. /\ Cardinality(Contenders') = Cardinality(Contenders) - 1
      /\ IsFiniteSet(Contenders')
  BY <1>5, FiniteContenders, FS_RemoveElement
<1>7. Cardinality(Contenders) >= 1
  BY <1>5, FiniteContenders
<1>8. Incr(lock_count) = lock_count + 1
  BY <1>7, FiniteContenders, Ranges DEF LockInv, LinkTypeOK
<1>9. lock_count' = 1 - Cardinality(Contenders')
  BY <1>1, <1>6, <1>8, FiniteContenders DEF LockInv
<1>10. /\ ~lock_ntfn'
       /\ \A u \in Threads \ {t} : ~Holds(u) /\ ~Handing(u)
  BY <1>1 DEF LockInv
<1>11. Contenders' # {} <=> Incr(lock_count) <= 0
  <2>1. Cardinality(Contenders') = 0 <=> Contenders' = {}
    BY <1>6, FS_EmptySet
  <2>2. Cardinality(Contenders') \in Nat
    BY <1>6, FS_CardinalityType
  <2> QED
    BY <1>1, <1>9, <2>1, <2>2
<1>12. (\E u \in Threads : Asleep(u)') <=> Contenders' # {}
  BY <1>3, <1>4, <1>10 DEF Contenders
<1>13. (\E u \in Threads : Asleep(u)') <=> Handing(t)'
  BY <1>3, <1>11, <1>12
<1> QED
  BY <1>3, <1>4, <1>9, <1>10, <1>13 DEF LockInv

LEMMA UnlockSignalStep ==
  ASSUME LinkTypeOK, LockInv, NEW t \in Threads, UnlockSignal(t)
  PROVE  LockInv'
<1>1. /\ Handing(t) /\ ~Holds(t) /\ ~Asleep(t)
      /\ lock_ntfn'
      /\ lock_count' = lock_count
      /\ Goto(t, AfterUnlock(t))
  BY Zenon DEF UnlockSignal, At, Asleep, Holds, Holding, Handing
<1>2. /\ \A u \in Threads \ {t} : pc'[u] = pc[u]
      /\ pc'[t] = AfterUnlock(t)
  BY <1>1, Moves DEF LinkTypeOK
<1>3. ~Holds(t)' /\ ~Asleep(t)' /\ ~Handing(t)'
  BY <1>2, Zenon DEF Holds, Holding, Asleep, Handing, At, AfterUnlock
<1>4. \A u \in Threads \ {t} : /\ Holds(u)' <=> Holds(u)
                               /\ Asleep(u)' <=> Asleep(u)
                               /\ Handing(u)' <=> Handing(u)
  BY <1>2, Zenon DEF Holds, Asleep, Handing, At
<1>5. Contenders' = Contenders
  BY <1>1, <1>3, <1>4 DEF Contenders
<1>6. lock_count' = 1 - Cardinality(Contenders')
  BY <1>1, <1>5 DEF LockInv
<1>7. /\ \A u \in Threads \ {t} : ~Holds(u) /\ ~Handing(u)
      /\ \E u \in Threads : Asleep(u)
  BY <1>1 DEF LockInv
<1> QED
  BY <1>1, <1>3, <1>4, <1>6, <1>7 DEF LockInv

\* Every other step leaves the lock alone.
LEMMA OtherStep ==
  ASSUME LinkTypeOK,
         \/ Sched \/ SetQuantum \/ UNCHANGED vars
         \/ Run
         \/ \E t \in Threads : Invoke(t)
         \/ \E c \in Clients : Client(c)
  PROVE  /\ lock_count' = lock_count
         /\ lock_ntfn' = lock_ntfn
         /\ \A t \in Threads : Steady(t)
<1>0. "run" \in Threads /\ \A c \in Clients : c \in Threads /\ c # "run"
  BY ClientsAssumption DEF Threads
<1>1. lock_count' = lock_count /\ lock_ntfn' = lock_ntfn
  BY SchedLink, Zenon DEF Run, RunWait, RunTakeCallback, RunCheck, RunPost,
    RunSignal, Invoke, Client, Poll, Wait, RegFirstPoll, RegSecondPoll, RegSlot
<1>2. \A t \in Threads : Steady(t)
  <2> USE DEF Steady, Calm, Holding, At, Goto
  <2>1. CASE Sched \/ SetQuantum \/ UNCHANGED vars
    BY <2>1, SchedLink
  <2>2. CASE Run
    <3>1. CASE RunWait
      BY <3>1, <1>0, Zenon DEF RunWait, LinkTypeOK
    <3>2. CASE RunTakeCallback
      BY <3>2, <1>0, Zenon DEF RunTakeCallback, LinkTypeOK
    <3>3. CASE RunCheck
      BY <3>3, <1>0, Zenon DEF RunCheck, LinkTypeOK
    <3>4. CASE RunPost
      BY <3>4, <1>0 DEF RunPost, LinkTypeOK
    <3>5. CASE \E c \in Clients : RunSignal(c)
      BY <3>5, <1>0 DEF RunSignal, LinkTypeOK
    <3> QED
      BY <2>2, <3>1, <3>2, <3>3, <3>4, <3>5 DEF Run
  <2>3. CASE \E t \in Threads : Invoke(t)
    BY <2>3 DEF Invoke, LinkTypeOK
  <2>4. CASE \E c \in Clients : Client(c)
    <3> PICK c \in Clients : Client(c)
      BY <2>4
    <3>1. CASE Poll(c)
      BY <3>1 DEF Poll
    <3>2. CASE Wait(c)
      BY <3>2, <1>0 DEF Wait, LinkTypeOK
    <3>3. CASE RegFirstPoll(c)
      BY <3>3, <1>0 DEF RegFirstPoll, TakePending, NonePending, LinkTypeOK
    <3>4. CASE RegSecondPoll(c)
      BY <3>4, <1>0, Zenon DEF RegSecondPoll, TakePending, NonePending,
        LinkTypeOK
    <3>5. CASE RegSlot(c)
      BY <3>5, <1>0 DEF RegSlot, LinkTypeOK
    <3> QED
      BY <3>1, <3>2, <3>3, <3>4, <3>5 DEF Client
  <2> QED
    BY <2>1, <2>2, <2>3, <2>4
<1> QED
  BY <1>1, <1>2

LEMMA InitLock == Init => LockInv
<1> SUFFICES ASSUME Init PROVE LockInv
  OBVIOUS
<1>1. \A t \in Threads : ~Holds(t) /\ ~Asleep(t) /\ ~Handing(t)
  BY Zenon DEF Init, Holds, Holding, Asleep, Handing, At
<1>2. Contenders = {}
  BY <1>1 DEF Contenders
<1>3. lock_count = 1 - Cardinality(Contenders)
  BY <1>2, FS_EmptySet DEF Init
<1> QED
  BY <1>1, <1>3, Zenon DEF LockInv, Init

LEMMA NextLock == LinkTypeOK /\ LockInv /\ [Next]_vars => LockInv'
<1> SUFFICES ASSUME LinkTypeOK, LockInv, [Next]_vars PROVE LockInv'
  OBVIOUS
<1>1. CASE \/ Sched \/ SetQuantum \/ UNCHANGED vars
           \/ Run
           \/ \E t \in Threads : Invoke(t)
           \/ \E c \in Clients : Client(c)
  BY <1>1, OtherStep, LockFrame
<1>2. ASSUME NEW t \in Threads,
             Lock(t) \/ LockWake(t) \/ Unlock(t) \/ UnlockSignal(t)
      PROVE  LockInv'
  BY <1>2, LockStep, LockWakeStep, UnlockStep, UnlockSignalStep
<1> QED
  BY <1>1, <1>2, Zenon DEF Next, LockOps

\* The connector's lock, an atomic counter and a notification object, excludes:
\* for any number of threads, at most one is between lock() and unlock().
THEOREM LockCorrect == Spec => []LockExcludes
<1>1. TypeOK => LinkTypeOK
  BY Zenon DEF TypeOK, LinkTypeOK
<1>2. LockInv => LockExcludes
  BY Zenon DEF LockInv, LockExcludes
<1> QED
  BY <1>1, <1>2, InitLock, NextLock, TypeCorrect, PTL DEF Spec
------------------------------------------------------------------------------
(* Callbacks and pending ticks.  A client that found no pending tick under  *)
(* the lock still finds none when it fills the slot, since the interface   *)
(* thread posts only under the lock and with the slot empty.               *)

PendInv ==
  /\ callback # None => handoff_value <= 0
  /\ \A c \in Clients : At(c, "slot") => handoff_value <= 0
  /\ callback # None => ~At("run", "check") /\ ~At("run", "post")
  /\ At("run", "post") => handoff_value < IntMax

LEMMA InitPend == Init => PendInv
BY Zenon DEF Init, PendInv, At, Threads

\* A step that posts nothing, fills no slot and brings no thread to a point
\* PendInv speaks of, keeps it.
LEMMA PendFrame ==
  ASSUME LinkTypeOK, PendInv,
         handoff_value' \in Int, handoff_value' <= handoff_value,
         callback' = callback,
         NEW t \in Threads, NEW b, b \notin {"slot", "check", "post"},
         Goto(t, b) \/ pc' = pc
  PROVE  PendInv'
<1>1. handoff_value \in Int /\ IntMax \in Int /\ pc \in [Threads -> Labels]
  BY Ranges DEF LinkTypeOK, IntRange
<1>2. "run" \in Threads /\ Clients \subseteq Threads
  BY DEF Threads
<1> QED
  BY <1>1, <1>2 DEF PendInv, Goto, At

LEMMA NextPend == LinkTypeOK /\ LockInv /\ PendInv /\ [Next]_vars => PendInv'
<1> SUFFICES ASSUME LinkTypeOK, LockInv, PendInv, [Next]_vars PROVE PendInv'
  OBVIOUS
<1>0. /\ "run" \in Threads
      /\ \A c \in Clients : c \in Threads /\ c # "run" /\ c # None
      /\ handoff_value \in Int /\ IntMax \in Int
      /\ pc \in [Threads -> Labels]
  BY ClientsAssumption, Ranges DEF Threads, LinkTypeOK, IntRange
<1>1. CASE Sched \/ SetQuantum \/ UNCHANGED vars
  BY <1>1, SchedLink, Zenon DEF PendInv, At
<1>2. ASSUME NEW t \in Threads, LockOps(t) PROVE PendInv'
  <2>1. handoff_value' = handoff_value /\ callback' = callback
    BY <1>2, Zenon DEF LockOps, Lock, LockWake, Unlock, UnlockSignal, Invoke
  <2>2. \E b \in {"idle", "lockWait", "crit", "unlockSignal", "invoke"} : Goto(t, b)
    BY <1>2, Zenon DEF LockOps, Lock, LockWake, Unlock, UnlockSignal, Invoke,
      AfterUnlock
  <2>3. handoff_value' \in Int /\ handoff_value' <= handoff_value
    BY <2>1, <1>0
  <2> QED
    BY <2>1, <2>2, <2>3, PendFrame
<1>3. CASE RunWait
  <2>1. handoff_value' = handoff_value /\ callback' = callback /\ Goto("run", "lock")
    BY <1>3 DEF RunWait
  <2> QED
    BY <2>1, <1>0, PendFrame
<1>4. CASE RunTakeCallback
  <2>1. /\ callback' = None /\ handoff_value' = handoff_value
        /\ pc' = [pc EXCEPT !["run"] = IF callback = None THEN "check" ELSE "unlock"]
    BY <1>4, Zenon DEF RunTakeCallback, Goto
  <2> QED
    BY <2>1, <1>0, Zenon DEF PendInv, At
<1>5. CASE RunCheck
  <2>1. /\ callback' = callback /\ handoff_value' = handoff_value
        /\ pc' = [pc EXCEPT !["run"] = IF handoff_value # IntMax THEN "post"
                                                             ELSE "unlock"]
        /\ At("run", "check")
    BY <1>5, Zenon DEF RunCheck, Goto
  <2>2. handoff_value <= IntMax
    BY Ranges DEF LinkTypeOK
  <2> QED
    BY <2>1, <2>2, <1>0 DEF PendInv, At
<1>6. CASE RunPost
  <2>1. /\ callback' = callback /\ At("run", "post") /\ Holds("run")
        /\ pc' = [pc EXCEPT !["run"] = IF Incr(handoff_value) <= 0 THEN "signal"
                                                                ELSE "unlock"]
    BY <1>6, Zenon DEF RunPost, Goto, At, Holds, Holding
  <2>2. callback = None
    BY <2>1 DEF PendInv
  <2>3. \A c \in Clients : ~At(c, "slot")
    BY <2>1, <1>0, Zenon DEF LockInv, Holds, Holding, At
  <2> QED
    BY <2>1, <2>2, <2>3, <1>0, Zenon DEF PendInv, At
<1>7. ASSUME NEW c \in Clients, RunSignal(c) PROVE PendInv'
  <2>1. /\ callback' = callback /\ handoff_value' = handoff_value
        /\ pc' = [pc EXCEPT !["run"] = "unlock", ![c] = "idle"]
    BY <1>7 DEF RunSignal
  <2> QED
    BY <2>1, <1>0, Zenon DEF PendInv, At
<1>8. ASSUME NEW c \in Clients, Poll(c) \/ Wait(c) \/ RegFirstPoll(c)
      PROVE  PendInv'
  <2>1. /\ callback' = callback
        /\ handoff_value' = handoff_value - 1 \/ handoff_value' = handoff_value
        /\ pc' = pc \/ \E b \in {"semRecv", "idle", "invoke", "lock"} : Goto(c, b)
    BY <1>8, Zenon DEF Poll, Wait, RegFirstPoll, TakePending, NonePending
  <2>2. handoff_value' \in Int /\ handoff_value' <= handoff_value
    BY <2>1, <1>0
  <2> QED
    BY <2>1, <2>2, <1>0, PendFrame
<1>9. ASSUME NEW c \in Clients, RegSecondPoll(c) PROVE PendInv'
  <2>1. CASE TakePending(c, "unlock")
    <3>1. callback' = callback /\ handoff_value' = handoff_value - 1
          /\ Goto(c, "unlock")
      BY <1>9, <2>1, Zenon DEF RegSecondPoll, TakePending
    <3>2. handoff_value' \in Int /\ handoff_value' <= handoff_value
      BY <3>1, <1>0
    <3> QED
      BY <3>1, <3>2, <1>0, PendFrame
  <2>2. CASE NonePending(c, "slot")
    <3>1. /\ callback' = callback /\ handoff_value' = handoff_value
          /\ handoff_value <= 0
          /\ pc' = [pc EXCEPT ![c] = "slot"]
      BY <1>9, <2>2 DEF RegSecondPoll, NonePending, Goto
    <3> QED
      BY <3>1, <1>0, Zenon DEF PendInv, At
  <2> QED
    BY <1>9, <2>1, <2>2 DEF RegSecondPoll
<1>10. ASSUME NEW c \in Clients, RegSlot(c) PROVE PendInv'
  <2>1. /\ handoff_value' = handoff_value /\ At(c, "slot") /\ Holds(c)
        /\ pc' = [pc EXCEPT ![c] = "unlock"]
    BY <1>10, Zenon DEF RegSlot, Goto, At, Holds, Holding
  <2>2. ~At("run", "check") /\ ~At("run", "post")
    BY <2>1, <1>0, Zenon DEF LockInv, Holds, Holding, At
  <2> QED
    BY <2>1, <2>2, <1>0, Zenon DEF PendInv, At
<1> QED
  BY <1>1, <1>2, <1>3, <1>4, <1>5, <1>6, <1>7, <1>8, <1>9, <1>10, Zenon DEF
    Next, Run, Client

LinkInv == TypeOK /\ LockInv /\ PendInv

LEMMA LinkInvariant == Spec => []LinkInv
<1>1. TypeOK => LinkTypeOK
  BY Zenon DEF TypeOK, LinkTypeOK
<1> QED
  BY <1>1, InitType, InitLock, InitPend, NextType, NextLock, NextPend, PTL
     DEF Spec, LinkInv

\* The connector's header: there is never both a registered callback and a
\* pending tick in the handoff semaphore.
THEOREM PendingCorrect == Spec => []NoCallbackWithPending
<1>1. LinkInv => NoCallbackWithPending
  BY Zenon DEF LinkInv, PendInv, NoCallbackWithPending
<1> QED
  BY <1>1, LinkInvariant, PTL

\* The assertions of both semaphores hold: no post of a full handoff semaphore,
\* no count of the lock above 1.
THEOREM AssertionsCorrect == Spec => []SemaphoreAssertions
<1>1. LinkInv => SemaphoreAssertions
  <2> SUFFICES ASSUME LinkInv PROVE SemaphoreAssertions
    OBVIOUS
  <2>1. lock_count <= 1
    BY FiniteContenders DEF LinkInv, LockInv
  <2> QED
    BY <2>1, Zenon DEF LinkInv, PendInv, SemaphoreAssertions
<1> QED
  BY <1>1, LinkInvariant, PTL

\* A registered callback is never overwritten: it leaves the slot only into the
\* hands of the interface thread.
THEOREM CallbackCorrect == Spec => CallbackKept
<1>1. TypeOK /\ [Next]_vars =>
        [callback # None /\ callback' # callback
           => callback' = None /\ cb'["run"] = callback]_vars
  <2> SUFFICES ASSUME TypeOK, Next, callback # None, callback' # callback
               PROVE  callback' = None /\ cb'["run"] = callback
    BY DEF vars
  <2>1. RunTakeCallback
    BY SchedLink, Zenon DEF Next, Run, RunWait, RunCheck, RunPost, RunSignal,
      LockOps, Lock, LockWake, Unlock, UnlockSignal, Invoke, Client, Poll,
      Wait, RegFirstPoll, RegSecondPoll, RegSlot
  <2>2. "run" \in Threads
    BY DEF Threads
  <2> QED
    BY <2>1, <2>2, Zenon DEF RunTakeCallback, TypeOK
<1> QED
  BY <1>1, TypeCorrect, PTL DEF Spec, CallbackKept
------------------------------------------------------------------------------
(* The handoff semaphore counts its sleepers.                              *)

Sleepers == {c \in Clients : At(c, "semRecv")}
Owed     == IF handoff_value < 0 THEN -handoff_value ELSE 0
Signals  == IF At("run", "signal") THEN 1 ELSE 0

SleepInv == Cardinality(Sleepers) = Owed + Signals

LEMMA FiniteSleepers == IsFiniteSet(Sleepers) /\ Cardinality(Sleepers) \in Nat
<1>1. Sleepers \in SUBSET Clients
  BY DEF Sleepers
<1>2. IsFiniteSet(Sleepers)
  BY <1>1, ClientsAssumption, FS_Subset
<1> QED
  BY <1>2, FS_CardinalityType

\* A step of a thread that neither goes to sleep nor wakes anyone, and that
\* takes a tick only when one is pending.
LEMMA SleepFrame ==
  ASSUME LinkTypeOK, SleepInv,
         \/ handoff_value' = handoff_value
         \/ handoff_value > 0 /\ handoff_value' = handoff_value - 1,
         NEW t \in Threads, NEW b, b \notin {"semRecv", "signal"},
         ~At(t, "semRecv"), ~At(t, "signal"),
         Goto(t, b) \/ pc' = pc
  PROVE  SleepInv'
<1>1. "run" \in Threads /\ Clients \subseteq Threads
  BY DEF Threads
<1>2. Sleepers' = Sleepers
  BY <1>1, Zenon DEF Sleepers, At, Goto, LinkTypeOK
<1>3. Signals' = Signals
  BY <1>1, Zenon DEF Signals, At, Goto, LinkTypeOK
<1>4. handoff_value \in Int
  BY Ranges DEF LinkTypeOK, IntRange
<1>5. Owed' = Owed
  BY <1>4 DEF Owed
<1>6. Cardinality(Sleepers)' = Cardinality(Sleepers)
  BY <1>2
<1> QED
  BY <1>3, <1>5, <1>6 DEF SleepInv

LEMMA WaitStep ==
  ASSUME LinkTypeOK, SleepInv, NEW c \in Clients, Wait(c)
  PROVE  SleepInv'
<1>0. /\ "run" \in Threads /\ c \in Threads /\ c # "run" /\ Clients \subseteq Threads
      /\ handoff_value \in Int
  BY ClientsAssumption, Ranges DEF Threads, LinkTypeOK, IntRange
<1>1. CASE handoff_value > 0
  <2>1. /\ handoff_value' = handoff_value - 1 /\ Goto(c, "idle")
        /\ ~At(c, "semRecv") /\ ~At(c, "signal")
    BY <1>1, <1>0 DEF Wait, At
  <2> QED
    BY <1>0, <1>1, <2>1, SleepFrame
<1>2. CASE handoff_value <= 0
  <2>1. /\ handoff_value' = handoff_value - 1
        /\ pc' = [pc EXCEPT ![c] = "semRecv"]
        /\ pc[c] = "idle"
    BY <1>2, Zenon DEF Wait, Goto, At
  <2>2. Sleepers' = Sleepers \cup {c} /\ c \notin Sleepers
    BY <2>1, <1>0, Zenon DEF Sleepers, At, LinkTypeOK
  <2>3. Cardinality(Sleepers') = Cardinality(Sleepers) + 1
    BY <2>2, FiniteSleepers, FS_AddElement
  <2>4. Signals' = Signals /\ Signals \in Int
    BY <2>1, <1>0 DEF Signals, At, LinkTypeOK
  <2>5. Owed' = Owed + 1 /\ Owed \in Int
    BY <2>1, <1>0, <1>2 DEF Owed
  <2> QED
    BY <2>3, <2>4, <2>5 DEF SleepInv
<1> QED
  BY <1>0, <1>1, <1>2

LEMMA PostStep ==
  ASSUME LinkTypeOK, PendInv, SleepInv, RunPost
  PROVE  SleepInv'
<1>0. /\ "run" \in Threads /\ "run" \notin Clients /\ Clients \subseteq Threads
      /\ handoff_value \in Int
  BY ClientsAssumption, Ranges DEF Threads, LinkTypeOK, IntRange
<1>1. Incr(handoff_value) = handoff_value + 1
  BY Ranges, Zenon DEF RunPost, PendInv, LinkTypeOK
<1>2. /\ handoff_value' = handoff_value + 1
      /\ pc["run"] = "post"
      /\ pc' = [pc EXCEPT !["run"] = IF handoff_value + 1 <= 0 THEN "signal"
                                                            ELSE "unlock"]
  BY <1>1, Zenon DEF RunPost, Goto, At
<1>3. Sleepers' = Sleepers
  BY <1>0, <1>2, Zenon DEF Sleepers, At, LinkTypeOK
<1>4. Cardinality(Sleepers)' = Cardinality(Sleepers)
  BY <1>3
<1>5. /\ Signals = 0
      /\ Signals' = IF handoff_value + 1 <= 0 THEN 1 ELSE 0
  BY <1>0, <1>2, Zenon DEF Signals, At, LinkTypeOK
<1>6. Owed' + Signals' = Owed + Signals
  BY <1>0, <1>2, <1>5 DEF Owed
<1> QED
  BY <1>4, <1>6 DEF SleepInv

LEMMA SignalStep ==
  ASSUME LinkTypeOK, SleepInv, NEW c \in Clients, RunSignal(c)
  PROVE  SleepInv'
<1>0. /\ "run" \in Threads /\ c \in Threads /\ c # "run" /\ Clients \subseteq Threads
      /\ "run" \notin Clients
  BY ClientsAssumption DEF Threads
<1>1. /\ handoff_value' = handoff_value
      /\ pc["run"] = "signal" /\ pc[c] = "semRecv"
      /\ pc' = [pc EXCEPT !["run"] = "unlock", ![c] = "idle"]
  BY Zenon DEF RunSignal, At
<1>2. Sleepers' = Sleepers \ {c} /\ c \in Sleepers
  BY <1>0, <1>1, Zenon DEF Sleepers, At, LinkTypeOK
<1>3. Cardinality(Sleepers') = Cardinality(Sleepers) - 1
  BY <1>2, FiniteSleepers, FS_RemoveElement
<1>4. Signals = 1 /\ Signals' = 0
  BY <1>0, <1>1 DEF Signals, At, LinkTypeOK
<1>5. Owed' = Owed /\ Owed \in Int
  BY <1>1, Ranges DEF Owed, LinkTypeOK, IntRange
<1> QED
  BY <1>3, <1>4, <1>5 DEF SleepInv

LEMMA InitSleep == Init => SleepInv
<1> SUFFICES ASSUME Init PROVE SleepInv
  OBVIOUS
<1>1. Sleepers = {} /\ Signals = 0 /\ Owed = 0
  BY DEF Init, Sleepers, Signals, Owed, At, Threads
<1> QED
  BY <1>1, FS_EmptySet DEF SleepInv

LEMMA NextSleep == LinkTypeOK /\ PendInv /\ SleepInv /\ [Next]_vars => SleepInv'
<1> SUFFICES ASSUME LinkTypeOK, PendInv, SleepInv, [Next]_vars PROVE SleepInv'
  OBVIOUS
<1>0. "run" \in Threads /\ \A c \in Clients : c \in Threads
  BY DEF Threads
<1>1. CASE Sched \/ SetQuantum \/ UNCHANGED vars
  <2>1. Sleepers' = Sleepers /\ Signals' = Signals /\ Owed' = Owed
    BY <1>1, SchedLink, Zenon DEF Sleepers, Signals, Owed, At
  <2> QED
    BY <2>1 DEF SleepInv
<1>2. ASSUME NEW t \in Threads, LockOps(t) PROVE SleepInv'
  <2>1. handoff_value' = handoff_value
    BY <1>2, Zenon DEF LockOps, Lock, LockWake, Unlock, UnlockSignal, Invoke
  <2>2. \E b \in {"idle", "lockWait", "crit", "unlockSignal", "invoke"} : Goto(t, b)
    BY <1>2, Zenon DEF LockOps, Lock, LockWake, Unlock, UnlockSignal, Invoke,
      AfterUnlock
  <2>3. ~At(t, "semRecv") /\ ~At(t, "signal")
    BY <1>2, Zenon DEF LockOps, Lock, LockWake, Unlock, UnlockSignal, Invoke,
      At
  <2> QED
    BY <2>1, <2>2, <2>3, SleepFrame
<1>3. CASE RunWait \/ RunTakeCallback \/ RunCheck
  <2>1. handoff_value' = handoff_value
    BY <1>3, Zenon DEF RunWait, RunTakeCallback, RunCheck
  <2>2. \E b \in {"lock", "check", "post", "unlock"} : Goto("run", b)
    BY <1>3, Zenon DEF RunWait, RunTakeCallback, RunCheck
  <2>3. ~At("run", "semRecv") /\ ~At("run", "signal")
    BY <1>3 DEF RunWait, RunTakeCallback, RunCheck, At
  <2> QED
    BY <2>1, <2>2, <2>3, <1>0, SleepFrame
<1>4. ASSUME NEW c \in Clients,
             Poll(c) \/ RegFirstPoll(c) \/ RegSecondPoll(c) \/ RegSlot(c)
      PROVE  SleepInv'
  <2>1. \/ handoff_value' = handoff_value
        \/ handoff_value > 0 /\ handoff_value' = handoff_value - 1
    BY <1>4, Zenon DEF Poll, RegFirstPoll, RegSecondPoll, RegSlot, TakePending,
      NonePending
  <2>2. pc' = pc \/ \E b \in {"invoke", "lock", "unlock", "slot"} : Goto(c, b)
    BY <1>4, Zenon DEF Poll, RegFirstPoll, RegSecondPoll, RegSlot, TakePending,
      NonePending
  <2>3. ~At(c, "semRecv") /\ ~At(c, "signal")
    BY <1>4, Zenon DEF Poll, RegFirstPoll, RegSecondPoll, RegSlot, At
  <2> QED
    BY <2>1, <2>2, <2>3, <1>0, SleepFrame
<1> QED
  BY <1>1, <1>2, <1>3, <1>4, WaitStep, PostStep, SignalStep, Zenon DEF Next,
    Run, Client

\* For any number of clients, the value of the handoff semaphore and the post
\* under way account for every client asleep in hw_tick_wait: no wake-up is lost
\* and none is sent to nobody.
THEOREM SleepersCorrect == Spec => []SleepersCounted
<1>1. TypeOK => LinkTypeOK
  BY Zenon DEF TypeOK, LinkTypeOK
<1>2. SleepInv => SleepersCounted
  BY Zenon DEF SleepInv, Sleepers, Owed, Signals, SleepersCounted
<1>3. Spec => []SleepInv
  BY <1>1, InitSleep, NextSleep, LinkInvariant, PTL DEF Spec, LinkInv
<1> QED
  BY <1>2, <1>3, PTL
==============================================================================

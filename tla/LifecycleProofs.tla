--------------------------- MODULE LifecycleProofs ---------------------------
(***************************************************************************)
(* Proofs about component start-up: the counts of posts and waits, and     *)
(* from them that the semaphores implement the life cycle and that no      *)
(* thread leaves post_main.                                                *)
(***************************************************************************)
EXTENDS StartupProofs

LEMMA OrderedNext == IInv /\ [Next]_vars => Ordered'
<1> SUFFICES ASSUME IInv, [Next]_vars
             PROVE  Ordered'
  OBVIOUS
<1>0. /\ Ordered /\ Shape
      /\ pc \in [Threads -> Labels]
      /\ ipc \in [Threads -> {"none", "enter", "recv", "send"}]
      /\ lock \in [{"pre", "init", "post"} -> Int]
      /\ build.fault \in SUBSET {"fault"}
      /\ "control" \notin Interfaces /\ "fault" \notin Interfaces
  BY Sizes, StartupAssumption DEF IInv, TypeOK
<1>1. CASE Control \/ RunReturns \/ BindFails \/ UnbindFails
  <2>1. /\ Moves
        /\ \A v \in Threads \ {"control"} : pc'[v] = pc[v]
        /\ ipc["control"] = "none" /\ UNCHANGED <<build, ipc, lock>>
    BY <1>1, ControlMoves DEF IInv
  <2>2. c = "passives" /\ todo = {} => Done = Interfaces
    <3> SUFFICES ASSUME c = "passives", todo = {}
                 PROVE  Done = Interfaces
      OBVIOUS
    <3>1. /\ Cardinality(Active) + Cardinality(build.passive) = Cardinality(Interfaces)
          /\ Cardinality(Active) \in Nat /\ Cardinality(build.passive) \in Nat
          /\ IsFiniteSet(Interfaces)
      BY Sizes, Zenon DEF IInv, TypeOK
    <3>2. /\ Cardinality(Done) \in Nat
          /\ Cardinality(Done) <= Cardinality(Interfaces)
          /\ Cardinality(build.passive \ todo) = Cardinality(build.passive)
      BY Counts DEF IInv
    <3>3. lock["init"] >= 0
      BY <1>0, Tables DEF IInv, SoleWaiter, Shape, c, Threads
    <3>4. lock["init"] = Cardinality(Done) - Cardinality(Interfaces)
      BY <3>1, <3>2 DEF IInv, Balance, Asked, Served, Lone, One
    <3>5. Cardinality(Done) = Cardinality(Interfaces)
      BY <1>0, <3>1, <3>2, <3>3, <3>4
    <3>6. Done \in SUBSET Interfaces
      BY Zenon DEF Done
    <3> QED
      BY <3>1, <3>5, <3>6, FS_Subset
  <2>3. Done' = Done
    BY <1>0, <2>1, Zenon DEF Done, HasInited, Threads
  <2>4. /\ \A t \in Interfaces \cup {"fault"} : pc'[t] = pc[t] /\ ipc'[t] = ipc[t]
        /\ lock' = lock
    BY <1>0, <2>1, Zenon DEF Threads
  <2>5. /\ c' # "preInit"
        /\ c' \in Early => c \in Early
        /\ c' \in Late => c \in Late \/ (c = "passives" /\ todo = {})
    BY <1>0, <2>1, Zenon DEF Moves, Move, Early, Late, Lone, ControlLabels
  <2> QED
    BY <1>0, <2>2, <2>3, <2>4, <2>5 DEF Ordered
<1>2. ASSUME NEW t \in Threads, sync_sem_bare_wait(t)
      PROVE  Ordered'
  <2>1. /\ build' = build
        /\ \A v \in Threads \ {t} : pc'[v] = pc[v] /\ ipc'[v] = ipc[v]
        /\ \/ pc'[t] = After[pc[t]] /\ ipc'[t] = "none"
           \/ pc'[t] = pc[t] /\ ipc'[t] = "enter"
    BY <1>2, WaitKinds, WaitFrame
  <2>2. Done' = Done
    <3>1. t \in Interfaces => (HasInited(t)' <=> HasInited(t))
      <4>1. t \in Interfaces => pc[t] \in {"start", "sync", "end"}
        BY <1>0, <1>2, WaitKinds
      <4> QED
        BY <2>1, <4>1, Tables DEF HasInited
    <3>2. \A v \in Interfaces : HasInited(v)' <=> HasInited(v)
      BY <2>1, <3>1, SamePlace, Zenon DEF Threads
    <3> QED
      BY <3>2, SameSets, Zenon
  <2>3. /\ lock'["pre"] <= lock["pre"] /\ lock'["post"] <= lock["post"]
        /\ lock'["pre"] \in Int /\ lock'["post"] \in Int
        /\ pc' = pc \/ lock[Waits[pc[t]]] > 0
    <3>1. /\ Waits[pc[t]] \in {"pre", "init", "post"}
          /\ lock' = [lock EXCEPT ![Waits[pc[t]]] = lock[Waits[pc[t]]] - 1]
          /\ pc' = pc \/ lock[Waits[pc[t]]] > 0
      <4>1. /\ lock' = [lock EXCEPT ![Waits[pc[t]]] = lock[Waits[pc[t]]] - 1]
            /\ pc' = pc \/ lock[Waits[pc[t]]] > 0
        BY <1>2, WaitCases, Zenon
      <4>2. pc[t] \in DOMAIN Waits
        BY <1>2, Zenon DEF sync_sem_bare_wait
      <4> QED
        BY <4>1, <4>2, Tables
    <3> QED
      BY <1>0, <3>1
  <2>4. CASE t = "control"
    <3>1. c' = c \/ (c = "gatherOne" /\ c' = "unbind")
      <4>1. \/ c \in {"gather", "gatherOne"}
            \/ c \in {"finish", "aborted"} /\ pc' = pc
        BY <1>0, <1>2, <2>4, WaitKinds DEF c
      <4> QED
        BY <2>1, <2>4, <4>1, Tables DEF c
    <3> QED
      BY <1>0, <2>1, <2>2, <2>3, <2>4, <3>1 DEF Ordered, Early, Late, Lone,
         ControlLabels, Threads
  <2>5. CASE t # "control"
    <3>1. c' = c
      BY <2>1, <2>5, Zenon DEF c, Threads
    <3>2. \/ pc[t] \in {"start", "end"} /\ Waits[pc[t]] = "pre"
          \/ pc[t] = "sync" /\ Waits[pc[t]] = "post"
      BY <1>2, <2>5, WaitKinds, Tables
    <3>3. c = "preInit" => pc'[t] \in {"start", "absent"} /\ ipc'[t] # "send"
      <4>1. c = "preInit" => lock["pre"] <= 0 /\ pc[t] \in {"start", "absent"}
        BY <1>0, <2>5, Zenon DEF Ordered
      <4> QED
        BY <1>0, <2>1, <2>3, <3>2, <4>1
    <3>4. c \in Early /\ t \in Interfaces
            => pc'[t] \notin {"ready", "serve", "end", "returned"}
      <4>1. c \in Early /\ t \in Interfaces
              => lock["post"] <= 0 /\ pc[t] \notin {"ready", "serve", "end", "returned"}
        BY <1>0 DEF Ordered
      <4> QED
        BY <1>0, <2>1, <2>3, <3>2, <4>1, Tables
    <3> QED
      BY <1>0, <2>1, <2>2, <2>3, <3>1, <3>3, <3>4 DEF Ordered, Threads
  <2> QED
    BY <2>4, <2>5, Zenon
<1>3. ASSUME NEW t \in Threads, sync_sem_bare_post(t)
      PROVE  Ordered'
  <2>1. /\ build' = build
        /\ \A v \in Threads \ {t} : pc'[v] = pc[v] /\ ipc'[v] = ipc[v]
        /\ \/ pc'[t] = After[pc[t]] /\ ipc'[t] = "none"
           \/ pc'[t] = pc[t] /\ ipc'[t] = "send"
    BY <1>3, PostKinds, PostFrame
  <2>2. /\ lock' = [lock EXCEPT ![Posts[pc[t]]] = lock[Posts[pc[t]]] + 1]
    BY <1>3, PostCases, Zenon
  <2>3. CASE t = "control"
    <3>1. \/ c = "wake" /\ c' = "wake" /\ Posts[pc[t]] = "pre"
          \/ c = "wakeOne" /\ c' \in {"wakeOne", "gatherOne"} /\ Posts[pc[t]] = "pre"
          \/ c = "release" /\ c' = "release"
      <4>1. c \in {"wake", "wakeOne", "release"}
        BY <1>0, <1>3, <2>3, PostKinds, Zenon DEF c
      <4> QED
        BY <2>1, <2>3, <4>1, Tables DEF c
    <3>2. \A u \in Interfaces : pc'[u] = pc[u]
      BY <1>0, <2>1, <2>3 DEF Threads
    <3>3. Done' = Done
      <4>1. \A v \in Interfaces : HasInited(v)' <=> HasInited(v)
        BY <1>0, <2>1, <2>3, SamePlace DEF Threads
      <4> QED
        BY <4>1, SameSets, Zenon
    <3>4. c # "release" => lock'["post"] = lock["post"]
      BY <1>0, <2>2, <3>1, Zenon
    <3> QED
      BY <1>0, <3>1, <3>2, <3>3, <3>4, Zenon DEF Ordered, Early, Late, Lone,
        ControlLabels
  <2>4. CASE t # "control"
    <3>1. t \in Interfaces /\ pc[t] = "inited" /\ Posts[pc[t]] = "init"
      BY <1>3, <2>4, PostKinds, Tables
    <3>2. lock'["post"] = lock["post"] /\ lock'["pre"] = lock["pre"] /\ c' = c
      BY <1>0, <2>1, <2>2, <2>4, <3>1 DEF c, Threads
    <3>3. pc'[t] \in {"inited", "sync"}
      BY <2>1, <3>1, Tables
    <3>4. Done \subseteq Done' /\ Done' \subseteq Interfaces
      <4>1. ~HasInited(t)
        BY <1>3, <3>1, PostKinds, Zenon DEF HasInited
      <4>2. \A v \in Interfaces : v # t => (HasInited(v)' <=> HasInited(v))
        BY <2>1, SamePlace, Zenon DEF Threads
      <4> QED
        BY <4>1, <4>2, Zenon DEF Done
    <3> QED
      <4>1. \A v \in Interfaces \cup {"fault"} :
              \/ pc'[v] = pc[v] /\ ipc'[v] = ipc[v]
              \/ v = t
        BY <2>1 DEF Threads
      <4>2. c # "preInit"
        BY <1>0, <3>1, Zenon DEF Ordered, Threads
      <4>3. c \in Late => Done' = Interfaces
        BY <1>0, <3>4 DEF Ordered
      <4>4. c \in Early => \A v \in Interfaces :
              pc'[v] \notin {"ready", "serve", "end", "returned"}
        BY <1>0, <3>3, <4>1 DEF Ordered
      <4> QED
        BY <1>0, <3>2, <4>2, <4>3, <4>4, Zenon DEF Ordered
  <2> QED
    BY <2>3, <2>4, Zenon
<1>4. ASSUME NEW t \in Threads, Receive(t) \/ InterfaceInit(t) \/ InterfaceRun(t)
      PROVE  Ordered'
  <2>1. /\ UNCHANGED <<build, lock>> /\ c' = c
        /\ \A v \in Threads \ {t} : pc'[v] = pc[v] /\ ipc'[v] = ipc[v]
        /\ \/ ipc[t] = "enter" /\ ipc'[t] = "recv" /\ pc'[t] = pc[t]
           \/ /\ pc[t] = "init" /\ pc'[t] \in {"inited", "handling"}
              /\ ipc[t] = "none" /\ ipc'[t] = "none"
           \/ /\ pc[t] = "ready" /\ pc'[t] \in {"serve", "end"}
              /\ ipc[t] = "none" /\ ipc'[t] = "none"
    BY <1>4, LocalSteps, Zenon
  <2>2. Done' = Done
    <3>1. HasInited(t)' <=> HasInited(t)
      BY <2>1 DEF HasInited
    <3>2. \A v \in Interfaces : HasInited(v)' <=> HasInited(v)
      BY <2>1, <3>1, SamePlace DEF Threads
    <3> QED
      BY <3>2, SameSets, Zenon
  <2> QED
    BY <1>0, <2>1, <2>2 DEF Ordered, Threads
<1>5. ASSUME NEW t \in Threads, NEW u \in Threads, Meet(t, u)
      PROVE  Ordered'
  <2>1. /\ \A v \in Threads \ {t, u} : pc'[v] = pc[v] /\ ipc'[v] = ipc[v]
        /\ UNCHANGED <<build, lock>>
        /\ ipc'[t] = "none" /\ ipc'[u] = "none"
    BY <1>5, MeetKinds, MeetFrame
  <2>2. \/ /\ t = "control" /\ c \in {"wake", "wakeOne"}
           /\ c' = c \/ (c = "wakeOne" /\ c' = "gatherOne")
           /\ u # "control" /\ pc[u] = "start" /\ pc'[u] = "init"
        \/ /\ t = "control" /\ c = "release" /\ c' = c
           /\ u # "control" /\ pc[u] = "sync" /\ pc'[u] = "ready"
        \/ /\ u = "control" /\ c \in {"gather", "gatherOne"}
           /\ c' = c \/ (c = "gatherOne" /\ c' = "unbind")
           /\ t # "control" /\ pc[t] = "inited" /\ pc'[t] = "sync" /\ ipc[t] = "send"
    <3>1. pc'[t] = After[pc[t]] /\ pc'[u] = After[pc[u]]
      BY <1>5, MeetFrame, Zenon
    <3> QED
      BY <1>5, <3>1, MeetKinds, Tables DEF c
  <2>3. Done' = Done
    <3>1. /\ t \in Interfaces => (HasInited(t)' <=> HasInited(t))
          /\ u \in Interfaces => (HasInited(u)' <=> HasInited(u))
      BY <1>0, <2>2, Zenon DEF HasInited
    <3>2. \A v \in Interfaces : HasInited(v)' <=> HasInited(v)
      BY <2>1, <3>1, SamePlace, Zenon DEF Threads
    <3> QED
      BY <3>2, SameSets, Zenon
  <2>4. /\ c # "preInit" /\ c' # "preInit"
        /\ c' \in Early => c \in Early \ {"release"}
        /\ c' \in Late => c \in Late
    BY <2>2, Zenon DEF Early, Late, Lone, ControlLabels
  <2>5. c # "release" => \A v \in Interfaces :
          pc'[v] \in {"ready", "serve", "end", "returned"} => pc'[v] = pc[v]
    BY <1>0, <2>1, <2>2 DEF Threads
  <2> QED
    BY <1>0, <2>1, <2>3, <2>4, <2>5 DEF Ordered
<1>6. CASE UNCHANGED vars
  BY <1>0, <1>6 DEF Ordered, Done, HasInited, vars, c
<1> QED
  BY <1>1, <1>2, <1>3, <1>4, <1>5, <1>6 DEF Next, Step

LEMMA SoleWaiterNext == IInv /\ [Next]_vars => SoleWaiter'
<1> SUFFICES ASSUME IInv, [Next]_vars
             PROVE  SoleWaiter'
  OBVIOUS
<1>0. /\ SoleWaiter /\ Shape
      /\ pc \in [Threads -> Labels]
      /\ ipc \in [Threads -> {"none", "enter", "recv", "send"}]
      /\ lock \in [{"pre", "init", "post"} -> Int]
      /\ build.fault \in SUBSET {"fault"}
      /\ "control" \notin Interfaces /\ "fault" \notin Interfaces
  BY Sizes, StartupAssumption DEF IInv, TypeOK
<1>1. CASE Control \/ RunReturns \/ BindFails \/ UnbindFails
  <2>1. /\ Moves
        /\ \A v \in Threads \ {"control"} : pc'[v] = pc[v]
        /\ ipc["control"] = "none" /\ UNCHANGED <<build, ipc, lock>>
    BY <1>1, ControlMoves, Zenon DEF IInv
  <2> QED
    BY <1>0, <2>1 DEF SoleWaiter, Blocked
<1>2. ASSUME NEW t \in Threads, sync_sem_bare_wait(t)
      PROVE  SoleWaiter'
  <2>1. /\ \A v \in Threads \ {t} : ipc'[v] = ipc[v]
        /\ ipc'[t] \in {"none", "enter"} /\ ipc[t] = "none"
    BY <1>2, WaitKinds, WaitFrame
  <2>2. {v \in Interfaces : ipc'[v] = "send"} = {v \in Interfaces : ipc[v] = "send"}
    BY <2>1, Zenon DEF Threads
  <2>3. CASE t = "control"
    <3>1. c \in {"gather", "gatherOne", "finish", "aborted"}
      BY <1>0, <1>2, <2>3, WaitKinds DEF c
    <3>2. Waits[pc[t]] = "init"
      BY <2>3, <3>1, Tables, Zenon DEF c
    <3>3. /\ lock' = [lock EXCEPT !["init"] = lock["init"] - 1]
          /\ \/ lock["init"] > 0 /\ UNCHANGED ipc
             \/ lock["init"] <= 0 /\ ipc' = [ipc EXCEPT ![t] = "enter"]
      BY <1>2, <3>2, WaitCases
    <3> QED
      BY <1>0, <2>1, <2>2, <2>3, <3>3 DEF SoleWaiter, Blocked, Threads
  <2>4. CASE t # "control"
    <3>1. Waits[pc[t]] \in {"pre", "post"}
      BY <1>2, <2>4, WaitKinds, Tables
    <3>2. lock' = [lock EXCEPT ![Waits[pc[t]]] = lock[Waits[pc[t]]] - 1]
      BY <1>2, WaitCases, Zenon
    <3>3. lock'["init"] = lock["init"] /\ ipc'["control"] = ipc["control"]
      BY <1>0, <2>1, <2>4, <3>1, <3>2, Zenon DEF Threads
    <3> QED
      BY <1>0, <2>2, <3>3, Zenon DEF SoleWaiter, Blocked
  <2> QED
    BY <2>3, <2>4, Zenon
<1>3. ASSUME NEW t \in Threads, sync_sem_bare_post(t)
      PROVE  SoleWaiter'
  <2>1. /\ \A v \in Threads \ {t} : ipc'[v] = ipc[v]
        /\ ipc'[t] \in {"none", "send"} /\ ipc[t] = "none"
    BY <1>3, PostKinds, PostFrame, Zenon
  <2>2. CASE t = "control"
    <3>1. Posts[pc[t]] \in {"pre", "post"}
      BY <1>0, <1>3, <2>2, PostKinds, Tables
    <3>2. lock' = [lock EXCEPT ![Posts[pc[t]]] = lock[Posts[pc[t]]] + 1]
      BY <1>3, PostCases, Zenon
    <3>3. lock'["init"] = lock["init"]
      BY <1>0, <3>1, <3>2, Zenon
    <3>4. {v \in Interfaces : ipc'[v] = "send"} = {v \in Interfaces : ipc[v] = "send"}
      <4>1. \A v \in Interfaces : ipc'[v] = ipc[v]
        BY <1>0, <2>1, <2>2, Zenon DEF Threads
      <4> QED
        BY <4>1, Zenon
    <3> QED
      BY <1>0, <2>1, <2>2, <3>3, <3>4, Zenon DEF SoleWaiter, Blocked
  <2>3. CASE t # "control"
    <3>1. t \in Interfaces /\ Posts[pc[t]] = "init"
      BY <1>3, <2>3, PostKinds, Tables
    <3>2. /\ lock' = [lock EXCEPT !["init"] = lock["init"] + 1]
          /\ \/ lock["init"] >= 0 /\ UNCHANGED ipc
             \/ lock["init"] < 0 /\ ipc' = [ipc EXCEPT ![t] = "send"]
      BY <1>3, <3>1, PostCases, Zenon
    <3>3. ipc'["control"] = ipc["control"]
      BY <2>1, <2>3, Zenon DEF Threads
    <3>4. CASE lock["init"] >= 0
      BY <1>0, <3>2, <3>3, <3>4 DEF SoleWaiter, Blocked
    <3>5. CASE lock["init"] < 0
      <4>1. /\ Blocked("control") /\ lock["init"] = -1
            /\ {v \in Interfaces : ipc[v] = "send"} = {}
        BY <1>0, <3>5 DEF SoleWaiter
      <4>2. ipc'[t] = "send"
        BY <1>0, <3>2, <3>5
      <4>3. {v \in Interfaces : ipc'[v] = "send"} = {t}
        BY <2>1, <3>1, <4>1, <4>2 DEF Threads
      <4>4. lock'["init"] = 0
        BY <1>0, <3>2, <4>1
      <4> QED
        BY <3>1, <3>3, <4>1, <4>3, <4>4 DEF SoleWaiter, Blocked
    <3> QED
      BY <1>0, <3>4, <3>5
  <2> QED
    BY <2>2, <2>3, Zenon
<1>4. ASSUME NEW t \in Threads, Receive(t) \/ InterfaceInit(t) \/ InterfaceRun(t)
      PROVE  SoleWaiter'
  <2>1. /\ lock' = lock
        /\ \A v \in Threads \ {t} : ipc'[v] = ipc[v]
        /\ \/ ipc[t] = "enter" /\ ipc'[t] = "recv"
           \/ ipc[t] = "none" /\ ipc'[t] = "none"
    BY <1>4, LocalSteps, Zenon
  <2>2. {v \in Interfaces : ipc'[v] = "send"} = {v \in Interfaces : ipc[v] = "send"}
    BY <2>1, Zenon DEF Threads
  <2>3. Blocked("control")' <=> Blocked("control")
    BY <2>1, Zenon DEF Blocked, Threads
  <2> QED
    BY <1>0, <2>1, <2>2, <2>3, Zenon DEF SoleWaiter
<1>5. ASSUME NEW t \in Threads, NEW u \in Threads, Meet(t, u)
      PROVE  SoleWaiter'
  <2>1. /\ \A v \in Threads \ {t, u} : ipc'[v] = ipc[v]
        /\ ipc'[t] = "none" /\ ipc'[u] = "none" /\ ipc[t] = "send" /\ ipc[u] = "recv"
        /\ lock' = lock
        /\ \/ t = "control" /\ u # "control"
           \/ t \in Interfaces /\ u = "control"
    BY <1>0, <1>5, MeetKinds, MeetFrame
  <2>2. CASE t = "control" /\ u # "control"
    <3>1. {v \in Interfaces : ipc'[v] = "send"} = {v \in Interfaces : ipc[v] = "send"}
      <4>1. \A v \in Interfaces : ipc'[v] = "send" <=> ipc[v] = "send"
        BY <1>0, <2>1, <2>2, Zenon DEF Threads
      <4> QED
        BY <4>1, Zenon
    <3> QED
      BY <1>0, <2>1, <2>2, <3>1, Zenon DEF SoleWaiter, Blocked
  <2>3. CASE t \in Interfaces /\ u = "control"
    <3>1. /\ lock["init"] >= 0
          /\ {v \in Interfaces : ipc[v] = "send"} = {t}
      BY <1>0, <2>1, <2>3, Zenon DEF SoleWaiter, Blocked
    <3>2. {v \in Interfaces : ipc'[v] = "send"} = {}
      <4>1. \A v \in Interfaces : v # t => ipc[v] # "send"
        BY <3>1, Zenon
      <4>2. \A v \in Interfaces : ipc'[v] # "send"
        BY <1>0, <2>1, <2>3, <4>1, Zenon DEF Threads
      <4> QED
        BY <4>2, Zenon
    <3> QED
      BY <2>1, <2>3, <3>1, <3>2, Zenon DEF SoleWaiter, Blocked
  <2> QED
    BY <2>1, <2>2, <2>3, Zenon
<1>6. CASE UNCHANGED vars
  BY <1>0, <1>6, Zenon DEF SoleWaiter, Blocked, vars
<1> QED
  BY <1>1, <1>2, <1>3, <1>4, <1>5, <1>6, Zenon DEF Next, Step

\* A set that gains one member, or none.
LEMMA Grows ==
  ASSUME NEW S, NEW T, NEW x, IsFiniteSet(S), T = S \cup {x}, x \notin S
  PROVE  Cardinality(T) = Cardinality(S) + 1
BY FS_AddElement

LEMMA BalanceNext == IInv /\ [Next]_vars => Balance'
<1> SUFFICES ASSUME IInv, [Next]_vars
             PROVE  Balance'
  OBVIOUS
<1>0. /\ Balance /\ Shape /\ Lending
      /\ pc \in [Threads -> Labels]
      /\ ipc \in [Threads -> {"none", "enter", "recv", "send"}]
      /\ lock \in [{"pre", "init", "post"} -> Int]
      /\ left \in Nat
      /\ "control" \notin Interfaces /\ "fault" \notin Interfaces
      /\ "none" \notin Interfaces
  BY StartupAssumption, Zenon DEF IInv, TypeOK
<1>s. /\ Cardinality(Active) \in Nat /\ Cardinality(build.passive) \in Nat
      /\ Cardinality(Active \cup build.fault) \in Nat
      /\ build.fault \in SUBSET {"fault"} /\ build.passive \in SUBSET Interfaces
  BY Sizes, Zenon DEF IInv, TypeOK
<1>c. /\ IsFiniteSet(Done) /\ IsFiniteSet(Started) /\ IsFiniteSet(Ended)
      /\ Cardinality(Done) \in Nat /\ Cardinality(Started) \in Nat
      /\ Cardinality(Ended) \in Nat
      /\ IsFiniteSet(build.passive \ todo)
      /\ Cardinality(build.passive \ todo) \in Nat
      /\ Cardinality(build.passive \ {}) = Cardinality(build.passive)
      /\ Cardinality(build.passive \ build.passive) = 0
  BY Counts DEF IInv
<1>1. CASE Control \/ RunReturns \/ BindFails \/ UnbindFails
  <2>1. /\ Moves
        /\ \A v \in Threads \ {"control"} : pc'[v] = pc[v]
        /\ ipc["control"] = "none" /\ UNCHANGED <<build, ipc, lock>>
    BY <1>1, ControlMoves, Zenon DEF IInv
  <2>2. Done' = Done /\ Started' = Started /\ Ended' = Ended
    <3>1. \A v \in Interfaces \cup build.fault : pc'[v] = pc[v] /\ ipc'[v] = ipc[v]
      BY <1>0, <1>s, <2>1, Zenon DEF Threads
    <3> QED
      BY <2>1, <3>1, SamePlace, SameSets
  <2>3. Active' = Active /\ build' = build /\ lock' = lock
    BY <2>1, Zenon DEF Active
  <2>4. sc \in todo => Cardinality(build.passive \ (todo \ {sc})) =
                         Cardinality(build.passive \ todo) + 1
    <3> SUFFICES ASSUME sc \in todo
                 PROVE  Cardinality(build.passive \ (todo \ {sc})) =
                          Cardinality(build.passive \ todo) + 1
      OBVIOUS
    <3>0. todo \subseteq build.passive
      BY <1>0, Zenon DEF Lending
    <3>1. build.passive \ (todo \ {sc}) = (build.passive \ todo) \cup {sc}
      BY <3>0, Zenon
    <3> QED
      BY <3>1, <1>c, Grows, Zenon
  <2>5. Asked' = Asked /\ Woken' = Woken
    <3>1. ipc["control"] = "none" /\ ~Blocked("control") /\ ~Blocked("control")'
          /\ ipc'["control"] = "none"
      BY <2>1 DEF Blocked
    <3>2. CASE c \in {"preInit", "wake", "gather"}
      <4>1. \/ c = "preInit" /\ c' = "wake" /\ left' = Cardinality(Active \cup build.fault)
            \/ c = "wake" /\ c' = "gather" /\ left = 0 /\ left' = Cardinality(Active)
            \/ c = "gather" /\ c' = "passives" /\ left = 0 /\ todo' = build.passive
        BY <2>1, <3>2, Zenon DEF Moves, Move
      <4>2. Served = 0 /\ Served' = 0
        BY <1>c, <2>3, <4>1, Zenon DEF Served, Lone, Late, ControlLabels
      <4> QED
        BY <1>s, <2>3, <3>1, <4>1, <4>2 DEF Asked, Woken, One
    <3>3. CASE c = "passives"
      <4>1. \/ c' = "postInit" /\ todo = {}
            \/ c' \in {"wakeOne", "aborted"} /\ todo' = todo /\ (c' = "aborted" => sc' = sc)
        BY <2>1, <3>3, Zenon DEF Moves, Move
      <4>2. sc = "none"
        BY <1>0, <3>3, Zenon DEF Lending
      <4>3. Served' = Served
        BY <1>c, <2>3, <3>3, <4>1, Zenon DEF Served, Lone, Late, ControlLabels
      <4> QED
        BY <2>3, <3>1, <3>3, <4>1, <4>2, <4>3 DEF Asked, Woken, One
    <3>4. CASE c = "unbind"
      <4>1. sc \in todo /\ sc # "none"
        BY <1>0, <1>s, <3>4 DEF Lending
      <4>2. \/ c' = "aborted" /\ todo' = todo /\ sc' = sc
            \/ c' = "passives" /\ todo' = todo \ {sc}
        BY <2>1, <3>4, Zenon DEF Moves, Move
      <4>3. Served \in Nat
        BY <1>c, <3>4 DEF Served, Lone
      <4>4. CASE c' = "aborted" /\ todo' = todo /\ sc' = sc
        <5>1. Served' = Served
          BY <2>3, <3>4, <4>4 DEF Served, Lone
        <5> QED
          BY <1>s, <2>3, <3>1, <3>4, <4>1, <4>3, <4>4, <5>1 DEF Asked, Woken, One
      <4>5. CASE c' = "passives" /\ todo' = todo \ {sc}
        <5>1. Served' = Served + 1
          BY <2>3, <2>4, <3>4, <4>1, <4>5 DEF Served, Lone
        <5> QED
          BY <1>s, <2>3, <3>1, <3>4, <4>3, <4>5, <5>1 DEF Asked, Woken, One
      <4> QED
        BY <4>2, <4>4, <4>5
    <3>5. CASE c \in Late
      <4>1. c' \in Late
        BY <2>1, <3>5, Zenon DEF Moves, Move, Late, Lone, ControlLabels
      <4>2. Served' = Served
        BY <2>3, <3>5, <4>1 DEF Served, Late
      <4> QED
        BY <2>3, <3>1, <3>5, <4>1, <4>2, Zenon DEF Asked, Woken, One, Late,
          Lone
    <3> QED
      BY <2>1, <3>2, <3>3, <3>4, <3>5, Zenon DEF Moves, Move, Late, Lone,
        ControlLabels
  <2> QED
    BY <1>0, <2>2, <2>3, <2>5 DEF Balance
<1>2. ASSUME NEW t \in Threads, sync_sem_bare_wait(t)
      PROVE  Balance'
  <2>0. Active' = Active /\ build' = build /\ todo' = todo /\ sc' = sc
    BY <1>2, WaitKinds, Zenon DEF Active
  <2>f. /\ \A v \in Threads \ {t} : pc'[v] = pc[v] /\ ipc'[v] = ipc[v]
        /\ \/ pc'[t] = After[pc[t]] /\ ipc'[t] = "none"
           \/ pc'[t] = pc[t] /\ ipc'[t] = "enter"
        /\ ipc[t] = "none"
    BY <1>2, WaitKinds, WaitFrame
  <2>o. \A v \in Interfaces \cup build.fault : v # t =>
          /\ HasInited(v)' <=> HasInited(v)
          /\ HasStarted(v)' <=> HasStarted(v)
          /\ HasEnded(v)' <=> HasEnded(v)
    BY <1>s, <2>f, SamePlace, Zenon DEF Threads
  <2>1. CASE t = "control"
    <3>1. Done' = Done /\ Started' = Started /\ Ended' = Ended
      BY <1>0, <1>s, <2>0, <2>1, <2>o, SameSets
    <3>2. lock' = [lock EXCEPT !["init"] = lock["init"] - 1]
      <4>1. c \in {"gather", "gatherOne", "finish", "aborted"}
        BY <1>0, <1>2, <2>1, WaitKinds DEF c
      <4>2. Waits[pc[t]] = "init"
        BY <2>1, <4>1, Tables, Zenon DEF c
      <4> QED
        BY <1>2, <4>2, WaitCases
    <3>3. \/ c = "gather" /\ c' = "gather" /\ left' = left - 1
          \/ /\ c = "gatherOne" /\ ~Blocked("control") /\ left' = left
             /\ c' = "unbind" \/ (c' = "gatherOne" /\ Blocked("control")')
          \/ /\ c \in {"finish", "aborted"} /\ ~Blocked("control") /\ left' = left
             /\ c' = c /\ Blocked("control")'
      <4>1. left' = IF c = "gather" THEN left - 1 ELSE left
        BY <1>2, <2>1, WaitCases, Zenon
      <4>2. \/ c \in {"gather", "gatherOne"}
            \/ c \in {"finish", "aborted"} /\ pc' = pc
        BY <1>0, <1>2, <2>1, WaitKinds DEF c
      <4>3. After["aborted"] # "aborted" /\ After["finish"] # "finish"
        BY Tables, Zenon
      <4> QED
        BY <2>1, <2>f, <4>1, <4>2, <4>3, Tables DEF c, Blocked
    <3>4. Served' = Served
      BY <2>0, <3>3, Zenon DEF Served, Lone, Late
    <3>5. Served \in Nat
      BY <1>s, <1>c, Zenon DEF Served
    <3>6. Asked' = Asked + 1
      BY <1>0, <1>s, <2>0, <3>3, <3>4, <3>5 DEF Asked, One
    <3>7. Woken' = Woken
      BY <1>0, <1>s, <2>0, <3>3, <3>4, <3>5, Zenon DEF Woken, One
    <3>8. Asked \in Int
      BY Counts, Zenon DEF IInv
    <3> QED
      BY <1>0, <1>c, <3>1, <3>2, <3>6, <3>7, <3>8 DEF Balance
  <2>2. CASE t # "control"
    <3>1. c' = c /\ left' = left /\ Asked' = Asked /\ Woken' = Woken
      <4>1. c' = c /\ ipc'["control"] = ipc["control"]
        BY <2>2, <2>f, Zenon DEF c, Threads
      <4>2. left' = left
        BY <1>2, <2>2, WaitCases, Zenon
      <4> QED
        BY <2>0, <4>1, <4>2, Zenon DEF Asked, Woken, Served, Blocked
    <3>2. Done' = Done
      <4>1. pc[t] \in {"start", "sync", "end"}
        BY <1>2, <2>2, WaitKinds
      <4>2. HasInited(t)' <=> HasInited(t)
        BY <2>f, <4>1, Tables DEF HasInited
      <4> QED
        BY <2>o, <4>2, SameSets, Zenon
    <3>3. CASE pc[t] = "start"
      <4>1. lock' = [lock EXCEPT !["pre"] = lock["pre"] - 1]
        BY <1>2, <3>3, WaitCases, Tables
      <4>2. Ended' = Ended
        <5>1. HasEnded(t)' <=> HasEnded(t)
          BY <2>f, <3>3, Tables DEF HasEnded
        <5> QED
          BY <2>o, <5>1, SameSets
      <4>3. Started' = Started \cup {t} /\ t \notin Started
        <5>1. ~HasStarted(t) /\ HasStarted(t)'
          BY <2>f, <3>3, Tables DEF HasStarted
        <5>2. t \in Interfaces \cup build.fault
          BY <1>2, <2>2, WaitKinds
        <5> QED
          BY <2>0, <2>o, <5>1, <5>2, OneMore, Zenon
      <4>4. Cardinality(Started') = Cardinality(Started) + 1
        BY <4>3, <1>c, Grows, Zenon
      <4>5. Woken \in Int
        BY Counts, Zenon DEF IInv
      <4> QED
        BY <1>0, <1>c, <3>1, <3>2, <4>1, <4>2, <4>4, <4>5 DEF Balance
    <3>4. CASE pc[t] = "end"
      <4>1. lock' = [lock EXCEPT !["pre"] = lock["pre"] - 1]
        BY <1>2, <3>4, WaitCases, Tables
      <4>2. Started' = Started
        <5>1. HasStarted(t)' <=> HasStarted(t)
          BY <2>f, <3>4, Tables DEF HasStarted
        <5> QED
          BY <2>0, <2>o, <5>1, SameSets, Zenon
      <4>3. Ended' = Ended \cup {t} /\ t \notin Ended
        <5>1. ~HasEnded(t) /\ HasEnded(t)'
          BY <2>f, <3>4, Tables DEF HasEnded, Blocked
        <5>2. t \in Interfaces
          BY <1>2, <2>2, <3>4, WaitKinds
        <5> QED
          BY <2>o, <5>1, <5>2, OneMore, Zenon
      <4>4. Cardinality(Ended') = Cardinality(Ended) + 1
        BY <4>3, <1>c, Grows
      <4>5. Woken \in Int
        BY Counts, Zenon DEF IInv
      <4> QED
        BY <1>0, <1>c, <3>1, <3>2, <4>1, <4>2, <4>4, <4>5 DEF Balance
    <3>5. CASE pc[t] = "sync"
      <4>1. lock' = [lock EXCEPT !["post"] = lock["post"] - 1]
        BY <1>2, <3>5, WaitCases, Tables
      <4>2. Started' = Started /\ Ended' = Ended
        <5>1. /\ HasStarted(t)' <=> HasStarted(t)
              /\ HasEnded(t)' <=> HasEnded(t)
          BY <2>f, <3>5, Tables DEF HasStarted, HasEnded
        <5> QED
          BY <2>0, <2>o, <5>1, SameSets
      <4> QED
        BY <1>0, <3>1, <3>2, <4>1, <4>2 DEF Balance
    <3> QED
      BY <1>2, <2>2, <3>3, <3>4, <3>5, WaitKinds
  <2> QED
    BY <2>1, <2>2, Zenon
<1>3. ASSUME NEW t \in Threads, sync_sem_bare_post(t)
      PROVE  Balance'
  <2>0. Active' = Active /\ build' = build /\ todo' = todo /\ sc' = sc
    BY <1>3, PostKinds, Zenon DEF Active
  <2>f. /\ \A v \in Threads \ {t} : pc'[v] = pc[v] /\ ipc'[v] = ipc[v]
        /\ \/ pc'[t] = After[pc[t]] /\ ipc'[t] = "none"
           \/ pc'[t] = pc[t] /\ ipc'[t] = "send"
        /\ ipc[t] = "none"
    BY <1>3, PostKinds, PostFrame, Zenon
  <2>o. \A v \in Interfaces \cup build.fault : v # t =>
          /\ HasInited(v)' <=> HasInited(v)
          /\ HasStarted(v)' <=> HasStarted(v)
          /\ HasEnded(v)' <=> HasEnded(v)
    BY <1>s, <2>f, SamePlace DEF Threads
  <2>1. CASE t = "control"
    <3>1. Done' = Done /\ Started' = Started /\ Ended' = Ended
      BY <1>0, <1>s, <2>0, <2>1, <2>o, SameSets, Zenon
    <3>2. \/ /\ c = "wake" /\ c' = "wake" /\ left' = left - 1
             /\ lock' = [lock EXCEPT !["pre"] = lock["pre"] + 1]
          \/ /\ c = "wakeOne" /\ ipc["control"] = "none" /\ left' = left
             /\ c' = "gatherOne" \/ (c' = "wakeOne" /\ ipc'["control"] = "send")
             /\ lock' = [lock EXCEPT !["pre"] = lock["pre"] + 1]
          \/ /\ c = "release" /\ c' = "release"
             /\ lock' = [lock EXCEPT !["post"] = lock["post"] + 1]
      <4>1. left' = IF c \in {"wake", "release"} THEN left - 1 ELSE left
        BY <1>3, <2>1, PostCases, Zenon
      <4>2. lock' = [lock EXCEPT ![Posts[pc[t]]] = lock[Posts[pc[t]]] + 1]
        BY <1>3, PostCases, Zenon
      <4>3. c \in {"wake", "wakeOne", "release"}
        BY <1>0, <1>3, <2>1, PostKinds DEF c
      <4>4. \/ c = "wake" /\ Posts[pc[t]] = "pre" /\ c' = "wake"
            \/ /\ c = "wakeOne" /\ Posts[pc[t]] = "pre"
               /\ c' = "gatherOne" \/ (c' = "wakeOne" /\ ipc'["control"] = "send")
            \/ c = "release" /\ Posts[pc[t]] = "post" /\ c' = "release"
        BY <2>1, <2>f, <4>3, Tables DEF c
      <4> QED
        BY <2>1, <2>f, <4>1, <4>2, <4>4
    <3>3. ~Blocked("control") /\ ~Blocked("control")'
      BY <2>1, <2>f, Zenon DEF Blocked
    <3>4. Served' = Served
      BY <2>0, <3>2 DEF Served, Lone, Late
    <3>5. Served \in Nat
      BY <1>s, <1>c, Zenon DEF Served
    <3>6. Asked' = Asked
      BY <1>0, <1>s, <2>0, <3>2, <3>3, <3>4, <3>5 DEF Asked, One
    <3>7. Woken' = Woken + One(c # "release")
      BY <1>0, <1>s, <2>0, <3>2, <3>4, <3>5 DEF Woken, One
    <3>8. Woken \in Int
      BY Counts, Zenon DEF IInv
    <3> QED
      BY <1>0, <1>c, <3>1, <3>2, <3>6, <3>7, <3>8 DEF Balance, One
  <2>2. CASE t \in Interfaces /\ pc[t] = "inited"
    <3>1. Asked' = Asked /\ Woken' = Woken
      <4>1. c' = c /\ ipc'["control"] = ipc["control"]
        BY <1>0, <2>2, <2>f, Zenon DEF c, Threads
      <4>2. left' = left
        BY <1>0, <1>3, <2>2, PostCases, Zenon
      <4> QED
        BY <2>0, <4>1, <4>2, Zenon DEF Asked, Woken, Served, Blocked
    <3>2. Started' = Started /\ Ended' = Ended
      <4>1. /\ HasStarted(t)' <=> HasStarted(t)
            /\ HasEnded(t)' <=> HasEnded(t)
        BY <2>2, <2>f, Tables DEF HasStarted, HasEnded
      <4> QED
        BY <2>0, <2>o, <4>1, SameSets, Zenon
    <3>3. Done' = Done \cup {t} /\ t \notin Done
      <4>1. ~HasInited(t) /\ HasInited(t)'
        BY <2>2, <2>f, Tables DEF HasInited
      <4> QED
        BY <2>2, <2>o, <4>1, OneMore, Zenon
    <3>4. Cardinality(Done') = Cardinality(Done) + 1
      BY <3>3, <1>c, Grows, Zenon
    <3>5. lock' = [lock EXCEPT !["init"] = lock["init"] + 1]
      BY <1>3, <2>2, PostCases, Tables
    <3>6. Asked \in Int
      BY Counts, Zenon DEF IInv
    <3> QED
      BY <1>0, <1>c, <3>1, <3>2, <3>4, <3>5, <3>6 DEF Balance
  <2> QED
    BY <1>3, <2>1, <2>2, PostKinds, Zenon
<1>4. ASSUME NEW t \in Threads, Receive(t) \/ InterfaceInit(t) \/ InterfaceRun(t)
      PROVE  Balance'
  <2>1. /\ UNCHANGED <<build, lock, left, todo, sc>> /\ c' = c
        /\ \A v \in Threads \ {t} : pc'[v] = pc[v] /\ ipc'[v] = ipc[v]
        /\ \/ ipc[t] = "enter" /\ ipc'[t] = "recv" /\ pc'[t] = pc[t]
           \/ /\ pc[t] = "init" /\ pc'[t] \in {"inited", "handling"}
              /\ ipc[t] = "none" /\ ipc'[t] = "none"
           \/ /\ pc[t] = "ready" /\ pc'[t] \in {"serve", "end"}
              /\ ipc[t] = "none" /\ ipc'[t] = "none"
    BY <1>4, LocalSteps, Zenon
  <2>2. Done' = Done /\ Started' = Started /\ Ended' = Ended
    <3>1. /\ HasInited(t)' <=> HasInited(t)
          /\ HasStarted(t)' <=> HasStarted(t)
          /\ HasEnded(t)' <=> HasEnded(t)
      BY <2>1, Zenon DEF HasInited, HasStarted, HasEnded, Blocked
    <3>2. \A v \in Interfaces \cup build.fault :
            /\ HasInited(v)' <=> HasInited(v)
            /\ HasStarted(v)' <=> HasStarted(v)
            /\ HasEnded(v)' <=> HasEnded(v)
      BY <1>s, <2>1, <3>1, SamePlace, Zenon DEF Threads
    <3> QED
      BY <2>1, <3>2, SameSets, Zenon
  <2>b. /\ (Blocked("control"))' = Blocked("control")
        /\ (ipc'["control"] = "send") = (ipc["control"] = "send")
    BY <2>1 DEF Blocked, Threads
  <2>3. Asked' = Asked /\ Woken' = Woken
    BY <2>1, <2>b, Zenon DEF Asked, Woken, Served, Active
  <2> QED
    BY <1>0, <2>1, <2>2, <2>3, Zenon DEF Balance
<1>5. ASSUME NEW t \in Threads, NEW u \in Threads, Meet(t, u)
      PROVE  Balance'
  <2>1. /\ \A v \in Threads \ {t, u} : pc'[v] = pc[v] /\ ipc'[v] = ipc[v]
        /\ pc'[t] = After[pc[t]] /\ ipc'[t] = "none"
        /\ pc'[u] = After[pc[u]] /\ ipc'[u] = "none"
        /\ ipc[t] = "send" /\ ipc[u] = "recv"
    <3>1. ipc[t] = "send" /\ ipc[u] = "recv"
      BY <1>5, MeetKinds, Zenon
    <3> QED
      BY <1>5, <3>1, MeetFrame
  <2>2. UNCHANGED <<build, lock, left, todo, sc>>
    BY <1>5, MeetKinds
  <2>k. \/ /\ t = "control" /\ pc[t] \in {"wake", "wakeOne"}
           /\ u # "control" /\ pc[u] = "start"
        \/ t = "control" /\ pc[t] = "release" /\ u # "control" /\ pc[u] = "sync"
        \/ /\ t # "control" /\ pc[t] = "inited"
           /\ u = "control" /\ pc[u] \in {"gather", "gatherOne"}
    BY <1>0, <1>s, <1>5, MeetKinds
  <2>d. Done' = Done /\ Started' = Started /\ Ended' = Ended
    <3>1. /\ t # "control" => /\ HasInited(t)' <=> HasInited(t)
                              /\ HasStarted(t)' <=> HasStarted(t)
                              /\ HasEnded(t)' <=> HasEnded(t)
          /\ u # "control" => /\ HasInited(u)' <=> HasInited(u)
                              /\ HasStarted(u)' <=> HasStarted(u)
                              /\ HasEnded(u)' <=> HasEnded(u)
      BY <2>1, <2>k, Tables DEF HasInited, HasStarted, HasEnded
    <3>2. \A v \in Interfaces \cup build.fault :
            /\ HasInited(v)' <=> HasInited(v)
            /\ HasStarted(v)' <=> HasStarted(v)
            /\ HasEnded(v)' <=> HasEnded(v)
      <4> SUFFICES ASSUME NEW v \in Interfaces \cup build.fault
                   PROVE  /\ HasInited(v)' <=> HasInited(v)
                          /\ HasStarted(v)' <=> HasStarted(v)
                          /\ HasEnded(v)' <=> HasEnded(v)
        OBVIOUS
      <4>1. v \in Threads /\ v # "control"
        BY <1>0, <1>s, Zenon DEF Threads
      <4>2. CASE v = t \/ v = u
        BY <3>1, <4>1, <4>2
      <4>3. CASE v # t /\ v # u
        <5>1. pc'[v] = pc[v] /\ ipc'[v] = ipc[v]
          BY <2>1, <4>1, <4>3, Zenon
        <5> QED
          BY <5>1, SamePlace, Zenon
      <4> QED
        BY <4>2, <4>3, Zenon
    <3> QED
      BY <2>2, <3>2, SameSets, Zenon
  <2>3. \/ c \in {"wake", "release", "gather"} /\ c' = c
        \/ c = "wakeOne" /\ c' = "gatherOne" /\ ipc["control"] = "send"
           /\ ~Blocked("control")'
        \/ c = "gatherOne" /\ c' = "unbind" /\ Blocked("control")
    BY <2>1, <2>k, Tables DEF c, Blocked
  <2>4. Served' = Served
    BY <2>2, <2>3, Zenon DEF Served, Lone, Late
  <2>5. Served \in Nat
    BY Counts, Zenon DEF IInv
  <2>6. Asked' = Asked /\ Woken' = Woken
    <3>1. CASE c \in {"wake", "release", "gather"} /\ c' = c
      BY <2>2, <2>4, <3>1, Zenon DEF Asked, Woken, Active, One
    <3>2. CASE c = "wakeOne" /\ c' = "gatherOne" /\ ipc["control"] = "send"
               /\ ~Blocked("control")'
      BY <1>s, <2>2, <2>4, <2>5, <3>2, Zenon DEF Asked, Woken, Active, One
    <3>3. CASE c = "gatherOne" /\ c' = "unbind" /\ Blocked("control")
      BY <1>s, <2>2, <2>4, <2>5, <3>3 DEF Asked, Woken, Active, One
    <3> QED
      BY <2>3, <3>1, <3>2, <3>3
  <2> QED
    BY <1>0, <2>2, <2>d, <2>6 DEF Balance
<1>6. CASE UNCHANGED vars
  <2>1. Done' = Done /\ Started' = Started /\ Ended' = Ended
    BY <1>6, SamePlace, SameSets, Zenon DEF vars
  <2>2. Asked' = Asked /\ Woken' = Woken
    BY <1>6, Zenon DEF Asked, Woken, Served, Active, Blocked, vars, c
  <2> QED
    BY <1>0, <1>6, <2>1, <2>2, Zenon DEF Balance, vars
<1> QED
  BY <1>1, <1>2, <1>3, <1>4, <1>5, <1>6, Zenon DEF Next, Step
------------------------------------------------------------------------------
LEMMA InitIInv == Init => IInv
<1> SUFFICES ASSUME Init
             PROVE  IInv
  OBVIOUS
<1>1. TypeOK
  BY TypeInit, Zenon
<1>2. /\ c = "preInit"
      /\ \A t \in Interfaces : pc[t] = "start"
      /\ pc["fault"] = IF build.fault = {} THEN "absent" ELSE "start"
      /\ \A t \in Threads : ipc[t] = "none"
      /\ \A t \in build.fault : t = "fault"
      /\ lock["pre"] = 0 /\ lock["init"] = 0 /\ lock["post"] = 0
      /\ left = 0 /\ todo = {} /\ sc = "none"
  <2>1. build.fault \in SUBSET {"fault"}
    BY <1>1, Sizes, Zenon DEF TypeOK
  <2> QED
    BY <2>1, StartupAssumption, Zenon DEF Init, c, Threads
<1>3. Shape
  BY <1>2, Zenon DEF Shape, ControlLabels, InterfaceLabels, Blocked, Threads
<1>4. Lending
  BY <1>1, <1>2, Sizes, Zenon DEF Lending, TypeOK, Threads
<1>5. Ordered
  BY <1>2 DEF Ordered, Late, Early, ControlLabels, Threads
<1>6. SoleWaiter
  BY <1>2 DEF SoleWaiter, Blocked, Threads
<1>7. Balance
  <2>1. Done = {} /\ Started = {} /\ Ended = {}
    BY <1>2, Zenon DEF Done, Started, Ended, HasInited, HasStarted, HasEnded,
      Threads
  <2>2. Asked = 0 /\ Woken = 0
    BY <1>2 DEF Asked, Woken, Served, One, Lone, Late
  <2> QED
    BY <1>2, <2>1, <2>2, FS_EmptySet DEF Balance
<1> QED
  BY <1>1, <1>3, <1>4, <1>5, <1>6, <1>7 DEF IInv

LEMMA Invariance == Spec => []IInv
<1>1. IInv /\ [Next]_vars => IInv'
  BY TypeNext, ShapeNext, LendingNext, OrderedNext, SoleWaiterNext, BalanceNext
     DEF IInv
<1> QED
  BY InitIInv, <1>1, PTL DEF Spec

\* The type invariant of start-up.
THEOREM TypeCorrect == Spec => []TypeOK
<1>1. IInv => TypeOK
  BY Zenon DEF IInv
<1> QED
  BY Invariance, <1>1, PTL

\* No thread leaves post_main, however the last waits on pre_init and on
\* interface_init meet the posts of start-up.
THEOREM StayCorrect == Spec => []NoThreadReturns
<1>1. IInv => NoThreadReturns
  <2> SUFFICES ASSUME IInv, WakeUpsKept, NEW t \in Threads, pc[t] = "returned"
               PROVE  FALSE
    BY Zenon DEF NoThreadReturns
  <2> QED
    BY Zenon DEF IInv, Shape, WakeUpsKept, Threads, c, ControlLabels
<1> QED
  BY Invariance, <1>1, PTL

\* The two barriers implement the life cycle.
THEOREM LifecycleCorrect == Spec => ImplementsLifecycle
<1>1. Init => Lifecycle!Init
  <2> SUFFICES ASSUME Init
               PROVE  Lifecycle!Init
    OBVIOUS
  <2>1. c = "preInit" /\ \A t \in Interfaces : pc[t] = "start"
    BY StartupAssumption DEF Init, c, Threads
  <2> QED
    BY <2>1, Zenon DEF Lifecycle!Init, Phase, Inited, Serving, c
<1>2. IInv /\ [Next]_vars => [Lifecycle!Next]_(Lifecycle!vars)
  <2> SUFFICES ASSUME IInv, [Next]_vars
               PROVE  [Lifecycle!Next]_(Lifecycle!vars)
    OBVIOUS
  <2>0. /\ Shape /\ Ordered
        /\ pc \in [Threads -> Labels]
        /\ "control" \notin Interfaces /\ "fault" \notin Interfaces
    BY StartupAssumption, Zenon DEF IInv, TypeOK
  <2> DEFINE Stutter == UNCHANGED <<Phase, Inited, Serving>>
  <2>s. Stutter => [Lifecycle!Next]_(Lifecycle!vars)
    BY DEF Lifecycle!vars
  <2>1. CASE Control \/ RunReturns \/ BindFails \/ UnbindFails
    <3>1. /\ Moves
          /\ \A v \in Threads \ {"control"} : pc'[v] = pc[v]
          /\ ipc["control"] = "none" /\ UNCHANGED <<build, ipc, lock>>
      BY <2>1, ControlMoves, Zenon DEF IInv
    <3>i. \A v \in Interfaces : pc'[v] = pc[v] /\ ipc'[v] = ipc[v]
      BY <2>0, <3>1, Zenon DEF Threads
    <3>2. UNCHANGED <<Inited, Serving>>
      BY <3>i, Zenon DEF Inited, Serving
    <3>3. c = "passives" /\ c' = "postInit" => Inited = Interfaces
      <4> SUFFICES ASSUME c = "passives", c' = "postInit"
                   PROVE  Inited = Interfaces
        OBVIOUS
      <4>1. Done' = Interfaces
        BY OrderedNext, Zenon DEF Ordered, Late, Lone, ControlLabels
      <4>2. Done' = Done
        BY <3>i, SamePlace, SameSets, Zenon
      <4> QED
        BY <4>1, <4>2, Zenon DEF Done, HasInited, Inited
    <3>4. \/ Phase' = Phase
          \/ c = "preInit" /\ Phase = "pre_init" /\ Phase' = "interface_init"
          \/ /\ c = "passives" /\ c' = "postInit"
             /\ Phase = "interface_init" /\ Phase' = "post_init"
          \/ Phase = "post_init" /\ Phase' = "up"
      <4>1. Moves
        BY <3>1, Zenon
      <4> QED
        BY <4>1 DEF Moves, Move, Phase, c
    <3> QED
      BY <2>s, <3>2, <3>3, <3>4 DEF Lifecycle!Next, Lifecycle!PreInitDone,
         Lifecycle!AllInited, Lifecycle!PostInitDone
  <2>p. ASSUME c' = c \/ {c, c'} \subseteq Lone,
               \A v \in Interfaces : \/ pc'[v] = pc[v]
                                      \/ {pc[v], pc'[v]} \subseteq {"start", "init"}
                                      \/ {pc[v], pc'[v]} \subseteq {"inited", "sync", "ready"}
                                      \/ {pc[v], pc'[v]} \subseteq {"end", "returned"}
        PROVE  Stutter
    <3>1. Phase' = Phase
      BY <2>p DEF Phase, Lone, c
    <3> QED
      BY <2>p, <3>1, Zenon DEF Inited, Serving
  <2>2. ASSUME NEW t \in Threads, sync_sem_bare_wait(t)
        PROVE  Stutter
    <3>1. /\ \A v \in Threads \ {t} : pc'[v] = pc[v]
          /\ pc'[t] = After[pc[t]] \/ pc'[t] = pc[t]
      BY <2>2, WaitFrame
    <3>2. \/ t = "control" /\ pc[t] \in {"gather", "gatherOne"}
          \/ t = "control" /\ pc' = pc
          \/ t # "control" /\ pc[t] \in {"start", "sync", "end"}
      BY <2>0, <2>2, WaitKinds
    <3>3. c' = c \/ {c, c'} \subseteq Lone
      BY <3>1, <3>2, Tables DEF c, Lone, Threads
    <3>4. \A v \in Interfaces : \/ pc'[v] = pc[v]
                                 \/ {pc[v], pc'[v]} \subseteq {"start", "init"}
                                 \/ {pc[v], pc'[v]} \subseteq {"inited", "sync", "ready"}
                                 \/ {pc[v], pc'[v]} \subseteq {"end", "returned"}
      BY <2>0, <3>1, <3>2, Tables DEF Threads
    <3> QED
      BY <2>p, <3>3, <3>4, Zenon
  <2>3. ASSUME NEW t \in Threads, sync_sem_bare_post(t)
        PROVE  Stutter
    <3>1. /\ \A v \in Threads \ {t} : pc'[v] = pc[v]
          /\ pc'[t] = After[pc[t]] \/ pc'[t] = pc[t]
      BY <2>3, PostFrame
    <3>2. \/ t = "control" /\ pc[t] \in {"wake", "wakeOne", "release"}
          \/ t # "control" /\ pc[t] = "inited"
      BY <2>0, <2>3, PostKinds, Zenon
    <3>3. c' = c \/ {c, c'} \subseteq Lone
      BY <3>1, <3>2, Tables DEF c, Lone, Threads
    <3>4. \A v \in Interfaces : \/ pc'[v] = pc[v]
                                 \/ {pc[v], pc'[v]} \subseteq {"inited", "sync", "ready"}
      BY <2>0, <3>1, <3>2, Tables DEF Threads
    <3> QED
      BY <2>p, <3>3, <3>4, Zenon
  <2>4. ASSUME NEW t \in Threads, Receive(t)
        PROVE  Stutter
    BY <2>4, Zenon DEF Receive, Phase, Inited, Serving
  <2>5. ASSUME NEW t \in Threads, InterfaceInit(t)
        PROVE  [Lifecycle!Next]_(Lifecycle!vars)
    <3>1. pc[t] = "init" /\ t # "control" /\ c' = c /\ Phase' = Phase
      BY <2>0, <2>5, Zenon DEF InterfaceInit, At, Goto, Shape, ControlLabels,
        c, Phase, Threads
    <3>2. CASE t \in Interfaces
      <4>1. Inited' = Inited \cup {t} /\ Serving' = Serving
        BY <2>0, <2>5, <3>1, <3>2, Zenon DEF InterfaceInit, Goto, Inited,
          Serving, Threads
      <4>2. c # "preInit" /\ c \notin Late
        BY <2>0, <3>1, <3>2, Zenon DEF Ordered, Done, HasInited, Threads
      <4>3. Phase = "interface_init"
        BY <2>0, <4>2, Zenon DEF Phase, Shape, Late, Lone, ControlLabels, c
      <4> QED
        BY <3>1, <3>2, <4>1, <4>3, Zenon DEF Lifecycle!Next,
          Lifecycle!InterfaceInit
    <3>3. CASE t = "fault"
      BY <2>s, <2>0, <2>5, <3>1, <3>3 DEF InterfaceInit, Goto, Inited, Serving, Threads
    <3> QED
      BY <3>1, <3>2, <3>3, Zenon DEF Threads
  <2>6. ASSUME NEW t \in Threads, InterfaceRun(t)
        PROVE  [Lifecycle!Next]_(Lifecycle!vars)
    <3>1. pc[t] = "ready" /\ t \in Interfaces /\ c' = c /\ Phase' = Phase
      BY <2>0, <2>6, Zenon DEF InterfaceRun, At, Goto, Shape, ControlLabels, c,
        Phase, Threads
    <3>2. Serving' = Serving \cup {t} /\ Inited' = Inited
      BY <2>0, <2>6, <3>1, Zenon DEF InterfaceRun, Goto, Inited, Serving,
        Threads
    <3>3. c \notin Early
      BY <2>0, <3>1, Zenon DEF Ordered
    <3>4. Phase = "up"
      BY <2>0, <3>3, Zenon DEF Phase, Early, Lone, c
    <3> QED
      BY <3>1, <3>2, <3>4, Zenon DEF Lifecycle!Next, Lifecycle!Serve
  <2>7. ASSUME NEW t \in Threads, NEW u \in Threads, Meet(t, u)
        PROVE  Stutter
    <3>1. /\ \A v \in Threads \ {t, u} : pc'[v] = pc[v]
          /\ pc'[t] = After[pc[t]] /\ pc'[u] = After[pc[u]]
      BY <2>7, MeetFrame
    <3>2. \/ /\ t = "control" /\ pc[t] \in {"wake", "wakeOne", "release"}
             /\ u # "control" /\ pc[u] \in {"start", "sync"}
          \/ /\ t # "control" /\ pc[t] = "inited"
             /\ u = "control" /\ pc[u] \in {"gather", "gatherOne"}
      <4>1. build.fault \in SUBSET {"fault"}
        BY Sizes, Zenon DEF IInv, TypeOK
      <4> QED
        BY <2>0, <2>7, <4>1, MeetKinds
    <3>3. c' = c \/ {c, c'} \subseteq Lone
      BY <3>1, <3>2, Tables DEF c, Lone
    <3>4. \A v \in Interfaces : \/ pc'[v] = pc[v]
                                 \/ {pc[v], pc'[v]} \subseteq {"start", "init"}
                                 \/ {pc[v], pc'[v]} \subseteq {"inited", "sync", "ready"}
      BY <2>0, <3>1, <3>2, Tables DEF Threads
    <3> QED
      BY <2>p, <3>3, <3>4, Zenon
  <2>8. CASE UNCHANGED vars
    BY <2>s, <2>8, Zenon DEF vars, Phase, Inited, Serving
  <2> HIDE DEF Stutter
  <2> QED
    BY <2>s, <2>1, <2>2, <2>3, <2>4, <2>5, <2>6, <2>7, <2>8 DEF Next, Step
<1> QED
  BY <1>1, <1>2, Invariance, PTL DEF Spec, ImplementsLifecycle, Lifecycle!Spec
==============================================================================

---------------------------- MODULE StartupProofs ----------------------------
(***************************************************************************)
(* The inductive invariant of component start-up, for any number of        *)
(* interface threads and any build, what a step of each kind can be, and   *)
(* the parts of the invariant that do not count.                           *)
(***************************************************************************)
EXTENDS Startup, FiniteSetTheorems, TLAPS

c == pc["control"]
Blocked(t) == ipc[t] \in {"enter", "recv"}
One(P) == IF P THEN 1 ELSE 0

ControlLabels == {"preInit", "wake", "gather", "passives", "wakeOne",
                  "gatherOne", "unbind", "aborted", "postInit", "release",
                  "settle", "settleWait", "settleUnbind", "run", "finish"}
InterfaceLabels == {"start", "init", "inited", "sync", "ready", "serve", "end",
                    "returned"}
Lone  == {"passives", "wakeOne", "gatherOne", "unbind", "aborted"}
Early == {"preInit", "wake", "gather", "postInit"} \cup Lone
Late  == ControlLabels \ ({"preInit", "wake", "gather"} \cup Lone)

\* Interfaces that have made their post of interface_init, threads that have
\* begun their first wait on pre_init, and interfaces that have begun the last.
HasInited(t)  == \/ pc[t] \in {"sync", "ready", "serve", "end", "returned"}
                 \/ pc[t] = "inited" /\ ipc[t] = "send"
HasStarted(t) == pc[t] # "start" \/ ipc[t] # "none"
HasEnded(t)   == pc[t] = "returned" \/ (pc[t] = "end" /\ Blocked(t))
Done    == {t \in Interfaces : HasInited(t)}
Started == {t \in Interfaces \cup build.fault : HasStarted(t)}
Ended   == {t \in Interfaces : HasEnded(t)}

\* Passive threads the control thread has dealt with, all of them in the end.
Served == IF c \in Lone THEN Cardinality(build.passive \ todo)
          ELSE IF c \in Late THEN Cardinality(build.passive) ELSE 0

\* Waits on interface_init and posts of pre_init the control thread has begun.
Asked == (IF c \in {"preInit", "wake"} THEN 0
          ELSE IF c = "gather" THEN Cardinality(Active) - left
          ELSE Cardinality(Active))
         + Served
         + One(c = "unbind" \/ (c = "aborted" /\ sc # "none"))
         + One(c \in {"gatherOne", "aborted", "finish"} /\ Blocked("control"))
Woken == (IF c = "preInit" THEN 0
          ELSE IF c = "wake" THEN Cardinality(Active \cup build.fault) - left
          ELSE Cardinality(Active \cup build.fault))
         + Served
         + One(\/ c \in {"gatherOne", "unbind"}
               \/ c = "aborted" /\ sc # "none"
               \/ c = "wakeOne" /\ ipc["control"] = "send")

Shape ==
  /\ c \in ControlLabels
  /\ \A t \in Interfaces : pc[t] \in InterfaceLabels
  /\ pc["fault"] \in {"absent", "start", "init", "handling"}
  /\ pc["fault"] = "absent" <=> build.fault = {}
  /\ \A t \in Threads : /\ Blocked(t) => pc[t] \in DOMAIN Waits
                        /\ ipc[t] = "send" => pc[t] \in DOMAIN Posts
  /\ \A t \in Interfaces : pc[t] \in {"end", "returned"} => t \in build.returns
  /\ build.fault = {} => \A t \in Interfaces : pc[t] # "returned"

Lending ==
  /\ todo \subseteq build.passive
  /\ c \in {"wakeOne", "gatherOne", "unbind", "settleWait", "settleUnbind"}
       => sc \in todo
  /\ c \in {"preInit", "wake", "gather", "passives", "postInit"} => sc = "none"
  /\ c = "aborted" => sc = "none" \/ sc \in todo
  /\ \A p \in build.passive :
       (c \in {"preInit", "wake", "gather"} \/ (c \in Lone /\ p \in todo /\ p # sc))
         => pc[p] = "start" /\ ipc[p] = "none"

Ordered ==
  /\ c = "preInit" =>
       /\ lock["pre"] <= 0
       /\ \A t \in Threads \ {"control"} :
            pc[t] \in {"start", "absent"} /\ ipc[t] # "send"
  /\ c \in Early =>
       /\ lock["post"] <= 0
       /\ \A t \in Interfaces : pc[t] \notin {"ready", "serve", "end", "returned"}
  /\ c \in Late => Done = Interfaces

\* The control thread alone waits on interface_init.
SoleWaiter ==
  LET senders == {t \in Interfaces : ipc[t] = "send"} IN
  IF Blocked("control")
    THEN \/ lock["init"] = -1 /\ senders = {}
         \/ lock["init"] >= 0 /\ \E t \in Interfaces : senders = {t}
    ELSE lock["init"] >= 0 /\ senders = {}

Balance ==
  /\ lock["init"] = Cardinality(Done) - Asked
  /\ lock["pre"] = Woken - Cardinality(Started) - Cardinality(Ended)

IInv == /\ TypeOK
        /\ Shape
        /\ Lending
        /\ Ordered
        /\ SoleWaiter
        /\ Balance
------------------------------------------------------------------------------
LEMMA Tables ==
  /\ DOMAIN Waits = {"start", "end", "sync", "gather", "gatherOne", "finish",
                     "aborted"}
  /\ DOMAIN Posts = {"wake", "wakeOne", "inited", "release"}
  /\ Waits["start"] = "pre" /\ Waits["end"] = "pre" /\ Waits["sync"] = "post"
  /\ Waits["gather"] = "init" /\ Waits["gatherOne"] = "init"
  /\ Waits["finish"] = "init" /\ Waits["aborted"] = "init"
  /\ Posts["wake"] = "pre" /\ Posts["wakeOne"] = "pre"
  /\ Posts["inited"] = "init" /\ Posts["release"] = "post"
  /\ After["start"] = "init" /\ After["end"] = "returned"
  /\ After["sync"] = "ready" /\ After["gather"] = "gather"
  /\ After["gatherOne"] = "unbind" /\ After["finish"] = "returned"
  /\ After["aborted"] = "returned" /\ After["wake"] = "wake"
  /\ After["wakeOne"] = "gatherOne" /\ After["inited"] = "sync"
  /\ After["release"] = "release"
BY Zenon DEF Waits, Posts, After

\* The sizes of the sets of threads, in every build.
LEMMA Sizes ==
  ASSUME build \in Builds
  PROVE  /\ build.passive \in SUBSET Interfaces
         /\ build.fault \in SUBSET {"fault"}
         /\ IsFiniteSet(Interfaces) /\ IsFiniteSet(Active)
         /\ IsFiniteSet(build.passive)
         /\ Cardinality(Interfaces) \in Nat /\ Cardinality(Active) \in Nat
         /\ Cardinality(build.passive) \in Nat
         /\ Cardinality(Active \cup build.fault) \in Nat
         /\ build.fault = {} => Active \cup build.fault = Active
         /\ Cardinality(Active) + Cardinality(build.passive) = Cardinality(Interfaces)
<1>1. build \in Build
  BY StartupAssumption
<1>2. build.passive \in SUBSET Interfaces /\ build.fault \in SUBSET {"fault"}
  BY <1>1 DEF Build
<1>3. IsFiniteSet(Interfaces)
  BY StartupAssumption
<1>4. IsFiniteSet(Active) /\ IsFiniteSet(build.passive)
  BY <1>2, <1>3, FS_Subset DEF Active
<1>5. IsFiniteSet(build.fault)
  BY <1>2, FS_Singleton, FS_Subset
<1>6. IsFiniteSet(Active \cup build.fault)
  BY <1>4, <1>5, FS_Union
<1>7. /\ Cardinality(Interfaces) \in Nat /\ Cardinality(Active) \in Nat
      /\ Cardinality(build.passive) \in Nat
      /\ Cardinality(Active \cup build.fault) \in Nat
  BY <1>3, <1>4, <1>6, FS_CardinalityType
<1>8. Cardinality(Active) + Cardinality(build.passive) = Cardinality(Interfaces)
  <2>1. Interfaces = Active \cup build.passive /\ Active \cap build.passive = {}
    BY <1>2 DEF Active
  <2>2. Cardinality(Active \cap build.passive) = 0
    BY <2>1, FS_EmptySet
  <2>3. Cardinality(Active \cup build.passive) =
          Cardinality(Active) + Cardinality(build.passive)
            - Cardinality(Active \cap build.passive)
    BY <1>4, FS_Union
  <2> QED
    BY <2>1, <2>2, <2>3, <1>7
<1> QED
  BY <1>2, <1>3, <1>4, <1>7, <1>8

LEMMA TypeInit == Init => TypeOK
<1> SUFFICES ASSUME Init
             PROVE  TypeOK
  OBVIOUS
<1>1. pc \in [Threads -> Labels]
  BY DEF Init, Labels
<1>2. /\ ipc \in [Threads -> {"none", "enter", "recv", "send"}]
      /\ lock \in [{"pre", "init", "post"} -> Int]
  BY DEF Init
<1>3. /\ build \in Builds /\ left \in Nat /\ todo \in SUBSET Interfaces
      /\ sc \in Interfaces \cup {"none"} /\ ntfn \in BOOLEAN
  BY DEF Init
<1> QED
  BY <1>1, <1>2, <1>3 DEF TypeOK

LEMMA TypeNext == TypeOK /\ Shape /\ [Next]_vars => TypeOK'
<1> SUFFICES ASSUME TypeOK, Shape, [Next]_vars
             PROVE  TypeOK'
  OBVIOUS
<1>s. /\ Cardinality(Interfaces) \in Nat /\ Cardinality(Active) \in Nat
      /\ Cardinality(Active \cup build.fault) \in Nat
      /\ build.passive \in SUBSET Interfaces
  BY Sizes DEF TypeOK
<1>l. \A l \in DOMAIN After : After[l] \in Labels
  BY DEF After, Labels
<1>d. DOMAIN Waits \subseteq DOMAIN After /\ DOMAIN Posts \subseteq DOMAIN After
  BY Zenon DEF Waits, Posts, After
<1>v. /\ \A l \in DOMAIN Waits : Waits[l] \in {"pre", "init", "post"}
      /\ \A l \in DOMAIN Posts : Posts[l] \in {"pre", "init", "post"}
  BY DEF Waits, Posts
<1>e. ASSUME NEW l \in Labels, NEW n \in Nat, Enter(l, n)
      PROVE  TypeOK'
  BY <1>e, Zenon DEF TypeOK, Enter, Goto
<1>a. ASSUME NEW l \in Labels, NEW S \in SUBSET Interfaces, Attend(l, S)
      PROVE  TypeOK'
  BY <1>a, Zenon DEF TypeOK, Attend, Goto
<1>1. CASE PreInit \/ Gather \/ PostInit
  BY <1>1, <1>s, <1>e, Zenon DEF PreInit, Gather, PostInit, Labels
<1>11. CASE Gathered \/ PassivesInited \/ Released \/ Settled \/ RunReturns
  BY <1>11, <1>s, <1>a, Zenon DEF Gathered, PassivesInited, Released, Settled,
    RunReturns, Labels
<1>12. ASSUME NEW p \in Interfaces, Bind(p)
       PROVE  TypeOK'
  BY <1>12, Zenon DEF TypeOK, Bind, Goto, Labels
<1>13. CASE BindFails \/ Unbind \/ UnbindFails \/ SettleWait
  BY <1>13 DEF TypeOK, BindFails, Unbind, UnbindFails, SettleWait, Goto, Labels
<1>2. ASSUME NEW t \in Threads, sync_sem_bare_wait(t)
      PROVE  TypeOK'
  BY <1>2, <1>l, <1>d, <1>v DEF TypeOK, sync_sem_bare_wait, Goto, CountDown, InLoop
<1>3. ASSUME NEW t \in Threads, sync_sem_bare_post(t)
      PROVE  TypeOK'
  BY <1>3, <1>l, <1>d, <1>v DEF TypeOK, sync_sem_bare_post, Goto, CountDown, InLoop
<1>4. ASSUME NEW t \in Threads, Receive(t) \/ InterfaceInit(t) \/ InterfaceRun(t)
      PROVE  TypeOK'
  BY <1>4 DEF TypeOK, Receive, InterfaceInit, InterfaceRun, Goto, Labels
<1>5. ASSUME NEW t \in Threads, NEW u \in Threads, Meet(t, u)
      PROVE  TypeOK'
  BY <1>5, <1>l, <1>d, Zenon DEF TypeOK, Meet, Shape, Blocked
<1>6. CASE UNCHANGED vars
  BY <1>6 DEF TypeOK, vars
<1> QED
  BY <1>1, <1>11, <1>12, <1>13, <1>2, <1>3, <1>4, <1>5, <1>6 DEF Next, Control, Step

\* The sizes of the sets the balances speak of.
LEMMA Counts ==
  ASSUME TypeOK
  PROVE  /\ IsFiniteSet(Done) /\ IsFiniteSet(Started) /\ IsFiniteSet(Ended)
         /\ Cardinality(Done) \in Nat /\ Cardinality(Done) <= Cardinality(Interfaces)
         /\ Cardinality(Started) \in Nat /\ Cardinality(Ended) \in Nat
         /\ IsFiniteSet(build.passive \ todo)
         /\ Cardinality(build.passive \ todo) \in Nat
         /\ Cardinality(build.passive \ {}) = Cardinality(build.passive)
         /\ Cardinality(build.passive \ build.passive) = 0
         /\ Served \in Nat /\ Asked \in Int /\ Woken \in Int
<1>1. /\ IsFiniteSet(Interfaces) /\ IsFiniteSet(build.passive)
      /\ build.fault \in SUBSET {"fault"}
      /\ Cardinality(Active) \in Nat /\ Cardinality(build.passive) \in Nat
      /\ Cardinality(Active \cup build.fault) \in Nat
  BY Sizes DEF TypeOK
<1>2. Done \in SUBSET Interfaces /\ Ended \in SUBSET Interfaces
  BY Zenon DEF Done, Ended
<1>3. /\ IsFiniteSet(Done) /\ IsFiniteSet(Ended)
      /\ Cardinality(Done) <= Cardinality(Interfaces)
  BY <1>1, <1>2, FS_Subset
<1>4. IsFiniteSet(Started)
  <2>1. Started \in SUBSET (Interfaces \cup {"fault"})
    BY <1>1 DEF Started
  <2>2. IsFiniteSet(Interfaces \cup {"fault"})
    BY <1>1, FS_AddElement
  <2> QED
    BY <2>1, <2>2, FS_Subset
<1>5. IsFiniteSet(build.passive \ todo)
  <2>1. (build.passive \ todo) \in SUBSET build.passive
    OBVIOUS
  <2> QED
    BY <2>1, <1>1, FS_Subset
<1>6. /\ Cardinality(Done) \in Nat /\ Cardinality(Started) \in Nat
      /\ Cardinality(Ended) \in Nat /\ Cardinality(build.passive \ todo) \in Nat
  BY <1>3, <1>4, <1>5, FS_CardinalityType
<1>7. /\ Cardinality(build.passive \ {}) = Cardinality(build.passive)
      /\ Cardinality(build.passive \ build.passive) = 0
  <2>1. build.passive \ {} = build.passive /\ build.passive \ build.passive = {}
    OBVIOUS
  <2> QED
    BY <2>1, FS_EmptySet
<1>8. Served \in Nat
  BY <1>1, <1>6 DEF Served
<1>9. left \in Nat
  BY DEF TypeOK
<1>10. Asked \in Int /\ Woken \in Int
  BY <1>1, <1>8, <1>9 DEF Asked, Woken, One
<1> QED
  BY <1>3, <1>4, <1>5, <1>6, <1>7, <1>8, <1>10

\* The last waits of post_main are never granted.
LEMMA LastWaits ==
  ASSUME IInv
  PROVE  /\ c \in {"finish", "aborted"} /\ ipc["control"] = "none"
              => lock["init"] <= 0
         /\ c \in {"finish", "aborted"} /\ Blocked("control")
              => \A t \in Interfaces : ipc[t] # "send"
         /\ \A t \in Interfaces : pc[t] = "end" =>
              /\ c \in Late
              /\ build.fault = {} => lock["pre"] <= 0
<1> USE DEF IInv
<1>1. /\ Cardinality(Active) + Cardinality(build.passive) = Cardinality(Interfaces)
      /\ Cardinality(Active) \in Nat /\ Cardinality(build.passive) \in Nat
      /\ IsFiniteSet(Active) /\ build.passive \in SUBSET Interfaces
  BY Sizes DEF TypeOK
<1>2. /\ Cardinality(Done) \in Nat /\ Cardinality(Done) <= Cardinality(Interfaces)
      /\ Cardinality(build.passive \ todo) \in Nat
      /\ IsFiniteSet(build.passive \ todo)
      /\ Cardinality(Ended) \in Nat
  BY Counts
<1>3. lock["init"] \in Int /\ lock["pre"] \in Int
  BY DEF TypeOK
<1>4. c = "aborted" =>
        Cardinality(Done) <= Cardinality(Active) + Cardinality(build.passive \ todo)
                               + One(sc # "none")
  <2> SUFFICES ASSUME c = "aborted"
               PROVE  Cardinality(Done) <=
                        Cardinality(Active) + Cardinality(build.passive \ todo)
                          + One(sc # "none")
    OBVIOUS
  <2> DEFINE A == Active \cup (build.passive \ todo)
  <2>1. Done \subseteq A \cup {sc}
    BY Zenon DEF Done, HasInited, Lending, Lone, Active
  <2>2. IsFiniteSet(A) /\ Cardinality(A) =
          Cardinality(Active) + Cardinality(build.passive \ todo)
    <3>1. IsFiniteSet(A) /\ Cardinality(A) =
            Cardinality(Active) + Cardinality(build.passive \ todo)
              - Cardinality(Active \cap (build.passive \ todo))
      BY <1>1, <1>2, FS_Union
    <3>2. Active \cap (build.passive \ todo) = {}
      BY DEF Active
    <3>3. Cardinality(Active \cap (build.passive \ todo)) = 0
      BY <3>2, FS_EmptySet
    <3> HIDE DEF A
    <3> QED
      BY <3>1, <3>3, <1>1, <1>2
  <2> HIDE DEF A
  <2>3. CASE sc = "none"
    <3>1. Done \in SUBSET A
      BY <2>1, <2>3, StartupAssumption, Zenon DEF Done, HasInited
    <3>2. Cardinality(Done) <= Cardinality(A)
      BY <3>1, <2>2, FS_Subset
    <3> QED
      BY <3>2, <2>2, <2>3, <1>1, <1>2 DEF One
  <2>4. CASE sc # "none"
    <3>0. /\ IsFiniteSet(A \cup {sc})
          /\ Cardinality(A \cup {sc}) =
               IF sc \in A THEN Cardinality(A) ELSE Cardinality(A) + 1
      BY <2>2, FS_AddElement
    <3>1. IsFiniteSet(A \cup {sc}) /\ Cardinality(A \cup {sc}) <= Cardinality(A) + 1
      BY <3>0, <2>2, <1>1, <1>2
    <3>2. Cardinality(Done) <= Cardinality(A \cup {sc})
      BY <3>1, <2>1, FS_Subset
    <3>3. Cardinality(A \cup {sc}) \in Nat
      BY <3>1, FS_CardinalityType
    <3> QED
      BY <3>1, <3>2, <3>3, <2>2, <2>4, <1>1, <1>2 DEF One
  <2> QED
    BY <2>3, <2>4
<1>5. ASSUME c \in {"finish", "aborted"}
      PROVE  lock["init"] <= IF Blocked("control") THEN -1 ELSE 0
  BY <1>1, <1>2, <1>3, <1>4, <1>5 DEF Balance, Asked, Served, One, Lone, Late,
     ControlLabels
<1>6. c \in {"finish", "aborted"} /\ ipc["control"] = "none" => lock["init"] <= 0
  BY <1>5 DEF Blocked
<1>7. c \in {"finish", "aborted"} /\ Blocked("control")
        => \A t \in Interfaces : ipc[t] # "send"
  BY <1>5, <1>3 DEF SoleWaiter
<1>8. ASSUME NEW t \in Interfaces, pc[t] = "end"
      PROVE  c \in Late /\ (build.fault = {} => lock["pre"] <= 0)
  <2>1. c \in Late
    BY <1>8, Zenon DEF Ordered, Early, Late, Shape
  <2>2. Done = Interfaces
    BY <2>1 DEF Ordered
  <2>3. build.fault = {} => Started = Interfaces
    BY <2>2, Zenon DEF Done, Started, HasInited, HasStarted
  <2>4. build.fault = {} => Woken = Cardinality(Interfaces)
    BY <2>1, <1>1, Sizes, SMTT(20) DEF Woken, Served, One, Late, Lone, TypeOK
  <2> QED
    BY <2>1, <2>3, <2>4, <1>1, <1>2, <1>3 DEF Balance
<1> QED
  BY <1>6, <1>7, <1>8
------------------------------------------------------------------------------
\* The moves of the control thread between its semaphore calls: from and to
\* which label, and what they do to the loop and to the lent context.
Move(l, m) == c = l /\ c' = m

Moves ==
  \/ /\ Move("preInit", "wake")
     /\ left' = Cardinality(Active \cup build.fault) /\ UNCHANGED <<todo, sc>>
  \/ /\ Move("wake", "gather") /\ left = 0
     /\ left' = Cardinality(Active) /\ UNCHANGED <<todo, sc>>
  \/ /\ Move("gather", "passives") /\ left = 0
     /\ todo' = build.passive /\ UNCHANGED <<left, sc>>
  \/ /\ Move("passives", "postInit") /\ todo = {}
     /\ todo' = {} /\ UNCHANGED <<left, sc>>
  \/ /\ Move("postInit", "release")
     /\ left' = Cardinality(Interfaces) /\ UNCHANGED <<todo, sc>>
  \/ /\ Move("release", "settle")
     /\ todo' = build.passive /\ UNCHANGED <<left, sc>>
  \/ Move("settle", "run") /\ todo' = {} /\ UNCHANGED <<left, sc>>
  \/ Move("run", "finish") /\ todo' = {} /\ UNCHANGED <<left, sc>>
  \/ /\ Move("passives", "wakeOne") \/ Move("settle", "settleWait")
     /\ sc' \in todo /\ UNCHANGED <<left, todo>>
  \/ /\ \/ Move("passives", "aborted") \/ Move("settle", "finish")
        \/ Move("unbind", "aborted") \/ Move("settleUnbind", "finish")
        \/ Move("settleWait", "settleUnbind")
     /\ UNCHANGED <<left, todo, sc>>
  \/ /\ Move("unbind", "passives") \/ Move("settleUnbind", "settle")
     /\ sc' = "none" /\ todo' = todo \ {sc} /\ UNCHANGED left

\* Every other thread stays where it is.
LEMMA ControlMoves ==
  ASSUME TypeOK, Control \/ RunReturns \/ BindFails \/ UnbindFails
  PROVE  /\ Moves
         /\ \A v \in Threads \ {"control"} : pc'[v] = pc[v]
         /\ ipc["control"] = "none" /\ UNCHANGED <<build, ipc, lock>>
<1> DEFINE Others == \A v \in Threads \ {"control"} : pc'[v] = pc[v]
           Goal == /\ Moves /\ Others
                   /\ ipc["control"] = "none" /\ UNCHANGED <<build, ipc, lock>>
<1>0. ASSUME NEW m, Goto("control", m)
      PROVE  c' = m /\ Others
  BY <1>0, Zenon DEF TypeOK, Goto, c, Threads
<1> SUFFICES Goal
  OBVIOUS
<1> HIDE DEF Others
<1> USE DEF At, Move, Moves
<1>1. CASE PreInit \/ Gather \/ PostInit
  BY <1>0, <1>1, Zenon DEF PreInit, Gather, PostInit, Enter, c
<1>2. CASE Gathered \/ PassivesInited \/ Released \/ Settled \/ RunReturns
  BY <1>0, <1>2, Zenon DEF Gathered, PassivesInited, Released, Settled,
    RunReturns, Attend, c
<1>3. CASE BindFails \/ Unbind \/ UnbindFails \/ SettleWait
  BY <1>0, <1>3, Zenon DEF BindFails, Unbind, UnbindFails, SettleWait, c
<1>4. ASSUME NEW p \in Interfaces, Bind(p)
      PROVE  Goal
  BY <1>0, <1>4 DEF Bind, c
<1> QED
  BY <1>1, <1>2, <1>3, <1>4 DEF Control

\* What a semaphore call does, and which thread can be making it.
LEMMA WaitCases ==
  ASSUME IInv, NEW t \in Threads, sync_sem_bare_wait(t)
  PROVE  /\ ipc[t] = "none" /\ CanRun(t) /\ UNCHANGED <<build, todo, sc>>
         /\ \/ t = "control" /\ c \in {"gather", "gatherOne", "finish", "aborted"}
            \/ t \in Interfaces /\ pc[t] \in {"start", "sync", "end"}
            \/ t = "fault" /\ pc[t] = "start" /\ build.fault = {"fault"}
         /\ lock[Waits[pc[t]]] \in Int
         /\ lock' = [lock EXCEPT ![Waits[pc[t]]] = lock[Waits[pc[t]]] - 1]
         /\ left' = IF t = "control" /\ c = "gather" THEN left - 1 ELSE left
         /\ t = "control" /\ c = "gather" => left > 0
         /\ \/ /\ lock[Waits[pc[t]]] > 0
               /\ pc' = [pc EXCEPT ![t] = After[pc[t]]]
               /\ UNCHANGED ipc
               /\ t = "control" => c \in {"gather", "gatherOne"}
               /\ t \in Interfaces /\ pc[t] = "end" => build.fault # {}
            \/ /\ lock[Waits[pc[t]]] <= 0
               /\ ipc' = [ipc EXCEPT ![t] = "enter"]
               /\ UNCHANGED pc
<1>0. /\ Shape /\ build.fault \in SUBSET {"fault"}
      /\ "control" \notin Interfaces /\ "fault" \notin Interfaces
      /\ lock \in [{"pre", "init", "post"} -> Int]
  BY Sizes, StartupAssumption, Zenon DEF IInv, TypeOK
<1>1. /\ CanRun(t) /\ ipc[t] = "none" /\ pc[t] \in DOMAIN Waits
      /\ pc[t] \in Loops => left > 0
      /\ lock' = [lock EXCEPT ![Waits[pc[t]]] = @ - 1]
      /\ left' = IF pc[t] \in Loops THEN left - 1 ELSE left
      /\ UNCHANGED <<build, todo, sc>>
  BY Zenon DEF sync_sem_bare_wait, InLoop, CountDown
<1>2. lock[Waits[pc[t]]] \in Int
  BY <1>0, <1>1, Tables
<1>3. \/ t = "control" /\ c \in {"gather", "gatherOne", "finish", "aborted"}
      \/ t \in Interfaces /\ pc[t] \in {"start", "sync", "end"}
      \/ t = "fault" /\ pc[t] = "start" /\ build.fault = {"fault"}
  BY <1>0, <1>1, Tables DEF Shape, c, ControlLabels, InterfaceLabels, Threads
<1>4. pc[t] \in Loops <=> t = "control" /\ c = "gather"
  BY <1>0, <1>3, Zenon DEF Loops, c
<1>5. ASSUME lock[Waits[pc[t]]] > 0
      PROVE  /\ t = "control" => c \in {"gather", "gatherOne"}
             /\ t \in Interfaces /\ pc[t] = "end" => build.fault # {}
  <2>1. CASE t = "control"
    <3>1. c \in {"finish", "aborted"} => Waits[pc[t]] = "init"
      BY <2>1, Tables DEF c
    <3>2. c \in {"finish", "aborted"} => lock["init"] <= 0
      BY <1>1, <2>1, LastWaits
    <3> QED
      BY <1>0, <1>2, <1>3, <1>5, <2>1, <3>1, <3>2
  <2>2. CASE t \in Interfaces /\ pc[t] = "end"
    BY <1>0, <1>2, <1>5, <2>2, Tables, LastWaits
  <2> QED
    BY <1>0, <2>1, <2>2
<1>6. \/ /\ lock[Waits[pc[t]]] > 0
         /\ pc' = [pc EXCEPT ![t] = After[pc[t]]]
         /\ UNCHANGED ipc
      \/ /\ lock[Waits[pc[t]]] <= 0
         /\ ipc' = [ipc EXCEPT ![t] = "enter"]
         /\ UNCHANGED pc
  BY Zenon DEF sync_sem_bare_wait, Goto
<1> QED
  BY <1>1, <1>2, <1>3, <1>4, <1>5, <1>6

LEMMA PostCases ==
  ASSUME IInv, NEW t \in Threads, sync_sem_bare_post(t)
  PROVE  /\ ipc[t] = "none" /\ CanRun(t) /\ UNCHANGED <<build, todo, sc>>
         /\ \/ t = "control" /\ c \in {"wake", "wakeOne", "release"}
            \/ t \in Interfaces /\ pc[t] = "inited"
         /\ lock[Posts[pc[t]]] \in Int
         /\ lock' = [lock EXCEPT ![Posts[pc[t]]] = lock[Posts[pc[t]]] + 1]
         /\ left' = IF t = "control" /\ c \in {"wake", "release"} THEN left - 1
                                                                 ELSE left
         /\ t = "control" /\ c \in {"wake", "release"} => left > 0
         /\ \/ /\ lock[Posts[pc[t]]] >= 0
               /\ pc' = [pc EXCEPT ![t] = After[pc[t]]]
               /\ UNCHANGED ipc
            \/ /\ lock[Posts[pc[t]]] < 0
               /\ ipc' = [ipc EXCEPT ![t] = "send"]
               /\ UNCHANGED pc
<1>0. /\ Shape
      /\ "control" \notin Interfaces /\ "fault" \notin Interfaces
      /\ lock \in [{"pre", "init", "post"} -> Int]
  BY StartupAssumption, Zenon DEF IInv, TypeOK
<1>1. /\ CanRun(t) /\ ipc[t] = "none" /\ pc[t] \in DOMAIN Posts
      /\ pc[t] \in Loops => left > 0
      /\ lock' = [lock EXCEPT ![Posts[pc[t]]] = @ + 1]
      /\ left' = IF pc[t] \in Loops THEN left - 1 ELSE left
      /\ UNCHANGED <<build, todo, sc>>
  BY Zenon DEF sync_sem_bare_post, InLoop, CountDown
<1>2. lock[Posts[pc[t]]] \in Int
  BY <1>0, <1>1, Tables
<1>3. \/ t = "control" /\ c \in {"wake", "wakeOne", "release"}
      \/ t \in Interfaces /\ pc[t] = "inited"
  BY <1>0, <1>1, Tables DEF Shape, c, ControlLabels, InterfaceLabels, Threads
<1>4. pc[t] \in Loops <=> t = "control" /\ c \in {"wake", "release"}
  BY <1>0, <1>3, Zenon DEF Loops, c
<1>5. \/ /\ lock[Posts[pc[t]]] >= 0
         /\ pc' = [pc EXCEPT ![t] = After[pc[t]]]
         /\ UNCHANGED ipc
      \/ /\ lock[Posts[pc[t]]] < 0
         /\ ipc' = [ipc EXCEPT ![t] = "send"]
         /\ UNCHANGED pc
  BY <1>2 DEF sync_sem_bare_post, Goto
<1> QED
  BY <1>1, <1>2, <1>3, <1>4, <1>5

LEMMA MeetCases ==
  ASSUME IInv, NEW t \in Threads, NEW u \in Threads, Meet(t, u)
  PROVE  /\ ipc[t] = "send" /\ ipc[u] = "recv" /\ t # u
         /\ \/ /\ t = "control" /\ c \in {"wake", "wakeOne"} /\ pc[u] = "start"
               /\ u \in Interfaces \cup build.fault
            \/ /\ t = "control" /\ c = "release" /\ pc[u] = "sync"
               /\ u \in Interfaces
            \/ /\ t \in Interfaces /\ pc[t] = "inited" /\ u = "control"
               /\ c \in {"gather", "gatherOne"}
         /\ pc' = [pc EXCEPT ![t] = After[pc[t]], ![u] = After[pc[u]]]
         /\ ipc' = [ipc EXCEPT ![t] = "none", ![u] = "none"]
         /\ UNCHANGED <<build, lock, left, todo, sc>>
<1>0. /\ Shape /\ build.fault \in SUBSET {"fault"}
      /\ "control" \notin Interfaces /\ "fault" \notin Interfaces
  BY Sizes, StartupAssumption, Zenon DEF IInv, TypeOK
<1>1. /\ ipc[t] = "send" /\ ipc[u] = "recv" /\ t # u
      /\ Posts[pc[t]] = Waits[pc[u]]
      /\ pc' = [pc EXCEPT ![t] = After[pc[t]], ![u] = After[pc[u]]]
      /\ ipc' = [ipc EXCEPT ![t] = "none", ![u] = "none"]
      /\ UNCHANGED <<build, lock, left, todo, sc>>
  BY DEF Meet
<1>2. pc[t] \in DOMAIN Posts /\ pc[u] \in DOMAIN Waits
  BY <1>0, <1>1, Zenon DEF Shape, Blocked
<1>3. \/ t = "control" /\ c \in {"wake", "wakeOne", "release"}
      \/ t \in Interfaces /\ pc[t] = "inited"
  BY <1>0, <1>2, Tables DEF Shape, c, ControlLabels, InterfaceLabels, Threads
<1>4. \/ u = "control" /\ c \in {"gather", "gatherOne", "finish", "aborted"}
      \/ u \in Interfaces /\ pc[u] \in {"start", "sync", "end"}
      \/ u = "fault" /\ pc[u] = "start" /\ u \in build.fault
  BY <1>0, <1>2, Tables DEF Shape, c, ControlLabels, InterfaceLabels, Threads
<1>5. u = "control" => c \notin {"finish", "aborted"}
  BY <1>0, <1>1, <1>3, LastWaits DEF Blocked
<1>6. u \in Interfaces /\ pc[u] = "end" /\ t = "control" =>
        c \notin {"wake", "wakeOne"}
  BY <1>0, LastWaits, Zenon DEF Late, Lone
<1> QED
  BY <1>0, <1>1, <1>3, <1>4, <1>5, <1>6, Tables DEF c

\* The same, thread by thread.
LEMMA WaitFrame ==
  ASSUME IInv, NEW t \in Threads, sync_sem_bare_wait(t)
  PROVE  /\ \A v \in Threads \ {t} : pc'[v] = pc[v] /\ ipc'[v] = ipc[v]
         /\ \/ pc'[t] = After[pc[t]] /\ ipc'[t] = "none"
            \/ pc'[t] = pc[t] /\ ipc'[t] = "enter"
<1>1. /\ pc \in [Threads -> Labels]
      /\ ipc \in [Threads -> {"none", "enter", "recv", "send"}]
  BY Zenon DEF IInv, TypeOK
<1>2. /\ ipc[t] = "none"
      /\ \/ pc' = [pc EXCEPT ![t] = After[pc[t]]] /\ ipc' = ipc
         \/ ipc' = [ipc EXCEPT ![t] = "enter"] /\ pc' = pc
  BY WaitCases
<1> QED
  BY <1>1, <1>2

\* The last waits of the control thread, and of an interface where there is no
\* fault handler, are never granted at once.
LEMMA WaitKinds ==
  ASSUME IInv, NEW t \in Threads, sync_sem_bare_wait(t)
  PROVE  /\ ipc[t] = "none" /\ CanRun(t) /\ UNCHANGED <<build, todo, sc>>
         /\ \/ t = "control" /\ pc[t] \in {"gather", "gatherOne"}
            \/ t = "control" /\ pc[t] \in {"finish", "aborted"} /\ pc' = pc
            \/ t \in Interfaces /\ pc[t] \in {"start", "sync"}
            \/ t \in Interfaces /\ pc[t] = "end" /\ (pc' = pc \/ build.fault # {})
            \/ t = "fault" /\ pc[t] = "start" /\ build.fault = {"fault"}
<1>0. "control" \notin Interfaces /\ "fault" \notin Interfaces
  BY StartupAssumption
<1>1. \/ t = "control" /\ c \in {"gather", "gatherOne", "finish", "aborted"}
      \/ t \in Interfaces /\ pc[t] \in {"start", "sync", "end"}
      \/ t = "fault" /\ pc[t] = "start" /\ build.fault = {"fault"}
  BY WaitCases, Zenon
<1>2. \/ pc' = pc
      \/ /\ t = "control" => c \in {"gather", "gatherOne"}
         /\ t \in Interfaces /\ pc[t] = "end" => build.fault # {}
  BY WaitCases, Zenon
<1>3. ipc[t] = "none" /\ CanRun(t) /\ UNCHANGED <<build, todo, sc>>
  BY WaitCases, Zenon
<1> QED
  BY <1>0, <1>1, <1>2, <1>3 DEF c

LEMMA PostFrame ==
  ASSUME IInv, NEW t \in Threads, sync_sem_bare_post(t)
  PROVE  /\ \A v \in Threads \ {t} : pc'[v] = pc[v] /\ ipc'[v] = ipc[v]
         /\ \/ pc'[t] = After[pc[t]] /\ ipc'[t] = "none"
            \/ pc'[t] = pc[t] /\ ipc'[t] = "send"
<1>1. /\ pc \in [Threads -> Labels]
      /\ ipc \in [Threads -> {"none", "enter", "recv", "send"}]
  BY Zenon DEF IInv, TypeOK
<1>2. /\ ipc[t] = "none"
      /\ \/ pc' = [pc EXCEPT ![t] = After[pc[t]]] /\ ipc' = ipc
         \/ ipc' = [ipc EXCEPT ![t] = "send"] /\ pc' = pc
  BY PostCases
<1> QED
  BY <1>1, <1>2

LEMMA MeetFrame ==
  ASSUME IInv, NEW t \in Threads, NEW u \in Threads, Meet(t, u)
  PROVE  /\ \A v \in Threads \ {t, u} : pc'[v] = pc[v] /\ ipc'[v] = ipc[v]
         /\ pc'[t] = After[pc[t]] /\ ipc'[t] = "none"
         /\ pc'[u] = After[pc[u]] /\ ipc'[u] = "none"
<1>1. /\ pc \in [Threads -> Labels]
      /\ ipc \in [Threads -> {"none", "enter", "recv", "send"}]
  BY Zenon DEF IInv, TypeOK
<1>2. /\ t # u
      /\ pc' = [pc EXCEPT ![t] = After[pc[t]], ![u] = After[pc[u]]]
      /\ ipc' = [ipc EXCEPT ![t] = "none", ![u] = "none"]
  BY MeetCases
<1> QED
  BY <1>1, <1>2

\* Who posts, and who meets whom.
LEMMA PostKinds ==
  ASSUME IInv, NEW t \in Threads, sync_sem_bare_post(t)
  PROVE  /\ ipc[t] = "none" /\ UNCHANGED <<build, todo, sc>>
         /\ \/ t = "control" /\ pc[t] \in {"wake", "wakeOne", "release"}
            \/ t \in Interfaces /\ pc[t] = "inited"
<1>1. /\ ipc[t] = "none" /\ UNCHANGED <<build, todo, sc>>
      /\ \/ t = "control" /\ c \in {"wake", "wakeOne", "release"}
         \/ t \in Interfaces /\ pc[t] = "inited"
  BY PostCases, Zenon
<1> QED
  BY <1>1 DEF c

LEMMA MeetKinds ==
  ASSUME IInv, NEW t \in Threads, NEW u \in Threads, Meet(t, u)
  PROVE  /\ ipc[t] = "send" /\ ipc[u] = "recv" /\ t # u
         /\ UNCHANGED <<build, lock, left, todo, sc>>
         /\ \/ /\ t = "control" /\ pc[t] \in {"wake", "wakeOne"} /\ pc[u] = "start"
               /\ u \in Interfaces \cup build.fault
            \/ /\ t = "control" /\ pc[t] = "release" /\ pc[u] = "sync"
               /\ u \in Interfaces
            \/ /\ t \in Interfaces /\ pc[t] = "inited" /\ u = "control"
               /\ pc[u] \in {"gather", "gatherOne"}
<1>1. /\ ipc[t] = "send" /\ ipc[u] = "recv" /\ t # u
      /\ UNCHANGED <<build, lock, left, todo, sc>>
  BY MeetCases, Zenon
<1>2. \/ /\ t = "control" /\ c \in {"wake", "wakeOne"} /\ pc[u] = "start"
         /\ u \in Interfaces \cup build.fault
      \/ t = "control" /\ c = "release" /\ pc[u] = "sync" /\ u \in Interfaces
      \/ /\ t \in Interfaces /\ pc[t] = "inited" /\ u = "control"
         /\ c \in {"gather", "gatherOne"}
  BY MeetCases, Zenon
<1> QED
  BY <1>1, <1>2 DEF c

\* A thread enters the kernel, or moves on by itself.
LEMMA LocalSteps ==
  ASSUME IInv, NEW t \in Threads, Receive(t) \/ InterfaceInit(t) \/ InterfaceRun(t)
  PROVE  /\ UNCHANGED <<build, lock, left, todo, sc>> /\ c' = c
         /\ \A v \in Threads \ {t} : pc'[v] = pc[v] /\ ipc'[v] = ipc[v]
         /\ \/ ipc[t] = "enter" /\ ipc'[t] = "recv" /\ pc'[t] = pc[t]
            \/ /\ pc[t] = "init" /\ pc'[t] \in {"inited", "handling"}
               /\ ipc[t] = "none" /\ ipc'[t] = "none"
            \/ /\ pc[t] = "ready" /\ pc'[t] \in {"serve", "end"}
               /\ ipc[t] = "none" /\ ipc'[t] = "none"
<1>0. /\ pc \in [Threads -> Labels]
      /\ ipc \in [Threads -> {"none", "enter", "recv", "send"}]
      /\ pc["control"] \notin {"init", "ready"}
  BY Zenon DEF IInv, TypeOK, Shape, c, ControlLabels
<1>1. CASE Receive(t)
  BY <1>0, <1>1 DEF Receive, c
<1>2. CASE InterfaceInit(t)
  BY <1>0, <1>2, Zenon DEF InterfaceInit, At, Goto, c, Threads
<1>3. CASE InterfaceRun(t)
  BY <1>0, <1>3 DEF InterfaceRun, At, Goto, c, Threads
<1> QED
  BY <1>1, <1>2, <1>3

\* A thread that does not step keeps its place in the sets Balance counts.
LEMMA SamePlace ==
  ASSUME NEW v, pc'[v] = pc[v], ipc'[v] = ipc[v]
  PROVE  /\ HasInited(v)' <=> HasInited(v)
         /\ HasStarted(v)' <=> HasStarted(v)
         /\ HasEnded(v)' <=> HasEnded(v)
BY Zenon DEF HasInited, HasStarted, HasEnded, Blocked

LEMMA SameSets ==
  /\ (\A v \in Interfaces : HasInited(v)' <=> HasInited(v)) => Done' = Done
  /\ build' = build /\ (\A v \in Interfaces \cup build.fault :
                            HasStarted(v)' <=> HasStarted(v)) => Started' = Started
  /\ (\A v \in Interfaces : HasEnded(v)' <=> HasEnded(v)) => Ended' = Ended
BY Zenon DEF Done, Started, Ended

\* A set gains the one thread that steps past its point.
LEMMA OneMore ==
  ASSUME NEW t
  PROVE  /\ /\ \A v \in Interfaces : v # t => (HasInited(v)' <=> HasInited(v))
            /\ t \in Interfaces /\ ~HasInited(t) /\ HasInited(t)'
            => Done' = Done \cup {t} /\ t \notin Done
         /\ /\ build' = build
            /\ \A v \in Interfaces \cup build.fault :
                 v # t => (HasStarted(v)' <=> HasStarted(v))
            /\ t \in Interfaces \cup build.fault /\ ~HasStarted(t) /\ HasStarted(t)'
            => Started' = Started \cup {t} /\ t \notin Started
         /\ /\ \A v \in Interfaces : v # t => (HasEnded(v)' <=> HasEnded(v))
            /\ t \in Interfaces /\ ~HasEnded(t) /\ HasEnded(t)'
            => Ended' = Ended \cup {t} /\ t \notin Ended
BY Zenon DEF Done, Started, Ended

LEMMA ShapeNext == IInv /\ [Next]_vars => Shape'
<1> SUFFICES ASSUME IInv, [Next]_vars
             PROVE  Shape'
  OBVIOUS
<1>0. /\ Shape
      /\ pc \in [Threads -> Labels]
      /\ ipc \in [Threads -> {"none", "enter", "recv", "send"}]
      /\ build.fault \in SUBSET {"fault"}
      /\ "control" \notin Interfaces /\ "fault" \notin Interfaces
  BY Sizes, StartupAssumption DEF IInv, TypeOK
<1>1. CASE Control \/ RunReturns \/ BindFails \/ UnbindFails
  <2>1. /\ Moves
        /\ \A v \in Threads \ {"control"} : pc'[v] = pc[v]
        /\ ipc["control"] = "none" /\ UNCHANGED <<build, ipc, lock>>
    BY <1>1, ControlMoves DEF IInv
  <2>2. c' \in ControlLabels
    BY <2>1, Zenon DEF Moves, Move, ControlLabels
  <2> QED
    BY <1>0, <2>1, <2>2, Zenon DEF Shape, Blocked, Threads
<1>2. ASSUME NEW t \in Threads, sync_sem_bare_wait(t)
      PROVE  Shape'
  <2>1. /\ \A v \in Threads \ {t} : pc'[v] = pc[v] /\ ipc'[v] = ipc[v]
        /\ \/ pc'[t] = After[pc[t]] /\ ipc'[t] = "none"
           \/ pc'[t] = pc[t] /\ ipc'[t] = "enter"
    BY <1>2, WaitFrame
  <2>2. build' = build /\ pc[t] \in DOMAIN Waits
    BY <1>2, WaitKinds DEF sync_sem_bare_wait
  <2>3. CASE t = "control"
    <3>0. \/ c \in {"gather", "gatherOne"}
          \/ c \in {"finish", "aborted"} /\ pc' = pc
      BY <1>0, <1>2, <2>3, WaitKinds DEF c
    <3>1. c' \in ControlLabels
      BY <2>1, <2>3, <3>0, Tables DEF ControlLabels, c
    <3> QED
      BY <1>0, <2>1, <2>2, <2>3, <3>1 DEF Shape, Blocked, Threads
  <2>4. CASE t \in Interfaces
    <3>0. \/ pc[t] \in {"start", "sync"}
          \/ pc[t] = "end" /\ (pc' = pc \/ build.fault # {})
      BY <1>0, <1>2, <2>4, WaitKinds
    <3>1. /\ pc'[t] \in InterfaceLabels
          /\ pc'[t] \in {"end", "returned"} => pc[t] = "end"
          /\ pc'[t] = "returned" => build.fault # {}
      BY <2>1, <3>0, Tables DEF InterfaceLabels
    <3> QED
      BY <1>0, <2>1, <2>2, <2>4, <3>1 DEF Shape, Blocked, Threads, c
  <2>5. CASE t = "fault"
    <3>0. pc[t] = "start" /\ build.fault = {"fault"}
      BY <1>0, <1>2, <2>5, WaitKinds
    <3>1. pc'[t] \in {"start", "init"} /\ build.fault = {"fault"}
      BY <2>1, <3>0, Tables
    <3> QED
      BY <1>0, <2>1, <2>2, <2>5, <3>1 DEF Shape, Blocked, Threads, c
  <2> QED
    BY <2>3, <2>4, <2>5 DEF Threads
<1>3. ASSUME NEW t \in Threads, sync_sem_bare_post(t)
      PROVE  Shape'
  <2>1. /\ \A v \in Threads \ {t} : pc'[v] = pc[v] /\ ipc'[v] = ipc[v]
        /\ \/ pc'[t] = After[pc[t]] /\ ipc'[t] = "none"
           \/ pc'[t] = pc[t] /\ ipc'[t] = "send"
    BY <1>3, PostFrame
  <2>2. build' = build /\ pc[t] \in DOMAIN Posts
    BY <1>3, PostKinds DEF sync_sem_bare_post
  <2>3. CASE t = "control"
    <3>0. c \in {"wake", "wakeOne", "release"}
      BY <1>0, <1>3, <2>3, PostKinds DEF c
    <3>1. c' \in ControlLabels
      BY <2>1, <2>3, <3>0, Tables DEF ControlLabels, c
    <3> QED
      BY <1>0, <2>1, <2>2, <2>3, <3>1 DEF Shape, Blocked, Threads
  <2>4. CASE t \in Interfaces
    <3>0. pc[t] = "inited"
      BY <1>0, <1>3, <2>4, PostKinds
    <3>1. pc'[t] \in {"inited", "sync"}
      BY <2>1, <3>0, Tables
    <3> QED
      BY <1>0, <2>1, <2>2, <2>4, <3>1 DEF Shape, Blocked, Threads, c, InterfaceLabels
  <2> QED
    BY <1>3, <2>3, <2>4, PostKinds
<1>4. ASSUME NEW t \in Threads, Receive(t) \/ InterfaceInit(t) \/ InterfaceRun(t)
      PROVE  Shape'
  <2>1. CASE Receive(t)
    BY <1>0, <2>1, Zenon DEF Receive, Shape, c, Blocked, Threads
  <2>2. CASE InterfaceInit(t)
    BY <1>0, <2>2, Tables DEF InterfaceInit, At, Goto, Shape, c, Blocked, ControlLabels,
       InterfaceLabels, Threads
  <2>3. CASE InterfaceRun(t)
    BY <1>0, <2>3, Tables DEF InterfaceRun, At, Goto, Shape, c, Blocked, ControlLabels,
       InterfaceLabels, Threads
  <2> QED
    BY <1>4, <2>1, <2>2, <2>3
<1>5. ASSUME NEW t \in Threads, NEW u \in Threads, Meet(t, u)
      PROVE  Shape'
  <2>1. /\ \A v \in Threads \ {t, u} : pc'[v] = pc[v] /\ ipc'[v] = ipc[v]
        /\ pc'[t] = After[pc[t]] /\ ipc'[t] = "none"
        /\ pc'[u] = After[pc[u]] /\ ipc'[u] = "none"
    BY <1>5, MeetFrame
  <2>2. build' = build
    BY <1>5, MeetKinds
  <2>3. \/ /\ t = "control" /\ c' \in ControlLabels
           /\ u \in Interfaces /\ pc'[u] \in {"init", "ready"}
        \/ /\ t = "control" /\ c' \in ControlLabels
           /\ u \in build.fault /\ pc'[u] = "init"
        \/ /\ u = "control" /\ c' \in ControlLabels
           /\ t \in Interfaces /\ pc'[t] = "sync"
    BY <1>0, <1>5, <2>1, MeetKinds, Tables DEF c, ControlLabels
  <2>4. /\ c' \in ControlLabels
        /\ \A v \in Interfaces : \/ pc'[v] = pc[v]
                                  \/ pc'[v] \in {"init", "ready", "sync"}
        /\ \/ pc'["fault"] = pc["fault"]
           \/ build.fault = {"fault"} /\ pc'["fault"] = "init"
    <3>1. c' \in ControlLabels
      BY <2>3
    <3>2. \A v \in Interfaces : pc'[v] = pc[v] \/ pc'[v] \in {"init", "ready", "sync"}
      BY <1>0, <2>1, <2>3 DEF Threads
    <3>3. \/ pc'["fault"] = pc["fault"]
          \/ build.fault = {"fault"} /\ pc'["fault"] = "init"
      BY <1>0, <2>1, <2>3 DEF Threads
    <3> QED
      BY <3>1, <3>2, <3>3
  <2>5. \A v \in Threads : ipc'[v] = "none" \/ (pc'[v] = pc[v] /\ ipc'[v] = ipc[v])
    BY <2>1
  <2> QED
    BY <1>0, <2>2, <2>4, <2>5 DEF Shape, Blocked, Threads, InterfaceLabels
<1>6. CASE UNCHANGED vars
  BY <1>0, <1>6, Zenon DEF Shape, vars, c, Blocked
<1> QED
  BY <1>1, <1>2, <1>3, <1>4, <1>5, <1>6 DEF Next, Step

LEMMA LendingNext == IInv /\ [Next]_vars => Lending'
<1> SUFFICES ASSUME IInv, [Next]_vars
             PROVE  Lending'
  OBVIOUS
<1>0. /\ Lending /\ Shape
      /\ pc \in [Threads -> Labels]
      /\ ipc \in [Threads -> {"none", "enter", "recv", "send"}]
      /\ build.passive \in SUBSET Interfaces
      /\ "control" \notin Interfaces /\ "none" \notin Interfaces
  BY Sizes, StartupAssumption DEF IInv, TypeOK
<1>1. CASE Control \/ RunReturns \/ BindFails \/ UnbindFails
  <2>1. /\ Moves
        /\ \A v \in Threads \ {"control"} : pc'[v] = pc[v]
        /\ ipc["control"] = "none" /\ UNCHANGED <<build, ipc, lock>>
    BY <1>1, ControlMoves DEF IInv
  <2>2. /\ \A p \in build.passive : pc'[p] = pc[p] /\ ipc'[p] = ipc[p]
        /\ build' = build
    BY <1>0, <2>1 DEF Threads
  <2>3. /\ \/ todo' = todo /\ sc' \in todo \cup {sc}
           \/ todo' \in {{}, build.passive, todo \ {sc}} /\ sc' \in {sc, "none"}
        /\ todo' \subseteq build.passive
    BY <1>0, <2>1, Zenon DEF Moves, Move, Lending
  <2>4. /\ c' \in {"wakeOne", "gatherOne", "unbind", "settleWait", "settleUnbind"}
             => sc' \in todo'
        /\ c' \in {"preInit", "wake", "gather", "passives", "postInit"} => sc' = "none"
        /\ c' = "aborted" => sc' = "none" \/ sc' \in todo'
    BY <1>0, <2>1 DEF Moves, Move, Lending
  <2>5. ASSUME NEW p \in build.passive,
               c' \in {"preInit", "wake", "gather"} \/ (c' \in Lone /\ p \in todo' /\ p # sc')
        PROVE  pc[p] = "start" /\ ipc[p] = "none"
    <3>1. \/ c \in {"preInit", "wake", "gather"}
          \/ c = "passives" /\ p \in todo
          \/ c = "unbind" /\ p \in todo /\ p # sc
      BY <1>0, <2>1, <2>5 DEF Moves, Move, Lone
    <3>2. CASE c \in {"preInit", "wake", "gather"}
      BY <1>0, <3>2 DEF Lending
    <3>3. CASE c \in {"passives", "unbind"}
      <4>1. c \in Lone /\ p \in todo /\ p # sc
        BY <1>0, <3>1, <3>3, Zenon DEF Lending, Lone
      <4> QED
        BY <1>0, <4>1 DEF Lending
    <3> QED
      BY <3>1, <3>2, <3>3
  <2> QED
    BY <2>2, <2>3, <2>4, <2>5 DEF Lending
<1>2. ASSUME NEW t \in Threads, sync_sem_bare_wait(t)
      PROVE  Lending'
  <2>1. /\ UNCHANGED <<build, todo, sc>>
        /\ \A u \in Threads \ {t} : pc'[u] = pc[u] /\ ipc'[u] = ipc[u]
        /\ pc'[t] = After[pc[t]] \/ pc'[t] = pc[t]
    BY <1>2, WaitKinds, WaitFrame
  <2>2. CASE t = "control"
    <3>0. \/ c \in {"gather", "gatherOne"}
          \/ c \in {"finish", "aborted"} /\ pc' = pc
      BY <1>0, <1>2, <2>2, WaitKinds DEF c
    <3>1. c' = c \/ (c = "gatherOne" /\ c' = "unbind")
      BY <2>1, <2>2, <3>0, Tables DEF c
    <3>2. \A p \in build.passive : pc'[p] = pc[p] /\ ipc'[p] = ipc[p]
      BY <1>0, <2>1, <2>2, Zenon DEF Threads
    <3>3. CASE c' = c
      BY <1>0, <2>1, <3>2, <3>3, Zenon DEF Lending
    <3>4. CASE c = "gatherOne" /\ c' = "unbind"
      BY <1>0, <2>1, <3>2, <3>4 DEF Lending, Lone
    <3> QED
      BY <3>1, <3>3, <3>4
  <2>3. CASE t # "control"
    <3>1. c' = c
      BY <2>1, <2>3, Zenon DEF c, Threads
    <3>2. CanRun(t)
      BY <1>2, WaitKinds
    <3> QED
      BY <1>0, <2>1, <2>3, <3>1, <3>2 DEF Lending, Lone, CanRun, Threads
  <2> QED
    BY <2>2, <2>3
<1>3. ASSUME NEW t \in Threads, sync_sem_bare_post(t)
      PROVE  Lending'
  <2>1. /\ UNCHANGED <<build, todo, sc>>
        /\ \A u \in Threads \ {t} : pc'[u] = pc[u] /\ ipc'[u] = ipc[u]
        /\ pc'[t] = After[pc[t]] \/ pc'[t] = pc[t]
    BY <1>3, PostKinds, PostFrame
  <2>2. CASE t = "control"
    <3>0. c \in {"wake", "wakeOne", "release"}
      BY <1>0, <1>3, <2>2, PostKinds DEF c
    <3>1. c' = c \/ (c = "wakeOne" /\ c' = "gatherOne")
      BY <2>1, <2>2, <3>0, Tables DEF c
    <3> QED
      BY <1>0, <2>1, <2>2, <3>0, <3>1 DEF Lending, Lone, Threads
  <2>3. CASE t # "control"
    <3>1. c' = c
      BY <2>1, <2>3, Zenon DEF c, Threads
    <3>2. pc[t] = "inited"
      BY <1>3, <2>3, PostKinds
    <3> QED
      BY <1>0, <2>1, <2>3, <3>1, <3>2 DEF Lending, Lone, Threads
  <2> QED
    BY <2>2, <2>3
<1>4. ASSUME NEW t \in Threads, Receive(t) \/ InterfaceInit(t) \/ InterfaceRun(t)
      PROVE  Lending'
  <2>1. /\ UNCHANGED <<build, todo, sc>>
        /\ \A u \in Threads \ {t} : pc'[u] = pc[u] /\ ipc'[u] = ipc[u]
    BY <1>0, <1>4, Zenon DEF Receive, InterfaceInit, InterfaceRun, Goto
  <2>2. ipc[t] = "enter" \/ pc[t] \in {"init", "ready"}
    BY <1>4 DEF Receive, InterfaceInit, InterfaceRun, At
  <2>3. c' = c
    <3>1. CASE t = "control"
      <4>1. pc' = pc
        BY <1>0, <1>4, <3>1, Zenon DEF Receive, InterfaceInit, InterfaceRun,
          At, Shape, c, ControlLabels
      <4> QED
        BY <4>1 DEF c
    <3>2. CASE t # "control"
      BY <2>1, <3>2 DEF c, Threads
    <3> QED
      BY <3>1, <3>2
  <2>4. \A p \in build.passive : pc[p] = "start" /\ ipc[p] = "none"
                                  => pc'[p] = pc[p] /\ ipc'[p] = ipc[p]
    BY <1>0, <2>1, <2>2 DEF Threads
  <2> QED
    BY <1>0, <2>1, <2>3, <2>4 DEF Lending
<1>5. ASSUME NEW t \in Threads, NEW u \in Threads, Meet(t, u)
      PROVE  Lending'
  <2>1. /\ UNCHANGED <<build, todo, sc>>
        /\ ipc[t] = "send" /\ ipc[u] = "recv"
        /\ \A v \in Threads \ {t, u} : pc'[v] = pc[v] /\ ipc'[v] = ipc[v]
    <3>1. /\ UNCHANGED <<build, todo, sc>>
          /\ ipc[t] = "send" /\ ipc[u] = "recv"
      BY <1>5, MeetKinds
    <3>2. \A v \in Threads \ {t, u} : pc'[v] = pc[v] /\ ipc'[v] = ipc[v]
      BY <1>5, MeetFrame
    <3> QED
      BY <3>1, <3>2
  <2>2. c' = c \/ (c = "wakeOne" /\ c' = "gatherOne")
               \/ (c = "gatherOne" /\ c' = "unbind")
    <3>1. /\ pc'[t] = After[pc[t]] /\ pc'[u] = After[pc[u]]
          /\ \/ t = "control" /\ c \in {"wake", "wakeOne", "release"}
             \/ u = "control" /\ c \in {"gather", "gatherOne"}
      BY <1>5, MeetKinds, MeetFrame DEF c
    <3> QED
      BY <3>1, Tables DEF c
  <2>3. \A p \in build.passive : pc[p] = "start" /\ ipc[p] = "none"
                                  => pc'[p] = pc[p] /\ ipc'[p] = ipc[p]
    BY <1>0, <2>1 DEF Threads
  <2> QED
    BY <1>0, <2>1, <2>2, <2>3 DEF Lending, Lone
<1>6. CASE UNCHANGED vars
  BY <1>0, <1>6, Zenon DEF Lending, vars, c
<1> QED
  BY <1>1, <1>2, <1>3, <1>4, <1>5, <1>6, Zenon DEF Next, Step
==============================================================================

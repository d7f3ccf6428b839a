------------------------------ MODULE Scheduler ------------------------------
(* The Scheduler component: a busy-wait of one quantum, then a tick, for     *)
(* ever; another thread serves the RPC that changes the quantum.             *)
EXTENDS CInt

CONSTANTS Loops,        \* iterations of the delay loop per millisecond (100000)
          BaseQuantum,  \* the quantum after boot (500)
          Quanta        \* arguments with which set_quantum is called

ASSUME SchedulerAssumption == /\ Loops \in Nat
                              /\ BaseQuantum \in Uint32Range
                              /\ Quanta \subseteq IntRange

VARIABLES current_quantum_ms,  \* shared by the two threads
          sched                \* control thread: loop bound, index, in the loop?

schedVars == <<current_quantum_ms, sched>>

SchedInit == /\ current_quantum_ms = BaseQuantum
             /\ sched = [waiting |-> FALSE, delay |-> 0, i |-> 0]

\* Mutant: a new quantum restarts the delay.
SetQuantumRestarts ==
  /\ \E milliseconds \in Quanta : current_quantum_ms' = ToUint32(milliseconds)
  /\ sched' = [sched EXCEPT !.waiting = FALSE]

ctrl_set_quantum ==
  /\ \E milliseconds \in Quanta : current_quantum_ms' = ToUint32(milliseconds)
  /\ UNCHANGED sched

StartDelay ==
  /\ ~sched.waiting
  /\ sched' = [waiting |-> TRUE, delay |-> current_quantum_ms * Loops, i |-> 0]
  /\ UNCHANGED current_quantum_ms

Spin ==
  /\ sched.waiting
  /\ sched.i < sched.delay
  /\ sched' = [sched EXCEPT !.i = @ + 1]
  /\ UNCHANGED current_quantum_ms

\* The tick; what hw_tick_emit does to its receiver is added by TickLink.
EndDelay ==
  /\ sched.waiting
  /\ sched.i >= sched.delay
  /\ sched' = [sched EXCEPT !.waiting = FALSE]
  /\ UNCHANGED current_quantum_ms
==============================================================================

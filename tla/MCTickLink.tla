----------------------------- MODULE MCTickLink -----------------------------
(* TickLink for TLC, with a two-bit int.  Three clients and the interface    *)
(* thread take the lock's counter and the handoff semaphore to INT_MIN, where *)
(* lock() and hw_tick_wait fail; with two clients neither fails.             *)
EXTENDS TickLink

CONSTANTS c1, c2, c3

TwoClients   == {c1, c2}
ThreeClients == {c1, c2, c3}
NoQuanta     == {}
SomeQuanta   == {-1}
==============================================================================

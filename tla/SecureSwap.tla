----------------------------- MODULE SecureSwap -----------------------------
(***************************************************************************)
(* What the mutation transaction promises the Worker: its code is replaced *)
(* in one step by a complete variant of the Generator, never while it      *)
(* runs, and it never runs before the first variant is in place.  Blocked  *)
(* transactions are invisible.                                             *)
(***************************************************************************)
EXTENDS Integers, Sequences

CONSTANTS Codes,   \* variants the Generator can synthesise
          IntMax   \* INT_MAX: the version counter wraps there

VARIABLES installed,  \* the variant in place, or the empty string
          version,    \* hot-swaps so far, as a C int
          running     \* is the Worker executing the variant?

vars == <<installed, version, running>>

Init == /\ installed = <<>>
        /\ version = 0
        /\ running = FALSE

HotSwap == /\ ~running
           /\ installed' \in Codes
           /\ version' = IF version = IntMax THEN -IntMax - 1 ELSE version + 1
           /\ UNCHANGED running

Start == /\ ~running
         /\ installed # <<>>
         /\ running' = TRUE
         /\ UNCHANGED <<installed, version>>

Finish == /\ running
          /\ running' = FALSE
          /\ UNCHANGED <<installed, version>>

Next == HotSwap \/ Start \/ Finish

Spec == Init /\ [][Next]_vars
==============================================================================

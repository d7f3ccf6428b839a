------------------------------ MODULE Lifecycle ------------------------------
(***************************************************************************)
(* What component start-up promises: pre_init, then the init of every      *)
(* interface, then post_init, and only then does an interface serve.       *)
(***************************************************************************)
CONSTANT Interfaces

VARIABLES phase,   \* what the control thread has reached
          inited,  \* interfaces whose init has run
          serving  \* interfaces past the second barrier

vars == <<phase, inited, serving>>

Init == /\ phase = "pre_init"
        /\ inited = {}
        /\ serving = {}

PreInitDone ==
  /\ phase = "pre_init"
  /\ phase' = "interface_init"
  /\ UNCHANGED <<inited, serving>>

InterfaceInit(t) ==
  /\ phase = "interface_init"
  /\ inited' = inited \cup {t}
  /\ UNCHANGED <<phase, serving>>

AllInited ==
  /\ phase = "interface_init"
  /\ inited = Interfaces
  /\ phase' = "post_init"
  /\ UNCHANGED <<inited, serving>>

PostInitDone ==
  /\ phase = "post_init"
  /\ phase' = "up"
  /\ UNCHANGED <<inited, serving>>

Serve(t) ==
  /\ phase = "up"
  /\ serving' = serving \cup {t}
  /\ UNCHANGED <<phase, inited>>

Next == \/ PreInitDone
        \/ AllInited
        \/ PostInitDone
        \/ \E t \in Interfaces : InterfaceInit(t) \/ Serve(t)

Spec == Init /\ [][Next]_vars
==============================================================================

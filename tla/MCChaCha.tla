------------------------------ MODULE MCChaCha ------------------------------
(* ChaCha for TLC: one time stamp. *)
EXTENDS ChaCha

MCStamps == {<<\h0001, \h2345>>}
==============================================================================

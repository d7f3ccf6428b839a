----------------------------- MODULE MCSynthesis -----------------------------
(* Synthesis for TLC: words whose bytes are themselves instructions. *)
EXTENDS Synthesis

MCWords == {logic_payload, <<\hC390, \h0531>>, <<\hFFFF, \h35C3>>}
==============================================================================

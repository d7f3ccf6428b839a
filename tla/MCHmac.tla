------------------------------- MODULE MCHmac -------------------------------
(* Hmac for TLC, with blocks of eight bytes: data of every length up to a    *)
(* block, so that every padding occurs, and of a length whose number of bits *)
(* takes two bytes.                                                          *)
EXTENDS Hmac

MCKey  == <<\h12, \hF0, \h00>>
MCData == {[k \in 1..n |-> Plain(k + n)] : n \in 0..8 \cup {25}}

Filled(b) == [k \in 1..BlockSize |-> Plain(b)]
MCGarbage == {[data |-> Filled(\hAA), datalen |-> 7, bitlen |-> 3,
               state |-> <<Filled(1)>>]}
==============================================================================

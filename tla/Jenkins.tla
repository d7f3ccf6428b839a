------------------------------- MODULE Jenkins -------------------------------
(* Jenkins One-at-a-Time, of which the Repository, the Dispatcher and the      *)
(* Worker have a copy each.                                                  *)
EXTENDS Word32, SequencesExt

\* One turn of the loop.
Absorb(hash, b) == LET sum  == Add(hash, <<0, b>>)
                       more == Add(sum, Shl(sum, 10))
                   IN  Xor(more, Shr(more, 6))

Avalanche(hash) == LET sum   == Add(hash, Shl(hash, 3))
                       mixed == Xor(sum, Shr(sum, 11))
                   IN  Add(mixed, Shl(mixed, 15))

compute_jenkins_hash(data) == Avalanche(FoldLeft(Absorb, Zero, data))
==============================================================================

--------------------------- MODULE MCMutationCycle ---------------------------
(* MutationCycle for TLC, with the hash of the code.                         *)
EXTENDS MutationCycle

J == INSTANCE Jenkins

\* Three variants of different lengths over a three-byte page: each may be
\* followed by a longer or a shorter one.
MCByte  == {0, \h90, \hC3}
MCCodes == {<<\hC3>>, <<\h90, \hC3>>, <<\h90, \h90, \hC3>>}

\* A uint32_t in the range of TLC's numbers: the int with the same bits.
AsInt(w) == (IF w[1] >= 32768 THEN w[1] - 65536 ELSE w[1]) * 65536 + w[2]

\* The hashes of all strings, computed once.
Strings   == UNION {[1..n -> MCByte] : n \in 0..PageSize}
Hashes    == {<<s, AsInt(J!compute_jenkins_hash(s))>> : s \in Strings}
MCHash(s) == (CHOOSE h \in Hashes : h[1] = s)[2]

\* A permutation of the digests without a fixed point.
MCMac(h)  == -h - 1
MCDigest  == {h[2] : h \in Hashes} \cup {MCMac(h[2]) : h \in Hashes}
==============================================================================

------------------------------- MODULE Word32 -------------------------------
(* uint32_t as a pair of 16-bit halves <<high, low>>, and its bytes in       *)
(* memory, least significant first.                                          *)
EXTENDS Integers, Sequences

Radix == 65536
Half == 0..(Radix - 1)
Word == Half \X Half
Zero == <<0, 0>>

\* a ^ b is XorHalf[a][b].
XorHalf[a \in Half] ==
  [b \in Half |-> IF a = 0 THEN b
                  ELSE 2 * XorHalf[a \div 2][b \div 2] + ((a + b) % 2)]

Xor(v, w) == <<XorHalf[v[1]][w[1]], XorHalf[v[2]][w[2]]>>

Add(v, w) == LET low == v[2] + w[2]
             IN  <<(v[1] + w[1] + (low \div Radix)) % Radix, low % Radix>>

\* w << n and w >> n, for n below 16.
Shl(w, n) == <<((w[1] * 2^n) % Radix) + ((w[2] * 2^n) \div Radix),
               (w[2] * 2^n) % Radix>>
Shr(w, n) == <<w[1] \div 2^n,
               (w[1] % 2^n) * 2^(16 - n) + (w[2] \div 2^n)>>

\* memcpy of a word to and from memory.
Bytes(w)     == <<w[2] % 256, w[2] \div 256, w[1] % 256, w[1] \div 256>>
FromBytes(b) == <<b[3] + 256 * b[4], b[1] + 256 * b[2]>>
==============================================================================

------------------------------- MODULE ChaCha -------------------------------
(***************************************************************************)
(* chacha_permute_block of the Generator's CSPRNG, one double round at a   *)
(* time, block after block, beside the rounds of ChaCha20 (RFC 8439), which *)
(* generator.c announces.  Words are numbered from 1.                      *)
(***************************************************************************)
EXTENDS Word32, SequencesExt

CONSTANT Stamps   \* values of lo ^ hi, the two halves of the time stamp

VARIABLES in,     \* chacha_state
          out,    \* chacha_stream while it is computed
          i,      \* double rounds done; 11 once in has been added
          ref     \* history: what ChaCha20 would have computed by now
vars == <<in, out, i, ref>>

Rotl(w, n) ==
  LET half(a, b) == (a % 2^(16 - n)) * 2^n + (b \div 2^(16 - n))
  IN  <<half(w[1], w[2]), half(w[2], w[1])>>

\* n * w, for a small n.
Times(n, w) == <<(n * w[1] + ((n * w[2]) \div Radix)) % Radix, (n * w[2]) % Radix>>

Constants == << <<\h6170, \h7865>>, <<\h3320, \h646E>>,
                <<\h7962, \h2D32>>, <<\h6B20, \h6574>> >>

initialize_hardware_entropy ==
  \E t \in [5..16 -> Stamps] :
    in = [k \in 1..16 |-> IF k <= 4 THEN Constants[k]
                          ELSE Xor(t[k], Times(k - 1, <<\h9E37, \h79B9>>))]

\* Lines one and two of the macro, with its rotations as parameters, on a, b, c, d.
HalfRound(q, n, m) ==
  LET a == Add(q[1], q[2])
      d == Rotl(Xor(q[4], a), n)
      c == Add(q[3], d)
  IN  <<a, Rotl(Xor(q[2], c), m), c, d>>

QR(q) ==
  LET h == HalfRound(q, 16, 12)
      a == Add(h[1], h[2])
      d == Rotl(h[2], 8)
      c == Add(h[3], d)
  IN  <<a, Rotl(Xor(h[2], c), 7), c, d>>

Quads == << <<1, 5,  9, 13>>, <<2, 6, 10, 14>>, <<3, 7, 11, 15>>, <<4, 8, 12, 16>>,
            <<1, 6, 11, 16>>, <<2, 7, 12, 13>>, <<3, 8,  9, 14>>, <<4, 5, 10, 15>> >>

Quad(x, k)   == <<x[k[1]], x[k[2]], x[k[3]], x[k[4]]>>
Put(x, k, q) == [x EXCEPT ![k[1]] = q[1], ![k[2]] = q[2], ![k[3]] = q[3], ![k[4]] = q[4]]

\* A quarter round on each column, then on each diagonal.
DoubleRound(s) == FoldLeft(LAMBDA x, k : Put(x, k, QR(Quad(x, k))), s, Quads)

\* The same with the quarter round of RFC 8439.
ChaChaQuarterRound(q) == HalfRound(HalfRound(q, 16, 12), 8, 7)
ChaChaDoubleRound(s)  ==
  FoldLeft(LAMBDA x, k : Put(x, k, ChaChaQuarterRound(Quad(x, k))), s, Quads)

Sum(v, w) == [k \in 1..16 |-> Add(v[k], w[k])]
------------------------------------------------------------------------------
Init == initialize_hardware_entropy /\ out = in /\ i = 0 /\ ref = in

PermuteRound ==
  /\ i < 10
  /\ out' = DoubleRound(out)
  /\ ref' = ChaChaDoubleRound(ref)
  /\ i' = i + 1
  /\ UNCHANGED in

PermuteAdd ==
  /\ i = 10
  /\ out' = Sum(out, in)
  /\ ref' = Sum(ref, in)
  /\ i' = 11
  /\ UNCHANGED in

\* chacha_state[12]++, and the next call of chacha_permute_block.
NextBlock ==
  /\ i = 11
  /\ in' = [in EXCEPT ![13] = Add(@, <<0, 1>>)]
  /\ out' = in'
  /\ ref' = in'
  /\ i' = 0

Next == PermuteRound \/ PermuteAdd \/ NextBlock

Spec == Init /\ [][Next]_vars
------------------------------------------------------------------------------
\* "ChaCha20 CSPRNG Implementation" (generator.c): the block that the words are
\* drawn from is the ChaCha20 block of chacha_state.
BlockIsChaCha20 == i = 11 => out = ref
==============================================================================

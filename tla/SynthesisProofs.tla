--------------------------- MODULE SynthesisProofs ---------------------------
(* Proofs about Synthesis for every block size, counter width, page and        *)
(* number of junk instructions.                                              *)
EXTENDS Synthesis, WellFoundedInduction, TLAPS

\* The steps in which the Generator does nothing.
Elsewhere == Inject \/ CallArena \/ Step \/ Return

LEMMA Constants ==
  /\ BlockWords \in Nat /\ BlockWords > 0
  /\ Counters \in Nat /\ Counters > 0
  /\ MinJunk \in Nat /\ MinJunk > 0
  /\ JunkSpan \in Nat /\ JunkSpan > 0
  /\ PageSize \in Nat
BY SynthesisAssumption DEF SynthesisAssumption
------------------------------------------------------------------------------
(* The keystream.                                                          *)

\* Once seeded, the last word served is the one before chacha_index in the
\* current block, and the counter is already that of the next block.
StreamInv ==
  /\ chacha_index \in 1..BlockWords
  /\ counter \in 0..(Counters - 1)
  /\ block \in 0..(Counters - 1)
  /\ IF is_csprng_ready
     THEN /\ served = <<block, chacha_index - 1>>
          /\ counter = (block + 1) % Counters
     ELSE chacha_index = BlockWords /\ served = <<>>

LEMMA DrawStream ==
  ASSUME StreamInv, request_secure_random
  PROVE  StreamInv' /\ (served # <<>> => served' = Following(served))
<1> USE Constants
<1>1. /\ is_csprng_ready' = TRUE
      /\ served' = <<block', chacha_index' - 1>>
  BY DEF request_secure_random
<1>2. CASE NextWord
  <2>1. /\ chacha_index \in 1..BlockWords /\ chacha_index < BlockWords
        /\ chacha_index' = chacha_index + 1
        /\ counter' = counter /\ block' = block
        /\ is_csprng_ready
    BY <1>2 DEF NextWord, StreamInv
  <2>2. StreamInv'
    BY <1>1, <2>1 DEF StreamInv
  <2>3. served = <<block, chacha_index - 1>>
    BY <2>1 DEF StreamInv
  <2>4. served' = Following(served)
    BY <1>1, <2>1, <2>3 DEF Following
  <2> QED
    BY <2>2, <2>4
<1>3. CASE \E c \in IF is_csprng_ready THEN {counter} ELSE 0..(Counters - 1) :
             NewBlock(c)
  <2>1. PICK c \in IF is_csprng_ready THEN {counter} ELSE 0..(Counters - 1) :
               NewBlock(c)
    BY <1>3
  <2>2. /\ c \in 0..(Counters - 1)
        /\ chacha_index = BlockWords
        /\ block' = c /\ counter' = (c + 1) % Counters /\ chacha_index' = 1
    BY <2>1 DEF NewBlock, StreamInv
  <2>3. StreamInv'
    BY <1>1, <2>2 DEF StreamInv
  <2>4. ASSUME served # <<>> PROVE served' = Following(served)
    <3>1. /\ served = <<block, BlockWords - 1>>
          /\ c = (block + 1) % Counters
      BY <2>1, <2>2, <2>4 DEF StreamInv
    <3> QED
      BY <1>1, <2>2, <3>1 DEF Following
  <2> QED
    BY <2>3, <2>4
<1> QED
  BY <1>2, <1>3 DEF request_secure_random

LEMMA NextStream ==
  ASSUME StreamInv, [Next]_vars
  PROVE  /\ StreamInv'
         /\ \/ UNCHANGED vars
            \/ (pc \in {"length", "emit"} /\ served # <<>>)
                 => served' = Following(served)
<1>1. CASE DrawLength \/ EmitJunk \/ EmitLogic
  <2>1. request_secure_random
    BY <1>1 DEF DrawLength, EmitJunk, EmitLogic
  <2> QED
    BY <2>1, DrawStream
<1>2. CASE Request \/ CopyToRepository \/ Elsewhere
  <2>1. UNCHANGED rngVars /\ pc \notin {"length", "emit"}
    BY <1>2 DEF Request, CopyToRepository, Elsewhere, Inject, CallArena, Step,
      ExecJunk, ExecClear, ExecAdd, ExecXor, Execute, Return
  <2> QED
    BY <2>1 DEF StreamInv, rngVars
<1>3. CASE UNCHANGED vars
  BY <1>3 DEF StreamInv, vars, rngVars
<1> QED
  BY <1>1, <1>2, <1>3 DEF Next, Elsewhere

\* Words are served in the order of the keystream, for every block size and
\* counter width, over the wrap-around of the counter.
THEOREM StreamCorrect == Spec => KeystreamInOrder
<1>1. Init => StreamInv
  BY Constants DEF Init, StreamInv
<1>2. StreamInv /\ [Next]_vars => StreamInv'
  BY NextStream
<1>3. StreamInv /\ [Next]_vars =>
        [(pc \in {"length", "emit"} /\ served # <<>>)
           => served' = Following(served)]_vars
  BY NextStream
<1> QED
  BY <1>1, <1>2, <1>3, PTL DEF Spec, KeystreamInOrder
------------------------------------------------------------------------------
(* The size of a variant.                                                  *)

MaxJunk == MinJunk + JunkSpan - 1

\* An instruction of one or two bytes is emitted for each one taken off left,
\* so cursor + left never shrinks and cursor + 2 * left never grows.
SizeInv ==
  /\ left \in Nat
  /\ cursor \in Nat
  /\ pc = "length" => cursor = 0
  /\ pc = "emit" => /\ cursor + left >= MinJunk
                    /\ cursor + 2 * left <= 2 * MaxJunk
  /\ SizeInBounds

LEMMA JunkLength ==
  ASSUME NEW r \in 0..3
  PROVE  Len(Junk[r + 1]) \in {1, 2}
BY DEF Junk

LEMMA LogicLength ==
  ASSUME NEW mask
  PROVE  Len(Logic(mask)) = 13
BY DEF Logic, Bytes

LEMMA LengthBounds ==
  ASSUME NEW n \in MinJunk..MaxJunk
  PROVE  n \in Nat /\ 0 + n >= MinJunk /\ 0 + 2 * n <= 2 * MaxJunk
BY Constants DEF MaxJunk

LEMMA JunkBounds ==
  ASSUME NEW c \in Nat, NEW n \in Nat, n > 0, NEW d \in {1, 2},
         c + n >= MinJunk, c + 2 * n <= 2 * MaxJunk
  PROVE  /\ n - 1 \in Nat /\ c + d \in Nat
         /\ c + d + (n - 1) >= MinJunk
         /\ c + d + 2 * (n - 1) <= 2 * MaxJunk
BY Constants DEF MaxJunk

LEMMA NextSize == SizeInv /\ [Next]_vars => SizeInv'
<1> SUFFICES ASSUME SizeInv, [Next]_vars PROVE SizeInv'
  OBVIOUS
<1> USE Constants DEF SizeInv, SizeInBounds, total_size
<1>1. CASE Request
  BY <1>1 DEF Request
<1>2. CASE DrawLength
  <2>1. cursor' = 0 /\ pc' = "emit" /\ left' \in MinJunk..MaxJunk
    BY <1>2 DEF DrawLength, MaxJunk
  <2> QED
    BY <2>1, LengthBounds
<1>3. CASE EmitJunk
  <2>1. PICK r \in 0..3 : Emit(Junk[r + 1])
    BY <1>3 DEF EmitJunk
  <2>2. PICK d \in {1, 2} : cursor' = cursor + d
    BY <2>1, JunkLength DEF Emit
  <2>3. pc = "emit" /\ pc' = "emit" /\ left > 0 /\ left' = left - 1
    BY <1>3 DEF EmitJunk
  <2> QED
    BY <2>2, <2>3, JunkBounds
<1>4. CASE EmitLogic
  <2>1. PICK mask \in Words : Emit(Logic(mask))
    BY <1>4 DEF EmitLogic
  <2>2. cursor' = cursor + 13
    BY <2>1, LogicLength DEF Emit
  <2> QED
    BY <1>4, <2>2 DEF EmitLogic, MaxJunk, MinSize, MaxSize
<1>5. CASE CopyToRepository
  BY <1>5 DEF CopyToRepository
<1>6. CASE Elsewhere
  BY <1>6 DEF Elsewhere, Inject, CallArena, Step, ExecJunk, ExecClear, ExecAdd,
    ExecXor, Execute, Return, genVars
<1>7. CASE UNCHANGED vars
  BY <1>7 DEF vars, genVars
<1> QED
  BY <1>1, <1>2, <1>3, <1>4, <1>5, <1>6, <1>7 DEF Next, Elsewhere

LEMMA InitSize == Init => SizeInv
BY Constants DEF Init, SizeInv, SizeInBounds

\* The size of a variant is within bounds, for every number of junk
\* instructions: with the constants of the code, between 18 and 71.
THEOREM SizeCorrect == Spec => []SizeInBounds
<1>1. SizeInv => SizeInBounds
  BY DEF SizeInv
<1> QED
  BY <1>1, InitSize, NextSize, PTL DEF Spec
------------------------------------------------------------------------------
(* The two buffers.                                                        *)

Agree(from) == \A k \in Page : k > from => gen_buf[k] = guest_ram[k]

\* Past the cursor the buffers still agree from the last request on.
BufferInv ==
  /\ guest_ram = [k \in Page |-> guest_ram[k]]
  /\ gen_buf = [k \in Page |-> gen_buf[k]]
  /\ pc \in {"length", "emit", "copy"} => Agree(cursor)
  /\ BuffersAgree

\* Bytes are only stored up to the new cursor.
LEMMA EmitAgrees ==
  ASSUME NEW s, Len(s) \in Nat, cursor \in Nat, Emit(s), Agree(cursor),
         gen_buf' = gen_buf
  PROVE  /\ guest_ram' = [k \in Page |-> guest_ram'[k]]
         /\ Agree(cursor)'
BY Constants DEF Emit, Agree, Page

LEMMA NextBuffers == SizeInv /\ BufferInv /\ [Next]_vars => BufferInv'
<1> SUFFICES ASSUME SizeInv, BufferInv, [Next]_vars PROVE BufferInv'
  OBVIOUS
<1>0. cursor \in Nat /\ BufferInv
  BY DEF SizeInv
<1> USE <1>0, Constants DEF BufferInv, BuffersAgree
<1>1. CASE Request
  BY <1>1 DEF Request, Agree, Page
<1>2. CASE DrawLength
  BY <1>2 DEF DrawLength, Agree
<1>3. CASE EmitJunk
  <2>1. PICK r \in 0..3 : Emit(Junk[r + 1])
    BY <1>3 DEF EmitJunk
  <2>2. Len(Junk[r + 1]) \in Nat
    BY JunkLength
  <2>3. pc = "emit" /\ pc' = "emit" /\ gen_buf' = gen_buf
    BY <1>3 DEF EmitJunk
  <2> QED
    BY <2>1, <2>2, <2>3, EmitAgrees
<1>4. CASE EmitLogic
  <2>1. PICK mask \in Words : Emit(Logic(mask))
    BY <1>4 DEF EmitLogic
  <2>2. Len(Logic(mask)) \in Nat
    BY LogicLength
  <2>3. pc = "emit" /\ pc' = "copy" /\ gen_buf' = gen_buf
    BY <1>4 DEF EmitLogic
  <2> QED
    BY <2>1, <2>2, <2>3, EmitAgrees
<1>5. CASE CopyToRepository
  <2>1. \A k \in Page : gen_buf'[k] = guest_ram[k]
    BY <1>5 DEF CopyToRepository, total_size, Agree, Page
  <2>2. gen_buf' = [k \in Page |-> gen_buf'[k]] /\ guest_ram' = guest_ram
    BY <1>5 DEF CopyToRepository
  <2>3. gen_buf' = guest_ram
    BY <2>1, <2>2
  <2>4. pc' = "inject"
    BY <1>5 DEF CopyToRepository
  <2> QED
    BY <2>2, <2>3, <2>4
<1>6. CASE Elsewhere
  <2>1. /\ guest_ram' = guest_ram /\ gen_buf' = gen_buf
        /\ pc \in {"inject", "call", "run"}
        /\ pc' \notin {"length", "emit", "copy"}
    BY <1>6 DEF Elsewhere, Inject, CallArena, Step, ExecJunk, ExecClear,
      ExecAdd, ExecXor, Execute, Return, genVars
  <2> QED
    BY <2>1
<1>7. CASE UNCHANGED vars
  BY <1>7 DEF vars, genVars, Agree
<1> QED
  BY <1>1, <1>2, <1>3, <1>4, <1>5, <1>6, <1>7 DEF Next, Elsewhere

\* The Repository and the Dispatcher hash equal buffers, for every page size.
THEOREM BuffersCorrect == Spec => []BuffersAgree
<1>1. Init => BufferInv
  BY DEF Init, BufferInv, BuffersAgree
<1>2. BufferInv => BuffersAgree
  BY DEF BufferInv
<1> QED
  BY <1>1, <1>2, InitSize, NextSize, NextBuffers, PTL DEF Spec
------------------------------------------------------------------------------
(* Words.  XorHalf is a recursive function: that it satisfies its defining  *)
(* equation is shown by induction, which the provers get as the existence   *)
(* of a least member.                                                       *)

LEMMA Induction ==
  ASSUME NEW S \in SUBSET Nat, 0 \in S, \A n \in Nat : n \in S => n + 1 \in S
  PROVE  \A n \in Nat : n \in S
<1> DEFINE R == OpToRel(<, Nat)
           T == {n \in Nat : n \notin S}
<1> SUFFICES ASSUME T # {} PROVE FALSE
  OBVIOUS
<1>1. IsWellFoundedOn(R, Nat) /\ T \in SUBSET Nat
  BY NatLessThanWellFounded
<1> HIDE DEF R
<1>2. PICK n \in T : \A m \in T : ~(<<m, n>> \in R)
  BY <1>1, WFMin
<1>3. n \in Nat /\ n # 0 /\ n \notin S
  OBVIOUS
<1>4. n - 1 \in Nat /\ n - 1 \notin S
  BY <1>3
<1>5. <<n - 1, n>> \in R
  BY <1>3, <1>4 DEF R, OpToRel
<1> QED
  BY <1>2, <1>4, <1>5

\* One step of the recursion.
Row(f, a) == [b \in Half |-> IF a = 0 THEN b
                             ELSE 2 * f[a \div 2][b \div 2] + ((a + b) % 2)]

LEMMA XorExists == \A n \in Nat : \E f : f = [a \in 0..n |-> Row(f, a)]
<1> DEFINE S == {n \in Nat : \E f : f = [a \in 0..n |-> Row(f, a)]}
<1>1. 0 \in S
  <2> DEFINE f == [a \in 0..0 |-> [b \in Half |-> b]]
  <2>1. f = [a \in 0..0 |-> Row(f, a)]
    BY DEF Row
  <2> QED
    BY <2>1
<1>2. ASSUME NEW n \in Nat, n \in S PROVE n + 1 \in S
  <2>1. PICK f : f = [a \in 0..n |-> Row(f, a)]
    BY <1>2
  <2> DEFINE g == [a \in 0..(n + 1) |-> Row(f, a)]
  <2>2. \A a \in 0..n : g[a] = f[a]
    BY <2>1
  <2>3. g = [a \in 0..(n + 1) |-> Row(f, a)]
    OBVIOUS
  <2> HIDE DEF g
  <2>4. ASSUME NEW a \in 0..(n + 1) PROVE Row(f, a) = Row(g, a)
    <3>1. CASE a = 0
      BY <3>1 DEF Row
    <3>2. CASE a # 0
      <4>1. a \div 2 \in 0..n
        BY <3>2
      <4> QED
        BY <2>2, <4>1 DEF Row
    <3> QED
      BY <3>1, <3>2
  <2>5. g = [a \in 0..(n + 1) |-> Row(g, a)]
    BY <2>3, <2>4
  <2> QED
    BY <2>5
<1>3. S \in SUBSET Nat
  OBVIOUS
<1> HIDE DEF S
<1>4. \A n \in Nat : n \in S
  BY <1>1, <1>2, <1>3, Induction
<1> QED
  BY <1>4 DEF S

LEMMA RadixFacts == Radix \in Nat /\ Radix > 0
BY DEF Radix

LEMMA RadixProduct == Radix = 16 * (16 * (16 * 16))
BY DEF Radix

LEMMA XorEquation ==
  ASSUME NEW a \in Half, NEW b \in Half
  PROVE  XorHalf[a][b] = IF a = 0 THEN b
                         ELSE 2 * XorHalf[a \div 2][b \div 2] + ((a + b) % 2)
<1>1. \E f : f = [x \in Half |-> Row(f, x)]
  <2>1. Radix - 1 \in Nat
    BY RadixFacts
  <2> QED
    BY <2>1, XorExists DEF Half
<1>2. XorHalf = CHOOSE f : f = [x \in Half |-> Row(f, x)]
  BY DEF XorHalf, Row
<1>3. XorHalf = [x \in Half |-> Row(XorHalf, x)]
  BY <1>1, <1>2
<1>4. XorHalf[a] = Row(XorHalf, a)
  BY <1>3
<1> QED
  BY <1>4 DEF Row

\* The same equation for a = 0 too.
LEMMA XorStep ==
  ASSUME NEW a \in Half, NEW b \in Half
  PROVE  /\ a \div 2 \in Half /\ b \div 2 \in Half
         /\ XorHalf[a][b] = 2 * XorHalf[a \div 2][b \div 2] + ((a + b) % 2)
<1>1. a \div 2 \in Half /\ b \div 2 \in Half
  BY RadixFacts DEF Half
<1>2. CASE a = 0
  <2>1. 0 \in Half /\ a \div 2 = 0
    BY <1>2, RadixFacts DEF Half
  <2>2. XorHalf[a][b] = b /\ XorHalf[0][b \div 2] = b \div 2
    BY <1>1, <1>2, <2>1, XorEquation
  <2>3. b \in Nat
    BY RadixFacts DEF Half
  <2>4. b = 2 * (b \div 2) + ((0 + b) % 2)
    BY <2>3
  <2> QED
    BY <1>1, <1>2, <2>1, <2>2, <2>4
<1>3. CASE a # 0
  BY <1>1, <1>3, XorEquation
<1> QED
  BY <1>2, <1>3

\* Below M, xor stays below M and gives back what it was applied to.
Undoes(M) ==
  \A p, m \in 0..(M - 1) :
    XorHalf[p][m] \in 0..(M - 1) /\ XorHalf[m][XorHalf[p][m]] = p

\* The arithmetic of the lowest bit.
LEMMA LowBit ==
  ASSUME NEW p \in Nat, NEW m \in Nat, NEW h \in Nat, NEW x,
         x = 2 * h + ((p + m) % 2)
  PROVE  x \in Nat /\ x \div 2 = h /\ (m + x) % 2 = p % 2
<1>1. PICK e \in {0, 1} : (p + m) % 2 = e
  OBVIOUS
<1>2. x = 2 * h + e
  BY <1>1
<1>3. x \in Nat /\ x \div 2 = h
  BY <1>2
<1>4. PICK d \in Nat : p + m = 2 * d + e
  BY <1>1
<1>5. PICK i \in Nat, j \in {0, 1} : p = 2 * i + j
  OBVIOUS
<1>6. p % 2 = j
  BY <1>5
<1>7. m + x = 2 * (h + d + e - i - j) + j /\ h + d + e - i - j \in Int
  BY <1>2, <1>4, <1>5
<1>8. (m + x) % 2 = j
  BY <1>7
<1> QED
  BY <1>3, <1>6, <1>8

LEMMA Doubling ==
  ASSUME NEW M \in Nat, M > 0, 2 * M <= Radix, Undoes(M)
  PROVE  Undoes(2 * M)
<1> SUFFICES ASSUME NEW p \in 0..(2 * M - 1), NEW m \in 0..(2 * M - 1)
             PROVE  /\ XorHalf[p][m] \in 0..(2 * M - 1)
                    /\ XorHalf[m][XorHalf[p][m]] = p
  BY DEF Undoes
<1> DEFINE u == p \div 2
           v == m \div 2
           h == XorHalf[u][v]
           x == XorHalf[p][m]
<1>1. /\ u \in 0..(M - 1) /\ v \in 0..(M - 1)
      /\ p \in Nat /\ m \in Nat /\ p = 2 * u + (p % 2)
  OBVIOUS
<1>2. p \in Half /\ m \in Half
  BY RadixFacts DEF Half
<1>3. h \in 0..(M - 1) /\ XorHalf[v][h] = u
  BY <1>1 DEF Undoes
<1>4. x = 2 * h + ((p + m) % 2)
  BY <1>2, XorStep
<1> HIDE DEF h, x, u
<1>5. h \in Nat
  BY <1>3
<1>6. x \in Nat /\ x \div 2 = h /\ (m + x) % 2 = p % 2
  BY <1>1, <1>4, <1>5, LowBit
<1>7. (p + m) % 2 \in {0, 1}
  BY <1>1
<1>8. x \in 0..(2 * M - 1)
  BY <1>3, <1>4, <1>7
<1>9. x \in Half
  BY <1>8, RadixFacts DEF Half
<1>10. XorHalf[m][x] = 2 * XorHalf[v][h] + (p % 2)
  <2>1. XorHalf[m][x] = 2 * XorHalf[m \div 2][x \div 2] + ((m + x) % 2)
    BY <1>2, <1>9, XorStep
  <2> QED
    BY <1>6, <2>1
<1>11. XorHalf[m][x] = p
  BY <1>1, <1>3, <1>10
<1> QED
  BY <1>8, <1>11 DEF x

LEMMA Sixteenfold ==
  ASSUME NEW M \in Nat, M > 0, 16 * M <= Radix, Undoes(M)
  PROVE  Undoes(16 * M)
<1> USE RadixFacts
<1>1. Undoes(2 * M)
  BY Doubling
<1>2. PICK M2 \in Nat : M2 = 2 * M
  OBVIOUS
<1>3. Undoes(2 * M2)
  BY <1>1, <1>2, Doubling
<1>4. PICK M4 \in Nat : M4 = 2 * M2
  BY <1>2
<1>5. Undoes(2 * M4)
  BY <1>2, <1>3, <1>4, Doubling
<1>6. PICK M8 \in Nat : M8 = 2 * M4
  BY <1>4
<1>7. Undoes(2 * M8)
  BY <1>2, <1>4, <1>5, <1>6, Doubling
<1>8. 2 * M8 = 16 * M
  BY <1>2, <1>4, <1>6
<1> QED
  BY <1>7, <1>8

LEMMA XorUndoes == Undoes(Radix)
<1>1. Undoes(1)
  <2>1. 0 \in Half
    BY RadixFacts DEF Half
  <2>2. XorHalf[0][0] = 0
    BY <2>1, XorEquation
  <2> QED
    BY <2>2 DEF Undoes
<1>2. PICK a \in Nat : a = 16
  OBVIOUS
<1>3. PICK b \in Nat : b = 16 * a
  OBVIOUS
<1>4. PICK c \in Nat : c = 16 * b
  OBVIOUS
<1>5. Radix = 16 * c
  BY <1>2, <1>3, <1>4, RadixProduct
<1>6. /\ 1 > 0 /\ a > 0 /\ b > 0 /\ c > 0 /\ a = 16 * 1
      /\ 16 * 1 <= Radix /\ 16 * a <= Radix /\ 16 * b <= Radix
      /\ 16 * c <= Radix
  BY <1>2, <1>3, <1>4, <1>5
<1>7. Undoes(a)
  BY <1>1, <1>6, Sixteenfold
<1>8. Undoes(b)
  BY <1>3, <1>6, <1>7, Sixteenfold
<1>9. Undoes(c)
  BY <1>4, <1>6, <1>8, Sixteenfold
<1> QED
  BY <1>5, <1>6, <1>9, Sixteenfold

\* The mask comes off: (payload ^ mask) xored to mask is the payload.
LEMMA Unmask ==
  ASSUME NEW p \in Word, NEW m \in Word
  PROVE  Xor(p, m) \in Word /\ Xor(m, Xor(p, m)) = p
<1>1. PICK a \in Half, b \in Half : p = <<a, b>>
  BY DEF Word
<1>2. PICK c \in Half, d \in Half : m = <<c, d>>
  BY DEF Word
<1>3. \A i, j \in Half : XorHalf[i][j] \in Half /\ XorHalf[j][XorHalf[i][j]] = i
  BY XorUndoes DEF Undoes, Half
<1>4. Xor(p, m) = <<XorHalf[a][c], XorHalf[b][d]>>
  BY <1>1, <1>2 DEF Xor
<1>5. XorHalf[a][c] \in Half /\ XorHalf[b][d] \in Half
  BY <1>3
<1>6. Xor(m, Xor(p, m)) = <<XorHalf[c][XorHalf[a][c]], XorHalf[d][XorHalf[b][d]]>>
  BY <1>2, <1>4 DEF Xor
<1>7. Xor(m, Xor(p, m)) = <<a, b>>
  BY <1>3, <1>6
<1> QED
  BY <1>1, <1>4, <1>5, <1>7 DEF Word

LEMMA AddZero ==
  ASSUME NEW w \in Word
  PROVE  Add(Zero, w) = w
<1>1. PICK a \in Half, b \in Half : w = <<a, b>>
  BY DEF Word
<1>2. a \in Nat /\ b \in Nat /\ a < Radix /\ b < Radix
  BY RadixFacts DEF Half
<1>3. (0 + b) \div Radix = 0 /\ (0 + b) % Radix = b /\ (0 + a + 0) % Radix = a
  BY <1>2, RadixFacts
<1>4. Add(Zero, w) = <<(0 + a + ((0 + b) \div Radix)) % Radix, (0 + b) % Radix>>
  BY <1>1 DEF Add, Zero
<1> QED
  BY <1>1, <1>3, <1>4

\* A word survives being stored and loaded.
LEMMA StoreLoad ==
  ASSUME NEW w \in Word
  PROVE  FromBytes(Bytes(w)) = w
<1>1. PICK a \in Half, b \in Half : w = <<a, b>>
  BY DEF Word
<1>2. a \in Nat /\ b \in Nat
  BY RadixFacts DEF Half
<1>3. a = (a % 256) + 256 * (a \div 256) /\ b = (b % 256) + 256 * (b \div 256)
  BY <1>2
<1>4. FromBytes(Bytes(w)) = <<(a % 256) + 256 * (a \div 256),
                              (b % 256) + 256 * (b \div 256)>>
  BY <1>1 DEF FromBytes, Bytes
<1> QED
  BY <1>1, <1>3, <1>4

LEMMA PayloadWord == logic_payload \in Word
<1>1. \hDEAD \in Half /\ \hBEEF \in Half
  BY DEF Half, Radix
<1> QED
  BY <1>1 DEF logic_payload, Word
------------------------------------------------------------------------------
(* The layout of a variant, and where the processor can be in it.          *)

\* The bytes of buf after the first p are s.
Holds(buf, p, s) == \A k \in 1..Len(s) : buf[p + k] = s[k]

\* B are the borders of the junk instructions in the first n bytes of buf.
Parsed(buf, n, B) ==
  /\ 0 \in B /\ n \in B
  /\ \A p \in B : p < n => \E r \in 1..4 : /\ p + Len(Junk[r]) \in B
                                           /\ Holds(buf, p, Junk[r])

\* n bytes of junk, then the logic.
Variant(buf, n, B, mask) == Parsed(buf, n, B) /\ Holds(buf, n, Logic(mask))

\* The processor is at a border of the junk, or at an instruction of the logic
\* that starts at n, with the value that eax has there.
Reached(n, B, mask) ==
  \/ ip \in B
  \/ ip = n + 2 /\ eax = Zero
  \/ ip = n + 7 /\ eax = mask
  \/ ip = n + 12 /\ eax = logic_payload

LaidOut(n, B, mask) ==
  /\ Variant(guest_ram, n, B, mask)
  /\ pc = "run" => Reached(n, B, mask)

LayoutInv ==
  /\ pc = "emit" => \E B \in SUBSET (0..cursor) : Parsed(guest_ram, cursor, B)
  /\ pc \in {"copy", "inject", "call", "run"} =>
       \E B \in SUBSET (0..(cursor - 13)), mask \in Words :
         LaidOut(cursor - 13, B, mask)
  /\ pc \in {"call", "run"} => arena = guest_ram

LEMMA JunkBytes ==
  ASSUME NEW r \in 1..4
  PROVE  \/ Len(Junk[r]) = 1 /\ Junk[r][1] \in {\h90, \hFC, \hF8}
         \/ Len(Junk[r]) = 2 /\ Junk[r][1] = \h87
BY DEF Junk

\* Junk instructions are told apart by their first bytes, by their length at
\* least.
LEMMA JunkSame ==
  ASSUME NEW r \in 1..4, NEW q \in 1..4, Junk[r][1] = Junk[q][1]
  PROVE  Len(Junk[r]) = Len(Junk[q])
<1>1. \/ Len(Junk[r]) = 1 /\ Junk[r][1] \in {\h90, \hFC, \hF8}
      \/ Len(Junk[r]) = 2 /\ Junk[r][1] = \h87
  BY JunkBytes
<1>2. \/ Len(Junk[q]) = 1 /\ Junk[q][1] \in {\h90, \hFC, \hF8}
      \/ Len(Junk[q]) = 2 /\ Junk[q][1] = \h87
  BY JunkBytes
<1> QED
  BY <1>1, <1>2

\* u is s followed by t.
Joined(u, s, t) ==
  /\ u \in Seq(Nat)
  /\ Len(u) = Len(s) + Len(t)
  /\ \A k \in 1..Len(s) : u[k] = s[k]
  /\ \A k \in 1..Len(t) : u[Len(s) + k] = t[k]

LEMMA Concat ==
  ASSUME NEW s \in Seq(Nat), NEW t \in Seq(Nat)
  PROVE  Joined(s \o t, s, t)
BY DEF Joined

LEMMA BytesType ==
  ASSUME NEW w \in Word
  PROVE  Bytes(w) \in Seq(Nat) /\ Len(Bytes(w)) = 4
<1>1. w[1] \in Nat /\ w[2] \in Nat
  BY RadixFacts DEF Word, Half
<1>2. /\ w[2] % 256 \in Nat /\ w[2] \div 256 \in Nat
      /\ w[1] % 256 \in Nat /\ w[1] \div 256 \in Nat
  BY <1>1
<1> QED
  BY <1>2 DEF Bytes

LEMMA LogicBytes ==
  ASSUME NEW mask \in Word
  PROVE  /\ Logic(mask)[1] = \h31 /\ Logic(mask)[3] = \h05
         /\ Logic(mask)[8] = \h35 /\ Logic(mask)[13] = \hC3
         /\ \A k \in 1..4 : Logic(mask)[3 + k] = Bytes(mask)[k]
         /\ \A k \in 1..4 : Logic(mask)[8 + k] = Bytes(Xor(logic_payload, mask))[k]
<1> DEFINE a == Bytes(mask)
           b == Bytes(Xor(logic_payload, mask))
           h == <<\h31, \hC0, \h05>>
           x == h \o a
           y == x \o <<\h35>>
           z == y \o b
<1>1. /\ a \in Seq(Nat) /\ Len(a) = 4
      /\ b \in Seq(Nat) /\ Len(b) = 4
  BY BytesType, Unmask, PayloadWord
<1>2. /\ h \in Seq(Nat) /\ Len(h) = 3 /\ h[1] = \h31 /\ h[3] = \h05
      /\ <<\h35>> \in Seq(Nat) /\ Len(<<\h35>>) = 1 /\ <<\h35>>[1] = \h35
      /\ <<\hC3>> \in Seq(Nat) /\ Len(<<\hC3>>) = 1 /\ <<\hC3>>[1] = \hC3
  OBVIOUS
<1>3. Logic(mask) = z \o <<\hC3>>
  BY DEF Logic
<1> HIDE DEF a, b, h
<1>4. /\ x \in Seq(Nat) /\ Len(x) = 7
      /\ x[1] = \h31 /\ x[3] = \h05 /\ \A k \in 1..4 : x[3 + k] = a[k]
  <2>1. Joined(x, h, a)
    BY <1>1, <1>2, Concat
  <2> HIDE DEF x
  <2> QED
    BY <1>1, <1>2, <2>1 DEF Joined
<1> HIDE DEF x
<1>5. /\ y \in Seq(Nat) /\ Len(y) = 8
      /\ \A k \in 1..7 : y[k] = x[k]
      /\ y[8] = \h35
  <2>0. x \in Seq(Nat) /\ <<\h35>> \in Seq(Nat)
    BY <1>4
  <2>1. Joined(y, x, <<\h35>>)
    BY <2>0, Concat
  <2> HIDE DEF y
  <2>2. y[Len(x) + 1] = <<\h35>>[1]
    BY <1>2, <2>1 DEF Joined
  <2> QED
    BY <1>2, <1>4, <2>1, <2>2 DEF Joined
<1> HIDE DEF y
<1>6. /\ z \in Seq(Nat) /\ Len(z) = 12
      /\ \A k \in 1..8 : z[k] = y[k]
      /\ \A k \in 1..4 : z[8 + k] = b[k]
  <2>1. Joined(z, y, b)
    BY <1>1, <1>5, Concat
  <2> HIDE DEF z
  <2> QED
    BY <1>1, <1>5, <2>1 DEF Joined
<1> HIDE DEF z
<1>7. /\ \A k \in 1..12 : Logic(mask)[k] = z[k]
      /\ Logic(mask)[13] = \hC3
  <2>0. z \in Seq(Nat) /\ <<\hC3>> \in Seq(Nat)
    BY <1>6
  <2>1. Joined(Logic(mask), z, <<\hC3>>)
    BY <1>3, <2>0, Concat
  <2>2. Logic(mask)[Len(z) + 1] = <<\hC3>>[1]
    BY <1>2, <2>1 DEF Joined
  <2> QED
    BY <1>2, <1>6, <2>1, <2>2 DEF Joined
<1>8. \A k \in 1..4 : 3 + k \in 1..7 /\ 3 + k \in 1..8 /\ 3 + k \in 1..12
                       /\ 8 + k \in 1..12
  OBVIOUS
<1>9. \A k \in 1..4 : Logic(mask)[3 + k] = a[k] /\ Logic(mask)[8 + k] = b[k]
  BY <1>4, <1>5, <1>6, <1>7, <1>8
<1>10. /\ Logic(mask)[1] = \h31 /\ Logic(mask)[3] = \h05
       /\ Logic(mask)[8] = \h35
  BY <1>4, <1>5, <1>6, <1>7
<1> QED
  BY <1>7, <1>9, <1>10 DEF a, b

\* Storing s on the page leaves the bytes before it alone.
LEMMA EmitHolds ==
  ASSUME NEW s, Len(s) \in Nat, cursor \in Nat, cursor + Len(s) <= PageSize,
         Emit(s)
  PROVE  /\ \A k \in 1..cursor : guest_ram'[k] = guest_ram[k]
         /\ Holds(guest_ram', cursor, s)
         /\ cursor' = cursor + Len(s)
BY Constants DEF Emit, Holds, Page

LEMMA ParsedFrame ==
  ASSUME NEW n \in Nat, NEW B \in SUBSET (0..n), NEW f, NEW g,
         \A k \in 1..n : g[k] = f[k], Parsed(f, n, B)
  PROVE  Parsed(g, n, B)
<1> SUFFICES ASSUME NEW p \in B, p < n
             PROVE  \E r \in 1..4 : /\ p + Len(Junk[r]) \in B
                                    /\ Holds(g, p, Junk[r])
  BY DEF Parsed
<1>1. PICK r \in 1..4 : p + Len(Junk[r]) \in B /\ Holds(f, p, Junk[r])
  BY DEF Parsed
<1>2. Len(Junk[r]) \in {1, 2} /\ p \in Nat /\ p + Len(Junk[r]) <= n
  BY <1>1, JunkBytes
<1>3. ASSUME NEW k \in 1..Len(Junk[r]) PROVE g[p + k] = Junk[r][k]
  <2>1. p + k \in 1..n
    BY <1>2
  <2> QED
    BY <1>1, <2>1 DEF Holds
<1> QED
  BY <1>1, <1>3 DEF Holds

LEMMA ParsedMore ==
  ASSUME NEW n \in Nat, NEW B \in SUBSET (0..n), NEW f, NEW r \in 1..4,
         Parsed(f, n, B), Holds(f, n, Junk[r])
  PROVE  /\ B \cup {n + Len(Junk[r])} \in SUBSET (0..(n + Len(Junk[r])))
         /\ Parsed(f, n + Len(Junk[r]), B \cup {n + Len(Junk[r])})
<1> DEFINE m == n + Len(Junk[r])
           C == B \cup {m}
<1>1. Len(Junk[r]) = 1 \/ Len(Junk[r]) = 2
  BY JunkBytes
<1>2. m \in Nat /\ m > n
  <2>1. PICK d \in {1, 2} : Len(Junk[r]) = d
    BY <1>1
  <2> QED
    BY <2>1
<1>3. 0 \in C /\ m \in C /\ C \in SUBSET (0..m)
  <2> HIDE DEF m
  <2>1. \A p \in B : p \in 0..m
    BY <1>2
  <2> QED
    BY <1>2, <2>1 DEF Parsed
<1>4. ASSUME NEW p \in C, p < m
      PROVE  \E q \in 1..4 : p + Len(Junk[q]) \in C /\ Holds(f, p, Junk[q])
  <2>1. p \in B /\ p \in 0..n
    BY <1>2, <1>4
  <2>2. CASE p = n
    BY <2>2
  <2>3. CASE p # n
    <3>1. p < n
      BY <2>1, <2>3
    <3> QED
      BY <2>1, <3>1 DEF Parsed
  <2> QED
    BY <2>2, <2>3
<1> HIDE DEF m, C
<1>5. Parsed(f, m, C)
  BY <1>3, <1>4 DEF Parsed
<1> QED
  BY <1>3, <1>5 DEF m, C

LEMMA WordsAreWords == Words \subseteq Word
BY SynthesisAssumption DEF SynthesisAssumption

LEMMA PageBound == PageSize >= 2 * MaxJunk + 13 /\ MaxJunk \in Nat
BY SynthesisAssumption, Constants DEF SynthesisAssumption, MaxSize, MaxJunk

\* An instruction of the processor is at ip only if its first byte is.
LEMMA FirstByte ==
  ASSUME ip \in Nat
  PROVE  /\ \A r \in 1..4 : AtIp(Junk[r]) => arena[ip + 1] = Junk[r][1]
         /\ AtIp(<<\h31, \hC0>>) => arena[ip + 1] = \h31
         /\ AtIp(<<\h05>>) => arena[ip + 1] = \h05
         /\ AtIp(<<\h35>>) => arena[ip + 1] = \h35
         /\ AtIp(<<\hC3>>) => arena[ip + 1] = \hC3
<1>1. ASSUME NEW s, Len(s) \in Nat, Len(s) > 0, AtIp(s)
      PROVE  arena[ip + 1] = s[1]
  BY <1>1 DEF AtIp
<1>2. \A r \in 1..4 : Len(Junk[r]) \in Nat /\ Len(Junk[r]) > 0
  BY JunkBytes
<1>3. /\ Len(<<\h31, \hC0>>) = 2 /\ <<\h31, \hC0>>[1] = \h31
      /\ Len(<<\h05>>) = 1 /\ <<\h05>>[1] = \h05
      /\ Len(<<\h35>>) = 1 /\ <<\h35>>[1] = \h35
      /\ Len(<<\hC3>>) = 1 /\ <<\hC3>>[1] = \hC3
  OBVIOUS
<1>4. \A r \in 1..4 : AtIp(Junk[r]) => arena[ip + 1] = Junk[r][1]
  BY <1>1, <1>2
<1>5. AtIp(<<\h31, \hC0>>) => arena[ip + 1] = \h31
  BY <1>1, <1>3
<1>6. AtIp(<<\h05>>) => arena[ip + 1] = \h05
  BY <1>1, <1>3
<1>7. AtIp(<<\h35>>) => arena[ip + 1] = \h35
  BY <1>1, <1>3
<1>8. AtIp(<<\hC3>>) => arena[ip + 1] = \hC3
  BY <1>1, <1>3
<1> QED
  BY <1>4, <1>5, <1>6, <1>7, <1>8

\* What the processor meets where it is: the instruction emitted there.
AtJunk(B) == \E r \in 1..4 : /\ arena[ip + 1] = Junk[r][1]
                             /\ ip + Len(Junk[r]) \in B
AtClear(n)     == ip = n /\ arena[ip + 1] = \h31
AtAdd(n)       == ip = n + 2 /\ eax = Zero /\ arena[ip + 1] = \h05
AtXor(n, mask) == ip = n + 7 /\ eax = mask /\ arena[ip + 1] = \h35
AtRet(n)       == ip = n + 12 /\ eax = logic_payload /\ arena[ip + 1] = \hC3

LEMMA Meets ==
  ASSUME NEW n \in Nat, NEW B \in SUBSET (0..n), NEW mask \in Words,
         Variant(arena, n, B, mask), Reached(n, B, mask)
  PROVE  /\ ip \in Nat
         /\ AtJunk(B) \/ AtClear(n) \/ AtAdd(n) \/ AtXor(n, mask) \/ AtRet(n)
<1>1. /\ arena[n + 1] = \h31 /\ arena[n + 3] = \h05
      /\ arena[n + 8] = \h35 /\ arena[n + 13] = \hC3
  <2>1. \A k \in 1..13 : arena[n + k] = Logic(mask)[k]
    BY LogicLength DEF Variant, Holds
  <2>2. mask \in Word
    BY WordsAreWords
  <2>3. /\ Logic(mask)[1] = \h31 /\ Logic(mask)[3] = \h05
        /\ Logic(mask)[8] = \h35 /\ Logic(mask)[13] = \hC3
    BY <2>2, LogicBytes
  <2> QED
    BY <2>1, <2>3
<1>2. CASE ip \in B /\ ip < n
  <2>1. PICK r \in 1..4 : ip + Len(Junk[r]) \in B /\ Holds(arena, ip, Junk[r])
    BY <1>2 DEF Variant, Parsed
  <2>2. Len(Junk[r]) \in Nat /\ Len(Junk[r]) > 0
    BY JunkBytes
  <2>3. arena[ip + 1] = Junk[r][1]
    BY <2>1, <2>2 DEF Holds
  <2>4. AtJunk(B)
    BY <2>1, <2>3 DEF AtJunk
  <2> QED
    BY <1>2, <2>4
<1>3. CASE ip = n
  BY <1>1, <1>3 DEF AtClear
<1>4. CASE ip = n + 2 /\ eax = Zero
  <2>1. ip + 1 = n + 3 /\ ip \in Nat
    BY <1>4
  <2>2. AtAdd(n)
    BY <1>1, <1>4, <2>1 DEF AtAdd
  <2> QED
    BY <2>1, <2>2
<1>5. CASE ip = n + 7 /\ eax = mask
  <2>1. ip + 1 = n + 8 /\ ip \in Nat
    BY <1>5
  <2>2. AtXor(n, mask)
    BY <1>1, <1>5, <2>1 DEF AtXor
  <2> QED
    BY <2>1, <2>2
<1>6. CASE ip = n + 12 /\ eax = logic_payload
  <2>1. ip + 1 = n + 13 /\ ip \in Nat
    BY <1>6
  <2>2. AtRet(n)
    BY <1>1, <1>6, <2>1 DEF AtRet
  <2> QED
    BY <2>1, <2>2
<1>7. ip \in B => ip \in Nat /\ (ip < n \/ ip = n)
  OBVIOUS
<1> QED
  BY <1>2, <1>3, <1>4, <1>5, <1>6, <1>7 DEF Reached

\* The bytes after the opcode at ip are those of w.
Operand(w) == \A k \in 1..4 : arena[ip + 1 + k] = Bytes(w)[k]

LEMMA OperandLoaded ==
  ASSUME ip \in Nat, NEW w \in Word, Operand(w)
  PROVE  Imm32 = w
<1>0. \A k \in 1..4 : arena[ip + 1 + k] = Bytes(w)[k]
  BY DEF Operand
<1>1. FromBytes([k \in 1..4 |-> arena[ip + 1 + k]])
      = <<arena[ip + 1 + 3] + 256 * arena[ip + 1 + 4],
          arena[ip + 1 + 1] + 256 * arena[ip + 1 + 2]>>
  BY DEF FromBytes
<1>2. FromBytes(Bytes(w)) = <<Bytes(w)[3] + 256 * Bytes(w)[4],
                              Bytes(w)[1] + 256 * Bytes(w)[2]>>
  BY DEF FromBytes
<1>3. Imm32 = FromBytes(Bytes(w))
  BY <1>0, <1>1, <1>2 DEF Imm32
<1> QED
  BY <1>3, StoreLoad

JunkFirst == {\h90, \hFC, \hF8, \h87}

\* The instruction that the processor executes is told by its first byte.
LEMMA StepKinds ==
  ASSUME ip \in Nat, Step
  PROVE  \/ arena[ip + 1] \in JunkFirst
            /\ \A r \in 1..4 : arena[ip + 1] = Junk[r][1]
                                 => ip' = ip + Len(Junk[r])
         \/ arena[ip + 1] = \h31 /\ ip' = ip + 2 /\ eax' = Zero
         \/ arena[ip + 1] = \h05 /\ ip' = ip + 5 /\ eax' = Add(eax, Imm32)
         \/ arena[ip + 1] = \h35 /\ ip' = ip + 5 /\ eax' = Xor(eax, Imm32)
<1>1. CASE ExecJunk
  <2>1. PICK q \in 1..4 : AtIp(Junk[q]) /\ Execute(Len(Junk[q]), eax)
    BY <1>1 DEF ExecJunk
  <2>2. arena[ip + 1] = Junk[q][1] /\ ip' = ip + Len(Junk[q])
    BY <2>1, FirstByte DEF Execute
  <2>3. arena[ip + 1] \in JunkFirst
    BY <2>2, JunkBytes DEF JunkFirst
  <2>4. ASSUME NEW r \in 1..4, arena[ip + 1] = Junk[r][1]
        PROVE  ip' = ip + Len(Junk[r])
    <3>1. Len(Junk[r]) = Len(Junk[q])
      BY <2>2, <2>4, JunkSame
    <3> QED
      BY <2>2, <3>1
  <2> QED
    BY <2>3, <2>4
<1>2. CASE ExecClear
  <2>1. AtIp(<<\h31, \hC0>>) /\ ip' = ip + 2 /\ eax' = Zero
    BY <1>2 DEF ExecClear, Execute
  <2> QED
    BY <2>1, FirstByte
<1>3. CASE ExecAdd
  <2>1. AtIp(<<\h05>>) /\ ip' = ip + 5 /\ eax' = Add(eax, Imm32)
    BY <1>3 DEF ExecAdd, Execute
  <2> QED
    BY <2>1, FirstByte
<1>4. CASE ExecXor
  <2>1. AtIp(<<\h35>>) /\ ip' = ip + 5 /\ eax' = Xor(eax, Imm32)
    BY <1>4 DEF ExecXor, Execute
  <2> QED
    BY <2>1, FirstByte
<1> QED
  BY <1>1, <1>2, <1>3, <1>4 DEF Step

LEMMA StepReached ==
  ASSUME NEW n \in Nat, NEW B \in SUBSET (0..n), NEW mask \in Words,
         Variant(arena, n, B, mask), Reached(n, B, mask), Step
  PROVE  Reached(n, B, mask)'
<1>0. ip \in Nat /\ mask \in Word
  BY Meets, WordsAreWords
<1>1. \A k \in 1..13 : arena[n + k] = Logic(mask)[k]
  BY LogicLength DEF Variant, Holds
<1>2. /\ \A k \in 1..4 : Logic(mask)[3 + k] = Bytes(mask)[k]
      /\ \A k \in 1..4 : Logic(mask)[8 + k] = Bytes(Xor(logic_payload, mask))[k]
  BY <1>0, LogicBytes
<1>3. CASE AtJunk(B)
  <2>1. PICK r \in 1..4 : arena[ip + 1] = Junk[r][1] /\ ip + Len(Junk[r]) \in B
    BY <1>3 DEF AtJunk
  <2>2. arena[ip + 1] \in JunkFirst
    BY <2>1, JunkBytes DEF JunkFirst
  <2>3. arena[ip + 1] # \h31 /\ arena[ip + 1] # \h05 /\ arena[ip + 1] # \h35
    BY <2>2 DEF JunkFirst
  <2>4. ip' = ip + Len(Junk[r])
    BY <1>0, <2>1, <2>3, StepKinds
  <2> QED
    BY <2>1, <2>4 DEF Reached
<1>4. CASE AtClear(n)
  <2>1. ip = n /\ arena[ip + 1] = \h31 /\ arena[ip + 1] \notin JunkFirst
    BY <1>4 DEF AtClear, JunkFirst
  <2>2. ip' = n + 2 /\ eax' = Zero
    <3>1. arena[ip + 1] # \h05 /\ arena[ip + 1] # \h35
      BY <2>1
    <3> QED
      BY <1>0, <2>1, <3>1, StepKinds
  <2> QED
    BY <2>2 DEF Reached
<1>5. CASE AtAdd(n)
  <2>1. /\ ip = n + 2 /\ eax = Zero
        /\ arena[ip + 1] = \h05 /\ arena[ip + 1] \notin JunkFirst
    BY <1>5 DEF AtAdd, JunkFirst
  <2>2. ip' = ip + 5 /\ eax' = Add(Zero, Imm32)
    <3>1. arena[ip + 1] # \h31 /\ arena[ip + 1] # \h35
      BY <2>1
    <3>2. ip' = ip + 5 /\ eax' = Add(eax, Imm32)
      BY <1>0, <2>1, <3>1, StepKinds
    <3> QED
      BY <2>1, <3>2
  <2>3. ASSUME NEW k \in 1..4 PROVE arena[ip + 1 + k] = Bytes(mask)[k]
    <3>1. 3 + k \in 1..13 /\ ip + 1 + k = n + (3 + k)
      BY <2>1
    <3> QED
      BY <1>1, <1>2, <3>1
  <2>4. eax' = mask
    <3>1. Operand(mask)
      BY <2>3 DEF Operand
    <3>2. Imm32 = mask
      BY <1>0, <3>1, OperandLoaded
    <3> QED
      BY <1>0, <2>2, <3>2, AddZero
  <2>5. ip' = n + 7
    BY <2>1, <2>2
  <2> QED
    BY <2>4, <2>5 DEF Reached
<1>6. CASE AtXor(n, mask)
  <2>1. /\ ip = n + 7 /\ eax = mask
        /\ arena[ip + 1] = \h35 /\ arena[ip + 1] \notin JunkFirst
    BY <1>6 DEF AtXor, JunkFirst
  <2>2. ip' = ip + 5 /\ eax' = Xor(mask, Imm32)
    <3>1. arena[ip + 1] # \h31 /\ arena[ip + 1] # \h05
      BY <2>1
    <3>2. ip' = ip + 5 /\ eax' = Xor(eax, Imm32)
      BY <1>0, <2>1, <3>1, StepKinds
    <3> QED
      BY <2>1, <3>2
  <2>3. ASSUME NEW k \in 1..4
        PROVE  arena[ip + 1 + k] = Bytes(Xor(logic_payload, mask))[k]
    <3>1. 8 + k \in 1..13 /\ ip + 1 + k = n + (8 + k)
      BY <2>1
    <3> QED
      BY <1>1, <1>2, <3>1
  <2>4. /\ Xor(logic_payload, mask) \in Word
        /\ Xor(mask, Xor(logic_payload, mask)) = logic_payload
    BY <1>0, Unmask, PayloadWord
  <2>5. Imm32 = Xor(logic_payload, mask)
    <3>1. Operand(Xor(logic_payload, mask))
      BY <2>3 DEF Operand
    <3> QED
      BY <1>0, <2>4, <3>1, OperandLoaded
  <2>6. ip' = n + 12 /\ eax' = logic_payload
    BY <2>1, <2>2, <2>4, <2>5
  <2> QED
    BY <2>6 DEF Reached
<1>7. ~AtRet(n)
  <2>1. ASSUME arena[ip + 1] = \hC3 PROVE FALSE
    <3>1. /\ arena[ip + 1] \notin JunkFirst /\ arena[ip + 1] # \h31
          /\ arena[ip + 1] # \h05 /\ arena[ip + 1] # \h35
      BY <2>1 DEF JunkFirst
    <3> QED
      BY <1>0, <3>1, StepKinds
  <2> QED
    BY <2>1 DEF AtRet
<1> QED
  BY <1>3, <1>4, <1>5, <1>6, <1>7, Meets

Handing == {"copy", "inject", "call", "run"}

LEMMA NextLayout == SizeInv /\ LayoutInv /\ [Next]_vars => LayoutInv'
<1> SUFFICES ASSUME SizeInv, LayoutInv, [Next]_vars PROVE LayoutInv'
  OBVIOUS
<1>0. cursor \in Nat /\ left \in Nat
  BY DEF SizeInv
<1>1. CASE Request
  BY <1>1 DEF Request, LayoutInv
<1>2. CASE DrawLength
  <2>1. pc' = "emit" /\ cursor' = 0
    BY <1>2 DEF DrawLength, SizeInv
  <2>2. {0} \in SUBSET (0..0) /\ Parsed(guest_ram', 0, {0})
    BY DEF Parsed
  <2>3. \E B \in SUBSET (0..cursor') : Parsed(guest_ram', cursor', B)
    BY <2>1, <2>2
  <2> QED
    BY <2>1, <2>3 DEF LayoutInv
<1>3. CASE EmitJunk
  <2>1. /\ pc = "emit" /\ pc' = "emit" /\ left > 0
        /\ \E r \in 0..3 : Emit(Junk[r + 1])
    BY <1>3 DEF EmitJunk
  <2>2. PICK r \in 1..4 : Emit(Junk[r])
    <3>1. PICK q \in 0..3 : Emit(Junk[q + 1])
      BY <2>1
    <3>2. q + 1 \in 1..4
      OBVIOUS
    <3> QED
      BY <3>1, <3>2
  <2>3. PICK B \in SUBSET (0..cursor) : Parsed(guest_ram, cursor, B)
    BY <2>1 DEF LayoutInv
  <2>4. Len(Junk[r]) \in Nat /\ Len(Junk[r]) <= 2
    <3>1. Len(Junk[r]) = 1 \/ Len(Junk[r]) = 2
      BY JunkBytes
    <3>2. PICK d \in {1, 2} : Len(Junk[r]) = d
      BY <3>1
    <3>3. d \in Nat /\ d <= 2
      OBVIOUS
    <3> QED
      BY <3>2, <3>3
  <2>5. cursor + Len(Junk[r]) <= PageSize
    <3>1. cursor + 2 * left <= 2 * MaxJunk
      BY <2>1 DEF SizeInv
    <3> QED
      BY <1>0, <2>1, <2>4, <3>1, PageBound, Constants
  <2>6. /\ \A k \in 1..cursor : guest_ram'[k] = guest_ram[k]
        /\ Holds(guest_ram', cursor, Junk[r])
        /\ cursor' = cursor + Len(Junk[r])
    BY <1>0, <2>2, <2>4, <2>5, EmitHolds
  <2>7. Parsed(guest_ram', cursor, B)
    BY <1>0, <2>3, <2>6, ParsedFrame
  <2>8. \E C \in SUBSET (0..cursor') : Parsed(guest_ram', cursor', C)
    BY <1>0, <2>6, <2>7, ParsedMore
  <2> QED
    BY <2>1, <2>8 DEF LayoutInv
<1>4. CASE EmitLogic
  <2>1. /\ pc = "emit" /\ pc' = "copy"
        /\ \E mask \in Words : Emit(Logic(mask))
    BY <1>4 DEF EmitLogic
  <2>2. PICK mask \in Words : Emit(Logic(mask))
    BY <2>1
  <2>3. PICK B \in SUBSET (0..cursor) : Parsed(guest_ram, cursor, B)
    BY <2>1 DEF LayoutInv
  <2>4. Len(Logic(mask)) = 13 /\ Len(Logic(mask)) \in Nat
    BY LogicLength
  <2>5. cursor + Len(Logic(mask)) <= PageSize
    <3>1. cursor + 2 * left <= 2 * MaxJunk
      BY <2>1 DEF SizeInv
    <3> QED
      BY <1>0, <2>4, <3>1, PageBound, Constants
  <2>6. /\ \A k \in 1..cursor : guest_ram'[k] = guest_ram[k]
        /\ Holds(guest_ram', cursor, Logic(mask))
        /\ cursor' = cursor + Len(Logic(mask))
    BY <1>0, <2>2, <2>4, <2>5, EmitHolds
  <2>7. Parsed(guest_ram', cursor, B)
    BY <1>0, <2>3, <2>6, ParsedFrame
  <2>8. cursor' - 13 = cursor
    BY <1>0, <2>4, <2>6
  <2>9. /\ B \in SUBSET (0..(cursor' - 13))
        /\ LaidOut(cursor - 13, B, mask)'
    <3>1. Variant(guest_ram', cursor, B, mask)
      BY <2>6, <2>7 DEF Variant
    <3>2. Variant(guest_ram', cursor' - 13, B, mask)
      BY <2>8, <3>1
    <3> QED
      BY <2>1, <2>8, <3>2 DEF LaidOut
  <2>10. (\E C \in SUBSET (0..(cursor - 13)), m \in Words :
            LaidOut(cursor - 13, C, m))'
    BY <2>9
  <2> QED
    BY <2>1, <2>10 DEF LayoutInv
<1>5. ASSUME pc \in Handing, pc' # "run",
             UNCHANGED <<guest_ram, cursor>>
      PROVE  (\E B \in SUBSET (0..(cursor - 13)), mask \in Words :
                LaidOut(cursor - 13, B, mask))'
  <2>1. PICK B \in SUBSET (0..(cursor - 13)), mask \in Words :
               LaidOut(cursor - 13, B, mask)
    BY <1>5 DEF LayoutInv, Handing
  <2>2. LaidOut(cursor - 13, B, mask)'
    BY <1>5, <2>1 DEF LaidOut
  <2> QED
    BY <1>5, <2>1, <2>2
<1>6. CASE CopyToRepository
  <2>1. /\ pc = "copy" /\ pc' = "inject"
        /\ UNCHANGED <<guest_ram, cursor>>
    BY <1>6 DEF CopyToRepository
  <2> QED
    BY <1>5, <2>1 DEF LayoutInv, Handing
<1>7. CASE Inject
  <2>1. /\ pc = "inject" /\ pc' = "call" /\ arena' = guest_ram
        /\ UNCHANGED <<guest_ram, cursor>>
    BY <1>7 DEF Inject, genVars
  <2> QED
    BY <1>5, <2>1 DEF LayoutInv, Handing
<1>8. CASE CallArena
  <2>1. /\ pc = "call" /\ pc' = "run" /\ ip' = 0
        /\ UNCHANGED <<guest_ram, cursor, arena>>
    BY <1>8 DEF CallArena, genVars
  <2>2. PICK B \in SUBSET (0..(cursor - 13)), mask \in Words :
               LaidOut(cursor - 13, B, mask)
    BY <2>1 DEF LayoutInv
  <2>3. 0 \in B
    BY <2>2 DEF LaidOut, Variant, Parsed
  <2>4. Reached(cursor - 13, B, mask)'
    BY <2>1, <2>3 DEF Reached
  <2>5. LaidOut(cursor - 13, B, mask)'
    BY <2>1, <2>2, <2>4 DEF LaidOut
  <2>6. (\E C \in SUBSET (0..(cursor - 13)), m \in Words :
           LaidOut(cursor - 13, C, m))'
    BY <2>1, <2>2, <2>5
  <2>7. arena' = guest_ram'
    BY <2>1 DEF LayoutInv
  <2> QED
    BY <2>1, <2>6, <2>7 DEF LayoutInv
<1>9. CASE Step
  <2>1. /\ pc = "run" /\ pc' = "run"
        /\ UNCHANGED <<guest_ram, cursor, arena>>
    BY <1>9 DEF Step, ExecJunk, ExecClear, ExecAdd, ExecXor, Execute, genVars
  <2>2. PICK B \in SUBSET (0..(cursor - 13)), mask \in Words :
               LaidOut(cursor - 13, B, mask)
    BY <2>1 DEF LayoutInv
  <2>3. PICK n \in Nat : n = cursor - 13
    BY <1>0, <2>1, Constants DEF SizeInv, SizeInBounds, total_size, MinSize
  <2>4. /\ Variant(arena, n, B, mask)
        /\ Reached(n, B, mask)
    BY <2>1, <2>2, <2>3 DEF LaidOut, LayoutInv
  <2>5. Reached(n, B, mask)'
    BY <1>9, <2>2, <2>3, <2>4, StepReached
  <2>6. LaidOut(cursor - 13, B, mask)'
    BY <2>1, <2>2, <2>3, <2>5 DEF LaidOut, Reached
  <2>7. (\E C \in SUBSET (0..(cursor - 13)), m \in Words :
           LaidOut(cursor - 13, C, m))'
    BY <2>1, <2>2, <2>6
  <2>8. arena' = guest_ram'
    BY <2>1 DEF LayoutInv
  <2> QED
    BY <2>1, <2>7, <2>8 DEF LayoutInv
<1>10. CASE Return
  BY <1>10 DEF Return, LayoutInv
<1>11. CASE UNCHANGED vars
  <2>1. UNCHANGED <<pc, guest_ram, cursor, arena, ip, eax>>
    BY <1>11 DEF vars, genVars, cpuVars
  <2> QED
    BY <2>1 DEF LayoutInv, LaidOut, Reached
<1> QED
  BY <1>1, <1>2, <1>3, <1>4, <1>6, <1>7, <1>8, <1>9, <1>10, <1>11 DEF Next

LEMMA InitLayout == Init => LayoutInv
BY DEF Init, LayoutInv

\* The layout of the variant that the Worker runs.
LEMMA Running ==
  ASSUME SizeInv, LayoutInv, pc = "run"
  PROVE  \E n \in Nat : \E B \in SUBSET (0..n), mask \in Words :
           /\ cursor = n + 13
           /\ Variant(arena, n, B, mask)
           /\ Reached(n, B, mask)
<1>1. PICK B \in SUBSET (0..(cursor - 13)), mask \in Words :
             LaidOut(cursor - 13, B, mask)
  BY DEF LayoutInv
<1>2. PICK n \in Nat : n = cursor - 13 /\ cursor = n + 13
  BY Constants DEF SizeInv, SizeInBounds, total_size, MinSize
<1>3. Variant(arena, n, B, mask) /\ Reached(n, B, mask)
  BY <1>1, <1>2 DEF LaidOut, LayoutInv
<1> QED
  BY <1>1, <1>2, <1>3

LEMMA PayloadAtReturn == SizeInv /\ LayoutInv => ReturnsPayload
<1> SUFFICES ASSUME SizeInv, LayoutInv, pc = "run", AtIp(<<\hC3>>)
             PROVE  eax = logic_payload /\ ip + 1 = cursor
  BY DEF ReturnsPayload, total_size
<1>0. PICK n \in Nat : \E B \in SUBSET (0..n), mask \in Words :
             /\ cursor = n + 13
             /\ Variant(arena, n, B, mask)
             /\ Reached(n, B, mask)
  BY Running
<1>1. PICK B \in SUBSET (0..n), mask \in Words :
             /\ cursor = n + 13
             /\ Variant(arena, n, B, mask)
             /\ Reached(n, B, mask)
  BY <1>0
<1>2. /\ ip \in Nat
      /\ AtJunk(B) \/ AtClear(n) \/ AtAdd(n) \/ AtXor(n, mask) \/ AtRet(n)
  BY <1>1, Meets
<1>3. arena[ip + 1] = \hC3
  BY <1>2, FirstByte
<1>4. ~AtJunk(B)
  <2>1. ASSUME NEW r \in 1..4 PROVE Junk[r][1] # \hC3
    BY JunkBytes
  <2> QED
    BY <1>3, <2>1 DEF AtJunk
<1>5. ~AtClear(n) /\ ~AtAdd(n) /\ ~AtXor(n, mask)
  BY <1>3 DEF AtClear, AtAdd, AtXor
<1>6. ip = n + 12 /\ eax = logic_payload
  BY <1>2, <1>4, <1>5 DEF AtRet
<1> QED
  BY <1>1, <1>6

\* The length of the instruction that starts with byte o.
LEMMA OpLengths ==
  /\ arena[ip + 1] \in {\h90, \hFC, \hF8, \hC3} => OpLength = 1
  /\ arena[ip + 1] \in {\h31, \h87} => OpLength = 2
  /\ arena[ip + 1] \in {\h05, \h35} => OpLength = 5
BY DEF OpLength

LEMMA StaysInside == SizeInv /\ LayoutInv => StaysInVariant
<1> SUFFICES ASSUME SizeInv, LayoutInv, pc = "run"
             PROVE  OpLength > 0 /\ ip + OpLength <= cursor
  BY DEF StaysInVariant, total_size
<1>0. PICK n \in Nat : \E B \in SUBSET (0..n), mask \in Words :
             /\ cursor = n + 13
             /\ Variant(arena, n, B, mask)
             /\ Reached(n, B, mask)
  BY Running
<1>1. PICK B \in SUBSET (0..n), mask \in Words :
             /\ cursor = n + 13
             /\ Variant(arena, n, B, mask)
             /\ Reached(n, B, mask)
  BY <1>0
<1>2. /\ ip \in Nat
      /\ AtJunk(B) \/ AtClear(n) \/ AtAdd(n) \/ AtXor(n, mask) \/ AtRet(n)
  BY <1>1, Meets
<1>3. CASE AtJunk(B)
  <2>1. PICK r \in 1..4 : arena[ip + 1] = Junk[r][1] /\ ip + Len(Junk[r]) \in B
    BY <1>3 DEF AtJunk
  <2>2. \/ Len(Junk[r]) = 1 /\ arena[ip + 1] \in {\h90, \hFC, \hF8}
        \/ Len(Junk[r]) = 2 /\ arena[ip + 1] = \h87
    BY <2>1, JunkBytes
  <2>3. PICK d \in {1, 2} : OpLength = d /\ Len(Junk[r]) = d
    BY <2>2, OpLengths
  <2>4. ip + d \in 0..n
    BY <2>1, <2>3
  <2>5. d > 0 /\ ip + d <= n + 13
    BY <1>2, <2>4
  <2> QED
    BY <1>1, <2>3, <2>5
<1>4. CASE AtClear(n)
  <2>1. ip = n /\ OpLength = 2
    BY <1>4, OpLengths DEF AtClear
  <2> QED
    BY <1>1, <2>1
<1>5. CASE AtAdd(n)
  <2>1. ip = n + 2 /\ OpLength = 5
    BY <1>5, OpLengths DEF AtAdd
  <2> QED
    BY <1>1, <2>1
<1>6. CASE AtXor(n, mask)
  <2>1. ip = n + 7 /\ OpLength = 5
    BY <1>6, OpLengths DEF AtXor
  <2> QED
    BY <1>1, <2>1
<1>7. CASE AtRet(n)
  <2>1. ip = n + 12 /\ OpLength = 1
    BY <1>7, OpLengths DEF AtRet
  <2> QED
    BY <1>1, <2>1
<1> QED
  BY <1>2, <1>3, <1>4, <1>5, <1>6, <1>7

\* The variant returns the payload, from its last byte, for all words as masks
\* and as eax at the call, every amount of junk and every page: the mask comes
\* off whatever it is, and a byte of it is never taken for an instruction.
THEOREM PayloadCorrect == Spec => []ReturnsPayload
<1> QED
  BY InitSize, NextSize, InitLayout, NextLayout, PayloadAtReturn, PTL DEF Spec

\* The processor decodes the instructions that were emitted and no others.
THEOREM DecodingCorrect == Spec => []StaysInVariant
<1> QED
  BY InitSize, NextSize, InitLayout, NextLayout, StaysInside, PTL DEF Spec
==============================================================================

----------------------------- MODULE HmacProofs -----------------------------
(* Proofs about Hmac, for every size of block, length field and digest, every *)
(* key, and data of every length.                                             *)
EXTENDS Hmac, TLAPS

LEMMA Sizes ==
  /\ BlockSize \in Nat /\ LengthSize \in Nat /\ HashSize \in Nat
  /\ 0 < LengthSize /\ LengthSize < BlockSize
  /\ Room \in Nat /\ 0 < Room /\ Room < BlockSize
  /\ Room + LengthSize = BlockSize
BY HmacAssumption DEF HmacAssumption, Room
------------------------------------------------------------------------------
(* Sequences as functions.                                                    *)

IsSeq(f, n) == n \in Nat /\ f = [k \in 1..n |-> f[k]]

LEMMA SeqLen ==
  ASSUME NEW f, NEW n, IsSeq(f, n)
  PROVE  n \in Nat /\ Len(f) = n /\ \E S : f \in Seq(S)
<1> DEFINE S == {f[k] : k \in 1..n}
<1>1. n \in Nat /\ f = [k \in 1..n |-> f[k]]
  BY DEF IsSeq
<1>2. f \in [1..n -> S]
  BY <1>1
<1> HIDE DEF S
<1>3. f \in Seq(S) /\ Len(f) = n
  BY <1>1, <1>2
<1> QED
  BY <1>1, <1>3

LEMMA SeqFrom ==
  ASSUME NEW S, NEW f \in Seq(S)
  PROVE  IsSeq(f, Len(f))
BY DEF IsSeq

\* h is f, of m elements, then g, of n.
Joins(f, m, g, n, h) ==
  /\ IsSeq(h, m + n)
  /\ \A k \in 1..m : h[k] = f[k]
  /\ \A k \in 1..n : h[m + k] = g[k]

LEMMA SeqCat ==
  ASSUME NEW f, NEW m, NEW g, NEW n, IsSeq(f, m), IsSeq(g, n)
  PROVE  Joins(f, m, g, n, f \o g)
<1> DEFINE S == {f[k] : k \in 1..m} \cup {g[k] : k \in 1..n}
<1>1. /\ m \in Nat /\ f = [k \in 1..m |-> f[k]]
      /\ n \in Nat /\ g = [k \in 1..n |-> g[k]]
  BY DEF IsSeq
<1>2. f \in [1..m -> S] /\ g \in [1..n -> S]
  BY <1>1
<1> HIDE DEF S
<1>3. f \in Seq(S) /\ Len(f) = m /\ g \in Seq(S) /\ Len(g) = n
  BY <1>1, <1>2
<1>4. /\ f \o g \in Seq(S) /\ Len(f \o g) = m + n
      /\ \A k \in 1..m : (f \o g)[k] = f[k]
      /\ \A k \in 1..n : (f \o g)[m + k] = g[k]
  BY <1>1, <1>3
<1>5. IsSeq(f \o g, m + n)
  BY <1>1, <1>4 DEF IsSeq
<1> QED
  BY <1>4, <1>5 DEF Joins

\* g is f, of n elements, then x.
Extends(f, n, x, g) ==
  IsSeq(g, n + 1) /\ (\A k \in 1..n : g[k] = f[k]) /\ g[n + 1] = x

LEMMA SeqAppend ==
  ASSUME NEW f, NEW n, NEW x, IsSeq(f, n)
  PROVE  Extends(f, n, x, Append(f, x))
<1> DEFINE S == {f[k] : k \in 1..n} \cup {x}
<1>1. n \in Nat /\ f = [k \in 1..n |-> f[k]]
  BY DEF IsSeq
<1>2. f \in [1..n -> S] /\ x \in S
  BY <1>1
<1> HIDE DEF S
<1>3. f \in Seq(S) /\ Len(f) = n
  BY <1>1, <1>2
<1>4. /\ Append(f, x) \in Seq(S) /\ Len(Append(f, x)) = n + 1
      /\ \A k \in 1..n : Append(f, x)[k] = f[k]
      /\ Append(f, x)[n + 1] = x
  BY <1>1, <1>2, <1>3
<1>5. IsSeq(Append(f, x), n + 1)
  BY <1>1, <1>4 DEF IsSeq
<1> QED
  BY <1>4, <1>5 DEF Extends

LEMMA SeqTail ==
  ASSUME NEW f, NEW n, IsSeq(f, n), f # <<>>
  PROVE  /\ n > 0 /\ Head(f) = f[1]
         /\ IsSeq(Tail(f), n - 1)
         /\ \A k \in 1..(n - 1) : Tail(f)[k] = f[k + 1]
<1> DEFINE S == {f[k] : k \in 1..n}
<1>1. n \in Nat /\ f = [k \in 1..n |-> f[k]]
  BY DEF IsSeq
<1>2. f \in [1..n -> S]
  BY <1>1
<1> HIDE DEF S
<1>3. f \in Seq(S) /\ Len(f) = n
  BY <1>1, <1>2
<1>4. n > 0
  BY <1>1, <1>3
<1>5. /\ Tail(f) \in Seq(S) /\ Len(Tail(f)) = n - 1 /\ Head(f) = f[1]
      /\ \A k \in 1..(n - 1) : Tail(f)[k] = f[k + 1]
  BY <1>3, <1>4
<1>6. IsSeq(Tail(f), n - 1)
  BY <1>1, <1>4, <1>5 DEF IsSeq
<1> QED
  BY <1>4, <1>5, <1>6

LEMMA SeqEmpty == IsSeq(<<>>, 0) /\ Len(<<>>) = 0
BY DEF IsSeq

\* Sequences with the same elements are the same.
LEMMA SeqSame ==
  ASSUME NEW f, NEW g, NEW n, IsSeq(f, n), IsSeq(g, n),
         \A k \in 1..n : f[k] = g[k]
  PROVE  f = g
BY DEF IsSeq
------------------------------------------------------------------------------
(* Contexts.                                                                  *)

Ctx(d, l, b, s) == [data |-> d, datalen |-> l, bitlen |-> b, state |-> s]

IsCtx(c) ==
  /\ c = Ctx(c.data, c.datalen, c.bitlen, c.state)
  /\ IsSeq(c.data, BlockSize)

LEMMA CtxFields ==
  ASSUME NEW d, NEW l, NEW b, NEW s
  PROVE  /\ Ctx(d, l, b, s).data = d /\ Ctx(d, l, b, s).datalen = l
         /\ Ctx(d, l, b, s).bitlen = b /\ Ctx(d, l, b, s).state = s
BY DEF Ctx

\* Assignments to a field.
SetData(c, x)    == [c EXCEPT !.data = x]
SetDatalen(c, x) == [c EXCEPT !.datalen = x]
SetBitlen(c, x)  == [c EXCEPT !.bitlen = x]
SetState(c, x)   == [c EXCEPT !.state = x]

LEMMA CtxSet ==
  ASSUME NEW d, NEW l, NEW b, NEW s, NEW x
  PROVE  /\ SetData(Ctx(d, l, b, s), x) = Ctx(x, l, b, s)
         /\ SetDatalen(Ctx(d, l, b, s), x) = Ctx(d, x, b, s)
         /\ SetBitlen(Ctx(d, l, b, s), x) = Ctx(d, l, x, s)
         /\ SetState(Ctx(d, l, b, s), x) = Ctx(d, l, b, x)
<1>1. SetData(Ctx(d, l, b, s), x) = Ctx(x, l, b, s)
  BY DEF Ctx, SetData
<1>2. SetDatalen(Ctx(d, l, b, s), x) = Ctx(d, x, b, s)
  BY DEF Ctx, SetDatalen
<1>3. SetBitlen(Ctx(d, l, b, s), x) = Ctx(d, l, x, s)
  BY DEF Ctx, SetBitlen
<1>4. SetState(Ctx(d, l, b, s), x) = Ctx(d, l, b, x)
  BY DEF Ctx, SetState
<1> QED
  BY <1>1, <1>2, <1>3, <1>4

LEMMA CtxIs ==
  ASSUME NEW c, NEW d, NEW l, NEW b, NEW s, c = Ctx(d, l, b, s), IsSeq(d, BlockSize)
  PROVE  IsCtx(c)
BY CtxFields DEF IsCtx

LEMMA GarbageCtx == \A c \in Garbage : IsCtx(c)
<1> TAKE c \in Garbage
<1>1. c = [data    |-> [k \in 1..BlockSize |-> c.data[k]],
           datalen |-> c.datalen, bitlen |-> c.bitlen, state |-> c.state]
  BY HmacAssumption DEF HmacAssumption
<1>2. c.data = [k \in 1..BlockSize |-> c.data[k]]
  BY <1>1
<1>3. IsSeq(c.data, BlockSize)
  BY <1>2, Sizes DEF IsSeq
<1> QED
  BY <1>1, <1>2, <1>3 DEF IsCtx, Ctx

LEMMA InitCtx ==
  ASSUME NEW c, IsCtx(c)
  PROVE  sha256_init(c) = Ctx(c.data, 0, 0, <<>>)
<1> DEFINE d == c.data
<1>1. PICK l, b, s : c = Ctx(d, l, b, s)
  BY DEF IsCtx
<1> HIDE DEF d
<1>2. sha256_init(c) =
        SetState(SetBitlen(SetDatalen(Ctx(d, l, b, s), 0), 0), <<>>)
  BY <1>1 DEF sha256_init, SetState, SetBitlen, SetDatalen
<1>3. sha256_init(c) = Ctx(d, 0, 0, <<>>)
  BY <1>2, CtxSet
<1> QED
  BY <1>3 DEF d

LEMMA TransformCtx ==
  ASSUME NEW d, NEW l, NEW b, NEW s
  PROVE  sha256_transform(Ctx(d, l, b, s)) = Ctx(d, l, b, Append(s, d))
BY DEF sha256_transform, Ctx

\* The buffer d with the byte x stored after the first l.
Stored(d, l, x) == [d EXCEPT ![l + 1] = x]

LEMMA StoredSeq ==
  ASSUME NEW d, NEW l \in 0..(BlockSize - 1), NEW x, IsSeq(d, BlockSize)
  PROVE  /\ IsSeq(Stored(d, l, x), BlockSize)
         /\ \A k \in 1..l : Stored(d, l, x)[k] = d[k]
         /\ Stored(d, l, x)[l + 1] = x
<1>1. d = [k \in 1..BlockSize |-> d[k]] /\ BlockSize \in Nat
  BY DEF IsSeq
<1>2. Stored(d, l, x) = [k \in 1..BlockSize |-> IF k = l + 1 THEN x ELSE d[k]]
  BY <1>1 DEF Stored
<1>3. l \in Nat /\ l + 1 \in 1..BlockSize /\ \A k \in 1..l : k \in 1..BlockSize /\ k # l + 1
  BY <1>1
<1> QED
  BY <1>1, <1>2, <1>3 DEF IsSeq

Store(c, i, x) == [c EXCEPT !.data[i + 1] = x]

LEMMA StoreCtx ==
  ASSUME NEW d, NEW l, NEW b, NEW s, NEW x, NEW i
  PROVE  Store(Ctx(d, l, b, s), i, x) = Ctx(Stored(d, i, x), l, b, s)
BY DEF Ctx, Store, Stored

\* The buffer d with zeros at from + 1 to to, and with the length n at its end.
Cleared(d, from, to) ==
  [k \in 1..BlockSize |-> IF k \in (from + 1)..to THEN Plain(0) ELSE d[k]]
WithLength(d, n) ==
  [k \in 1..BlockSize |-> IF k <= Room THEN d[k] ELSE ByteOf(n, BlockSize - k)]

LEMMA ClearCtx ==
  ASSUME NEW d, NEW l, NEW b, NEW s, NEW from, NEW to
  PROVE  Clear(Ctx(d, l, b, s), from, to) = Ctx(Cleared(d, from, to), l, b, s)
<1> DEFINE c == Ctx(d, l, b, s)
           e == [k \in 1..BlockSize |-> IF k \in (from + 1)..to THEN Plain(0)
                                        ELSE c.data[k]]
<1>1. c.data = d
  BY CtxFields
<1>2. SetData(c, e) = Ctx(e, l, b, s)
  BY CtxSet
<1> HIDE DEF c
<1>3. Clear(c, from, to) = SetData(c, e)
  BY DEF Clear, SetData
<1>4. e = Cleared(d, from, to)
  BY <1>1 DEF Cleared
<1> QED
  BY <1>2, <1>3, <1>4 DEF c

LEMMA PutLengthCtx ==
  ASSUME NEW d, NEW l, NEW b, NEW s, NEW n
  PROVE  PutLength(Ctx(d, l, b, s), n) = Ctx(WithLength(d, n), l, b, s)
<1> DEFINE c == Ctx(d, l, b, s)
           e == [k \in 1..BlockSize |-> IF k <= Room THEN c.data[k]
                                        ELSE ByteOf(n, BlockSize - k)]
<1>1. c.data = d
  BY CtxFields
<1>2. SetData(c, e) = Ctx(e, l, b, s)
  BY CtxSet
<1> HIDE DEF c
<1>3. PutLength(c, n) = SetData(c, e)
  BY DEF PutLength, SetData
<1>4. e = WithLength(d, n)
  BY <1>1 DEF WithLength
<1> QED
  BY <1>2, <1>3, <1>4 DEF c

\* One turn of the loop of sha256_update.
LEMMA UpdateCtx ==
  ASSUME NEW c, NEW x, IsCtx(c), c.datalen \in 0..(BlockSize - 1)
  PROVE  UpdateByte(c, x) =
           LET d == Stored(c.data, c.datalen, x)
           IN  IF c.datalen + 1 = BlockSize
               THEN Ctx(d, 0, c.bitlen + 8 * BlockSize, Append(c.state, d))
               ELSE Ctx(d, c.datalen + 1, c.bitlen, c.state)
<1> DEFINE d == Stored(c.data, c.datalen, x)
           e == SetDatalen(Store(c, c.datalen, x), c.datalen + 1)
<1>1. c = Ctx(c.data, c.datalen, c.bitlen, c.state)
  BY DEF IsCtx
<1>2. Store(c, c.datalen, x) = Ctx(d, c.datalen, c.bitlen, c.state)
  BY <1>1, StoreCtx
<1>3. UpdateByte(c, x) =
        IF e.datalen = BlockSize
        THEN SetDatalen(SetBitlen(sha256_transform(e),
                                  sha256_transform(e).bitlen + 8 * BlockSize), 0)
        ELSE e
  <2>1. [c EXCEPT !.data[c.datalen + 1] = x, !.datalen = @ + 1] = e
    BY DEF SetDatalen, Store
  <2> QED
    BY <2>1 DEF UpdateByte, SetDatalen, SetBitlen
<1> HIDE DEF d
<1>4. e = Ctx(d, c.datalen + 1, c.bitlen, c.state)
  BY <1>2, CtxSet
<1> HIDE DEF e
<1>5. e.datalen = c.datalen + 1
  BY <1>4, CtxFields
<1>6. sha256_transform(e) = Ctx(d, c.datalen + 1, c.bitlen, Append(c.state, d))
  BY <1>4, TransformCtx
<1>7. SetDatalen(SetBitlen(sha256_transform(e),
                           sha256_transform(e).bitlen + 8 * BlockSize), 0) =
        Ctx(d, 0, c.bitlen + 8 * BlockSize, Append(c.state, d))
  BY <1>6, CtxFields, CtxSet
<1> QED
  BY <1>3, <1>4, <1>5, <1>7 DEF d

\* What sha256_final compresses: a block with the length, and before it one
\* without where the length does not fit.
Marked(c)  == Stored(c.data, c.datalen, Plain(128))
BitsOf(c)  == c.bitlen + 8 * c.datalen
Short(c)   == WithLength(Cleared(Marked(c), c.datalen + 1, Room), BitsOf(c))
Filled(c)  == Cleared(Marked(c), c.datalen + 1, BlockSize)
Extra(c)   == WithLength(Cleared(Filled(c), 0, Room), BitsOf(c))

LEMMA FinalCtx ==
  ASSUME NEW c, IsCtx(c)
  PROVE  sha256_final(c) =
           IF c.datalen < Room
           THEN Ctx(Short(c), c.datalen, c.bitlen, Append(c.state, Short(c)))
           ELSE Ctx(Extra(c), c.datalen, c.bitlen,
                    Append(Append(c.state, Filled(c)), Extra(c)))
<1> DEFINE d == Store(c, c.datalen, Plain(128))
           l == c.datalen
           b == c.bitlen
           s == c.state
<1>1. d = Ctx(Marked(c), l, b, s)
  BY StoreCtx DEF IsCtx, Marked
<1>2. Pad(c) = IF l < Room THEN Clear(d, l + 1, Room)
               ELSE Clear(sha256_transform(Clear(d, l + 1, BlockSize)), 0, Room)
  BY DEF Pad, Store
<1>3. sha256_final(c) = sha256_transform(PutLength(Pad(c), BitsOf(c)))
  BY DEF sha256_final, BitsOf
<1> HIDE DEF d, l, b, s
<1>4. CASE l < Room
  <2>1. Pad(c) = Ctx(Cleared(Marked(c), l + 1, Room), l, b, s)
    BY <1>1, <1>2, <1>4, ClearCtx
  <2>2. PutLength(Pad(c), BitsOf(c)) = Ctx(Short(c), l, b, s)
    BY <2>1, PutLengthCtx DEF Short, l
  <2>3. sha256_final(c) = Ctx(Short(c), l, b, Append(s, Short(c)))
    BY <1>3, <2>2, TransformCtx
  <2> QED
    BY <1>4, <2>3 DEF l, b, s
<1>5. CASE ~(l < Room)
  <2>1. Clear(d, l + 1, BlockSize) = Ctx(Filled(c), l, b, s)
    BY <1>1, ClearCtx DEF Filled, l
  <2>2. Pad(c) = Ctx(Cleared(Filled(c), 0, Room), l, b, Append(s, Filled(c)))
    BY <1>2, <1>5, <2>1, TransformCtx, ClearCtx
  <2>3. PutLength(Pad(c), BitsOf(c)) = Ctx(Extra(c), l, b, Append(s, Filled(c)))
    BY <2>2, PutLengthCtx DEF Extra
  <2>4. sha256_final(c) =
          Ctx(Extra(c), l, b, Append(Append(s, Filled(c)), Extra(c)))
    BY <1>3, <2>3, TransformCtx
  <2> QED
    BY <1>5, <2>4 DEF l, b, s
<1> QED
  BY <1>4, <1>5

LEMMA FinalIsCtx ==
  ASSUME NEW c, IsCtx(c)
  PROVE  IsCtx(sha256_final(c))
<1>1. IsSeq(Short(c), BlockSize) /\ IsSeq(Extra(c), BlockSize)
  BY Sizes DEF IsSeq, Short, Extra, WithLength
<1> QED
  BY <1>1, FinalCtx, CtxIs
------------------------------------------------------------------------------
(* Bytes and blocks: the n blocks before the one numbered n + 1.             *)

Before(n) == BlockSize * n

LEMMA BlockBase ==
  ASSUME NEW n \in Nat
  PROVE  /\ Before(n) \in Nat
         /\ Before(n + 1) = Before(n) + BlockSize
         /\ (n + 1 - 1) * BlockSize = Before(n)
<1>1. BlockSize * n \in Nat /\ BlockSize * (n + 1) = BlockSize * n + BlockSize
  BY Sizes
<1>2. n + 1 - 1 = n /\ n * BlockSize = BlockSize * n
  BY Sizes
<1> QED
  BY <1>1, <1>2 DEF Before

LEMMA Ordered ==
  ASSUME NEW m \in Nat, NEW n \in Nat, m < n
  PROVE  Before(m) + BlockSize <= Before(n)
<1>1. PICK e \in Nat : n = m + 1 + e
  <2>1. n - m - 1 \in Nat /\ n = m + 1 + (n - m - 1)
    OBVIOUS
  <2> QED
    BY <2>1
<1>2. BlockSize * (m + 1 + e) = BlockSize * m + BlockSize + BlockSize * e
  BY Sizes
<1>3. BlockSize * e \in Nat /\ BlockSize * m \in Nat
  BY Sizes
<1> QED
  BY <1>1, <1>2, <1>3, Sizes DEF Before

LEMMA WholeBlocks ==
  ASSUME NEW n \in Nat
  PROVE  Before(n) % BlockSize = 0 /\ Before(n) \div BlockSize = n
<1>1. BlockSize \in Nat /\ BlockSize > 0
  BY Sizes
<1>2. (BlockSize * n) % BlockSize = 0 /\ (BlockSize * n) \div BlockSize = n
  BY <1>1
<1> QED
  BY <1>2 DEF Before

LEMMA Divides ==
  ASSUME NEW x \in Nat, x % BlockSize = 0
  PROVE  \E q \in Nat : x = Before(q)
<1>1. BlockSize \in Nat /\ BlockSize > 0
  BY Sizes
<1>2. /\ x \div BlockSize \in Nat
      /\ x = BlockSize * (x \div BlockSize) + (x % BlockSize)
  BY <1>1
<1>3. PICK q \in Nat : x = BlockSize * q + 0
  BY <1>2
<1>4. BlockSize * q \in Nat
  BY <1>1
<1> QED
  BY <1>3, <1>4 DEF Before

\* Block j of m, byte by byte.
LEMMA BlockBytes ==
  ASSUME NEW m, NEW j \in Nat
  PROVE  /\ IsSeq(Block(m, j + 1), BlockSize)
         /\ \A k \in 1..BlockSize : Block(m, j + 1)[k] = m[Before(j) + k]
<1>1. (j + 1 - 1) * BlockSize = Before(j)
  BY BlockBase
<1>2. Block(m, j + 1) = [k \in 1..BlockSize |-> m[Before(j) + k]]
  BY <1>1 DEF Block
<1> QED
  BY <1>2, Sizes DEF IsSeq
------------------------------------------------------------------------------
(* The padding of a message of n blocks and r bytes.                         *)

ZerosFor(r)     == IF r < Room THEN Room - r - 1 ELSE BlockSize + Room - r - 1
BlocksFor(n, r) == IF r < Room THEN n + 1 ELSE n + 1 + 1

LEMMA PadSizes ==
  ASSUME NEW n \in Nat, NEW r \in 0..(BlockSize - 1), NEW l, l = Before(n) + r
  PROVE  /\ ZerosFor(r) \in 0..(BlockSize - 1) /\ BlocksFor(n, r) \in Nat
         /\ l \in Nat
         /\ l + 1 + ZerosFor(r) + LengthSize = Before(BlocksFor(n, r))
<1>1. /\ Before(n) \in Nat /\ Before(n + 1) = Before(n) + BlockSize
      /\ Before(n + 1 + 1) = Before(n) + BlockSize + BlockSize
  BY BlockBase
<1>2. CASE r < Room
  BY <1>1, <1>2, Sizes DEF ZerosFor, BlocksFor
<1>3. CASE ~(r < Room)
  BY <1>1, <1>3, Sizes DEF ZerosFor, BlocksFor
<1> QED
  BY <1>2, <1>3

\* The number of zeros is the only one that fills the last block.
LEMMA ZerosChosen ==
  ASSUME NEW n \in Nat, NEW r \in 0..(BlockSize - 1), NEW l, l = Before(n) + r
  PROVE  (CHOOSE x \in 0..(BlockSize - 1) : (l + 1 + x + LengthSize) % BlockSize = 0)
           = ZerosFor(r)
<1> DEFINE z == ZerosFor(r)
           q == BlocksFor(n, r)
<1>1. /\ z \in 0..(BlockSize - 1) /\ q \in Nat /\ l \in Nat
      /\ l + 1 + z + LengthSize = Before(q)
  BY PadSizes
<1> HIDE DEF z, q
<1>2. (l + 1 + z + LengthSize) % BlockSize = 0
  BY <1>1, WholeBlocks
<1>3. ASSUME NEW x \in 0..(BlockSize - 1), (l + 1 + x + LengthSize) % BlockSize = 0
      PROVE  x = z
  <2>1. l + 1 + x + LengthSize \in Nat
    BY <1>1, Sizes
  <2>2. PICK p \in Nat : l + 1 + x + LengthSize = Before(p)
    BY <1>3, <2>1, Divides
  <2>3. Before(p) \in Nat /\ Before(q) \in Nat
    BY <1>1, BlockBase
  <2>4. Before(p) - Before(q) = x - z
    BY <1>1, <2>2, Sizes
  <2>5. x - z < BlockSize /\ z - x < BlockSize /\ x \in Nat /\ z \in Nat
    BY <1>1, Sizes
  <2>6. CASE p < q
    <3>1. Before(p) + BlockSize <= Before(q)
      BY <1>1, <2>6, Ordered
    <3> QED
      BY <2>3, <2>4, <2>5, <3>1, Sizes
  <2>7. CASE q < p
    <3>1. Before(q) + BlockSize <= Before(p)
      BY <1>1, <2>7, Ordered
    <3> QED
      BY <2>3, <2>4, <2>5, <3>1, Sizes
  <2>8. CASE p = q
    BY <2>3, <2>4, <2>5, <2>8
  <2> QED
    BY <1>1, <2>6, <2>7, <2>8
<1>4. (CHOOSE x \in 0..(BlockSize - 1) : (l + 1 + x + LengthSize) % BlockSize = 0) = z
  BY <1>1, <1>2, <1>3
<1> QED
  BY <1>4 DEF z

\* p is m, of l bytes, then 0x80, z zeros and the length.
Pads(m, l, z, p) ==
  /\ IsSeq(p, l + 1 + z + LengthSize)
  /\ \A k \in 1..l : p[k] = m[k]
  /\ p[l + 1] = Plain(128)
  /\ \A k \in 1..z : p[l + 1 + k] = Plain(0)
  /\ \A k \in 1..LengthSize : p[l + 1 + z + k] = ByteOf(8 * l, LengthSize - k)

LEMMA PaddedBytes ==
  ASSUME NEW m, NEW l \in Nat, IsSeq(m, l), NEW n \in Nat,
         NEW r \in 0..(BlockSize - 1), l = Before(n) + r
  PROVE  Pads(m, l, ZerosFor(r), Padded(m))
<1> DEFINE z == ZerosFor(r)
           one == <<Plain(128)>>
           zs == [k \in 1..z |-> Plain(0)]
           ls == [k \in 1..LengthSize |-> ByteOf(8 * l, LengthSize - k)]
           a == m \o one
           b == a \o zs
           p == b \o ls
<1>1. Len(m) = l
  BY SeqLen
<1>2. Padded(m) = p
  BY <1>1, ZerosChosen DEF Padded
<1>3. z \in Nat
  BY PadSizes
<1> HIDE DEF z
<1>4. IsSeq(one, 1) /\ one[1] = Plain(128)
  BY DEF IsSeq
<1>5. IsSeq(zs, z) /\ \A k \in 1..z : zs[k] = Plain(0)
  BY <1>3 DEF IsSeq
<1>6. IsSeq(ls, LengthSize) /\ \A k \in 1..LengthSize : ls[k] = ByteOf(8 * l, LengthSize - k)
  BY Sizes DEF IsSeq
<1> HIDE DEF one, zs, ls
<1>7. /\ IsSeq(a, l + 1) /\ \A k \in 1..l : a[k] = m[k]
      /\ \A k \in 1..1 : a[l + k] = one[k]
  <2>1. Joins(m, l, one, 1, a)
    BY <1>4, SeqCat
  <2> HIDE DEF a
  <2> QED
    BY <2>1 DEF Joins
<1> HIDE DEF a
<1>8. /\ IsSeq(b, l + 1 + z) /\ \A k \in 1..(l + 1) : b[k] = a[k]
      /\ \A k \in 1..z : b[l + 1 + k] = zs[k]
  <2>1. Joins(a, l + 1, zs, z, b)
    BY <1>5, <1>7, SeqCat
  <2> HIDE DEF b
  <2> QED
    BY <2>1 DEF Joins
<1> HIDE DEF b
<1>9. /\ IsSeq(p, l + 1 + z + LengthSize) /\ \A k \in 1..(l + 1 + z) : p[k] = b[k]
      /\ \A k \in 1..LengthSize : p[l + 1 + z + k] = ls[k]
  <2>1. Joins(b, l + 1 + z, ls, LengthSize, p)
    BY <1>6, <1>8, SeqCat
  <2> HIDE DEF p
  <2> QED
    BY <2>1 DEF Joins
<1> HIDE DEF p
<1>10. /\ \A k \in 1..l : k \in 1..(l + 1) /\ k \in 1..(l + 1 + z)
       /\ 1 \in 1..1 /\ l + 1 \in 1..(l + 1) /\ l + 1 \in 1..(l + 1 + z)
       /\ \A k \in 1..z : l + 1 + k \in 1..(l + 1 + z)
  BY <1>3
<1>11. \A k \in 1..l : p[k] = m[k]
  BY <1>7, <1>8, <1>9, <1>10
<1>12. p[l + 1] = Plain(128)
  BY <1>4, <1>7, <1>8, <1>9, <1>10
<1>13. \A k \in 1..z : p[l + 1 + k] = Plain(0)
  BY <1>5, <1>8, <1>9, <1>10
<1>14. \A k \in 1..LengthSize : p[l + 1 + z + k] = ByteOf(8 * l, LengthSize - k)
  BY <1>6, <1>9
<1>15. Pads(m, l, z, p)
  BY <1>9, <1>11, <1>12, <1>13, <1>14 DEF Pads
<1> QED
  BY <1>2, <1>15 DEF z
------------------------------------------------------------------------------
(* What a context accounts for: n blocks of m compressed, and r bytes kept.  *)

AreBlocks(f, n, m) == IsSeq(f, n) /\ \A j \in 1..n : f[j] = Block(m, j)

Holds(c, m, n, r) ==
  /\ n \in Nat /\ r \in 0..(BlockSize - 1)
  /\ c.datalen = r /\ c.bitlen = 8 * Before(n)
  /\ AreBlocks(c.state, n, m)
  /\ \A k \in 1..r : c.data[k] = m[Before(n) + k]

LEMMA HoldsTypes ==
  ASSUME NEW c, NEW m, NEW n, NEW r, Holds(c, m, n, r)
  PROVE  /\ n \in Nat /\ r \in Nat /\ r < BlockSize /\ r \in 0..(BlockSize - 1)
         /\ Before(n) \in Nat /\ BitsOf(c) = 8 * (Before(n) + r)
         /\ c.datalen = r
<1>1. n \in Nat /\ r \in 0..(BlockSize - 1) /\ c.datalen = r /\ c.bitlen = 8 * Before(n)
  BY DEF Holds
<1>2. Before(n) \in Nat
  BY <1>1, BlockBase
<1> QED
  BY <1>1, <1>2, Sizes DEF BitsOf

LEMMA MarkedBytes ==
  ASSUME NEW c, NEW m, NEW n, NEW r, Holds(c, m, n, r), IsCtx(c)
  PROVE  /\ \A k \in 1..r : Marked(c)[k] = m[Before(n) + k]
         /\ Marked(c)[r + 1] = Plain(128)
<1>1. r \in 0..(BlockSize - 1) /\ c.datalen = r /\ \A k \in 1..r : c.data[k] = m[Before(n) + k]
  BY DEF Holds
<1>2. IsSeq(c.data, BlockSize)
  BY DEF IsCtx
<1>3. /\ \A k \in 1..r : Stored(c.data, r, Plain(128))[k] = c.data[k]
      /\ Stored(c.data, r, Plain(128))[r + 1] = Plain(128)
  BY <1>1, <1>2, StoredSeq
<1> QED
  BY <1>1, <1>3 DEF Marked

\* A byte of the message and the 0x80, seen from the padded message p.
LEMMA MessagePart ==
  ASSUME NEW c, NEW m, NEW n, NEW r, Holds(c, m, n, r), IsCtx(c),
         NEW p, NEW z, Pads(m, Before(n) + r, z, p), NEW k \in 1..(r + 1)
  PROVE  Marked(c)[k] = p[Before(n) + k]
<1>1. n \in Nat /\ r \in Nat /\ Before(n) \in Nat
  BY HoldsTypes
<1>2. CASE k = r + 1
  <2>1. p[Before(n) + r + 1] = Plain(128) /\ Before(n) + r + 1 = Before(n) + (r + 1)
    BY <1>1 DEF Pads
  <2> QED
    BY <1>2, <2>1, MarkedBytes
<1>3. CASE k # r + 1
  <2>1. k \in 1..r /\ Before(n) + k \in 1..(Before(n) + r)
    BY <1>1, <1>3
  <2>2. \A i \in 1..(Before(n) + r) : p[i] = m[i]
    BY DEF Pads
  <2> QED
    BY <2>1, <2>2, MarkedBytes
<1> QED
  BY <1>2, <1>3

\* The blocks before the last bytes are the blocks of the message.
LEMMA SameBlocks ==
  ASSUME NEW m, NEW p, NEW z, NEW n \in Nat, NEW r \in Nat,
         Pads(m, Before(n) + r, z, p), NEW j \in 1..n
  PROVE  Block(p, j) = Block(m, j)
<1>1. PICK i \in Nat : j = i + 1 /\ i < n
  <2>1. j - 1 \in Nat /\ j = (j - 1) + 1 /\ j - 1 < n
    OBVIOUS
  <2> QED
    BY <2>1
<1>2. Before(i) + BlockSize <= Before(n) /\ Before(i) \in Nat /\ Before(n) \in Nat
  BY <1>1, Ordered, BlockBase
<1>3. \A k \in 1..BlockSize : Before(i) + k \in 1..(Before(n) + r)
  BY <1>2, Sizes
<1>4. \A k \in 1..(Before(n) + r) : p[k] = m[k]
  BY DEF Pads
<1>5. /\ IsSeq(Block(p, i + 1), BlockSize) /\ IsSeq(Block(m, i + 1), BlockSize)
      /\ \A k \in 1..BlockSize : /\ Block(p, i + 1)[k] = p[Before(i) + k]
                                 /\ Block(m, i + 1)[k] = m[Before(i) + k]
  BY BlockBytes
<1>6. \A k \in 1..BlockSize : Block(p, i + 1)[k] = Block(m, i + 1)[k]
  BY <1>3, <1>4, <1>5
<1> QED
  BY <1>1, <1>5, <1>6, SeqSame

\* A buffer that holds the bytes of block n + 1 is that block.
LEMMA IsBlock ==
  ASSUME NEW d, NEW p, NEW n \in Nat, IsSeq(d, BlockSize),
         \A k \in 1..BlockSize : d[k] = p[Before(n) + k]
  PROVE  d = Block(p, n + 1)
<1> DEFINE e == Block(p, n + 1)
<1>1. IsSeq(e, BlockSize) /\ \A k \in 1..BlockSize : e[k] = p[Before(n) + k]
  BY BlockBytes
<1> HIDE DEF e
<1>2. \A k \in 1..BlockSize : d[k] = e[k]
  BY <1>1
<1>3. d = e
  BY <1>1, <1>2, SeqSame
<1> QED
  BY <1>3 DEF e

\* The last block starts after b bytes, and its length field says l bytes.
LastAt(n, r, b)      == b \in Nat /\ Before(n) + r + 1 + ZerosFor(r) = b + Room
LengthAfter(p, l, b) ==
  \A k \in 1..BlockSize : ~(k <= Room) => p[b + k] = ByteOf(8 * l, BlockSize - k)

LEMMA LengthPart ==
  ASSUME NEW m, NEW p, NEW n, NEW r, NEW b,
         Pads(m, Before(n) + r, ZerosFor(r), p), LastAt(n, r, b)
  PROVE  LengthAfter(p, Before(n) + r, b)
<1>0. b \in Nat /\ Before(n) + r + 1 + ZerosFor(r) = b + Room
  BY DEF LastAt
<1> SUFFICES ASSUME NEW k \in 1..BlockSize, ~(k <= Room)
             PROVE  p[b + k] = ByteOf(8 * (Before(n) + r), BlockSize - k)
  BY DEF LengthAfter
<1>1. /\ k - Room \in 1..LengthSize
      /\ b + Room + (k - Room) = b + k
      /\ LengthSize - (k - Room) = BlockSize - k
  BY <1>0, Sizes
<1>2. p[b + Room + (k - Room)] =
        ByteOf(8 * (Before(n) + r), LengthSize - (k - Room))
  BY <1>0, <1>1 DEF Pads
<1> QED
  BY <1>1, <1>2

\* Where the length fits, the block compressed last is block n + 1.
LEMMA ShortBlock ==
  ASSUME NEW c, NEW m, NEW n, NEW r, Holds(c, m, n, r), IsCtx(c), r < Room,
         NEW p, Pads(m, Before(n) + r, ZerosFor(r), p)
  PROVE  Short(c) = Block(p, n + 1)
<1>0. /\ n \in Nat /\ r \in Nat /\ r \in 0..(BlockSize - 1) /\ Before(n) \in Nat
      /\ c.datalen = r /\ BitsOf(c) = 8 * (Before(n) + r)
  BY HoldsTypes
<1> DEFINE e == Cleared(Marked(c), r + 1, Room)
<1>1. Short(c) = WithLength(e, 8 * (Before(n) + r))
  BY <1>0 DEF Short
<1>2. ASSUME NEW k \in 1..BlockSize PROVE Short(c)[k] = p[Before(n) + k]
  <2>1. CASE k <= r + 1
    <3>1. k \in 1..(r + 1) /\ k <= Room /\ k \notin (r + 1 + 1)..Room
      BY <1>0, <2>1, Sizes
    <3>2. Short(c)[k] = Marked(c)[k]
      BY <1>1, <3>1 DEF WithLength, Cleared
    <3> QED
      BY <3>1, <3>2, MessagePart
  <2>2. CASE ~(k <= r + 1) /\ k <= Room
    <3>1. k \in (r + 1 + 1)..Room
      BY <1>0, <2>2, Sizes
    <3>2. Short(c)[k] = Plain(0)
      BY <1>1, <2>2, <3>1 DEF WithLength, Cleared
    <3>3. PICK i \in 1..ZerosFor(r) : Before(n) + r + 1 + i = Before(n) + k
      <4>1. /\ k - r - 1 \in 1..ZerosFor(r)
            /\ Before(n) + r + 1 + (k - r - 1) = Before(n) + k
        BY <1>0, <2>2, Sizes DEF ZerosFor
      <4> QED
        BY <4>1
    <3>4. p[Before(n) + r + 1 + i] = Plain(0)
      BY DEF Pads
    <3> QED
      BY <3>2, <3>3, <3>4
  <2>3. CASE ~(k <= Room)
    <3>1. Short(c)[k] = ByteOf(8 * (Before(n) + r), BlockSize - k)
      BY <1>1, <2>3 DEF WithLength
    <3>2. LastAt(n, r, Before(n))
      BY <1>0, Sizes DEF LastAt, ZerosFor
    <3>3. LengthAfter(p, Before(n) + r, Before(n))
      BY <3>2, LengthPart
    <3> QED
      BY <2>3, <3>1, <3>3 DEF LengthAfter
  <2> QED
    BY <2>1, <2>2, <2>3
<1>3. IsSeq(Short(c), BlockSize)
  BY Sizes DEF IsSeq, Short, WithLength
<1> QED
  BY <1>0, <1>2, <1>3, IsBlock

\* Where it does not, blocks n + 1 and n + 2 are compressed.
LEMMA FilledBlock ==
  ASSUME NEW c, NEW m, NEW n, NEW r, Holds(c, m, n, r), IsCtx(c), ~(r < Room),
         NEW p, Pads(m, Before(n) + r, ZerosFor(r), p)
  PROVE  Filled(c) = Block(p, n + 1)
<1>0. /\ n \in Nat /\ r \in Nat /\ r \in 0..(BlockSize - 1) /\ Before(n) \in Nat
      /\ c.datalen = r
  BY HoldsTypes
<1>1. Filled(c) = Cleared(Marked(c), r + 1, BlockSize)
  BY <1>0 DEF Filled
<1>2. ASSUME NEW k \in 1..BlockSize PROVE Filled(c)[k] = p[Before(n) + k]
  <2>1. CASE k <= r + 1
    <3>1. k \in 1..(r + 1) /\ k \notin (r + 1 + 1)..BlockSize
      BY <1>0, <2>1, Sizes
    <3>2. Filled(c)[k] = Marked(c)[k]
      BY <1>1, <3>1 DEF Cleared
    <3> QED
      BY <3>1, <3>2, MessagePart
  <2>2. CASE ~(k <= r + 1)
    <3>1. k \in (r + 1 + 1)..BlockSize
      BY <1>0, <2>2, Sizes
    <3>2. Filled(c)[k] = Plain(0)
      BY <1>1, <3>1 DEF Cleared
    <3>3. PICK i \in 1..ZerosFor(r) : Before(n) + r + 1 + i = Before(n) + k
      <4>1. /\ k - r - 1 \in 1..ZerosFor(r)
            /\ Before(n) + r + 1 + (k - r - 1) = Before(n) + k
        BY <1>0, <2>2, Sizes DEF ZerosFor
      <4> QED
        BY <4>1
    <3>4. p[Before(n) + r + 1 + i] = Plain(0)
      BY DEF Pads
    <3> QED
      BY <3>2, <3>3, <3>4
  <2> QED
    BY <2>1, <2>2
<1>3. IsSeq(Filled(c), BlockSize)
  BY Sizes DEF IsSeq, Filled, Cleared
<1> QED
  BY <1>0, <1>2, <1>3, IsBlock

LEMMA ExtraBlock ==
  ASSUME NEW c, NEW m, NEW n, NEW r, Holds(c, m, n, r), IsCtx(c), ~(r < Room),
         NEW p, Pads(m, Before(n) + r, ZerosFor(r), p)
  PROVE  Extra(c) = Block(p, n + 1 + 1)
<1>0. /\ n \in Nat /\ r \in Nat /\ r \in 0..(BlockSize - 1) /\ Before(n) \in Nat
      /\ BitsOf(c) = 8 * (Before(n) + r) /\ n + 1 \in Nat
  BY HoldsTypes
<1>1. Before(n + 1) = Before(n) + BlockSize
  BY <1>0, BlockBase
<1>2. Extra(c) = WithLength(Cleared(Filled(c), 0, Room), 8 * (Before(n) + r))
  BY <1>0 DEF Extra
<1>3. ASSUME NEW k \in 1..BlockSize PROVE Extra(c)[k] = p[Before(n + 1) + k]
  <2>1. CASE k <= Room
    <3>1. k \in (0 + 1)..Room
      BY <2>1, Sizes
    <3>2. Extra(c)[k] = Plain(0)
      BY <1>2, <2>1, <3>1 DEF WithLength, Cleared
    <3>3. PICK i \in 1..ZerosFor(r) : Before(n) + r + 1 + i = Before(n + 1) + k
      <4>1. /\ BlockSize + k - r - 1 \in 1..ZerosFor(r)
            /\ Before(n) + r + 1 + (BlockSize + k - r - 1) = Before(n + 1) + k
        BY <1>0, <1>1, <2>1, Sizes DEF ZerosFor
      <4> QED
        BY <4>1
    <3>4. p[Before(n) + r + 1 + i] = Plain(0)
      BY DEF Pads
    <3> QED
      BY <3>2, <3>3, <3>4
  <2>2. CASE ~(k <= Room)
    <3>1. Extra(c)[k] = ByteOf(8 * (Before(n) + r), BlockSize - k)
      BY <1>2, <2>2 DEF WithLength
    <3>2. LastAt(n, r, Before(n + 1))
      BY <1>0, <1>1, Sizes DEF LastAt, ZerosFor
    <3>3. LengthAfter(p, Before(n) + r, Before(n + 1))
      BY <3>2, LengthPart
    <3> QED
      BY <2>2, <3>1, <3>3 DEF LengthAfter
  <2> QED
    BY <2>1, <2>2
<1>4. IsSeq(Extra(c), BlockSize)
  BY Sizes DEF IsSeq, Extra, WithLength
<1> QED
  BY <1>0, <1>3, <1>4, IsBlock

LEMMA BlocksAre ==
  ASSUME NEW p, NEW q \in Nat, IsSeq(p, Before(q)), NEW f, AreBlocks(f, q, p)
  PROVE  f = Blocks(p)
<1>1. Len(p) \div BlockSize = q
  BY SeqLen, WholeBlocks
<1>2. Blocks(p) = [j \in 1..q |-> Block(p, j)]
  BY <1>1 DEF Blocks
<1> QED
  BY <1>2 DEF AreBlocks, IsSeq

LEMMA AppendBlock ==
  ASSUME NEW f, NEW n \in Nat, NEW p, AreBlocks(f, n, p), NEW x, x = Block(p, n + 1)
  PROVE  AreBlocks(Append(f, x), n + 1, p)
<1> DEFINE g == Append(f, x)
<1>1. IsSeq(f, n) /\ \A j \in 1..n : f[j] = Block(p, j)
  BY DEF AreBlocks
<1>2. Extends(f, n, x, g)
  BY <1>1, SeqAppend
<1> HIDE DEF g
<1>3. IsSeq(g, n + 1) /\ (\A j \in 1..n : g[j] = f[j]) /\ g[n + 1] = x
  BY <1>2 DEF Extends
<1>4. \A j \in 1..(n + 1) : j \in 1..n \/ j = n + 1
  OBVIOUS
<1>5. \A j \in 1..(n + 1) : g[j] = Block(p, j)
  BY <1>1, <1>3, <1>4
<1>6. AreBlocks(g, n + 1, p)
  BY <1>3, <1>5 DEF AreBlocks
<1> QED
  BY <1>6 DEF g

\* Whatever was absorbed, sha256_final leaves the blocks of the padded message.
LEMMA FinalBlocks ==
  ASSUME NEW c, NEW m, NEW n, NEW r, IsCtx(c), Holds(c, m, n, r),
         IsSeq(m, Before(n) + r)
  PROVE  sha256_final(c).state = Blocks(Padded(m))
<1> DEFINE p == Padded(m)
           q == BlocksFor(n, r)
           s == c.state
<1>0. n \in Nat /\ r \in 0..(BlockSize - 1) /\ c.datalen = r /\ Before(n) + r \in Nat
  BY HoldsTypes
<1>1. Pads(m, Before(n) + r, ZerosFor(r), p)
  BY <1>0, PaddedBytes
<1> HIDE DEF p
<1>2. q \in Nat /\ Before(n) + r + 1 + ZerosFor(r) + LengthSize = Before(q)
  BY <1>0, PadSizes
<1>3. IsSeq(p, Before(q))
  BY <1>1, <1>2 DEF Pads
<1>4. AreBlocks(s, n, m)
  BY DEF Holds
<1>5. AreBlocks(s, n, p)
  <2>1. \A j \in 1..n : Block(p, j) = Block(m, j)
    BY <1>0, <1>1, HoldsTypes, SameBlocks
  <2> QED
    BY <1>4, <2>1 DEF AreBlocks
<1>6. CASE r < Room
  <2>1. sha256_final(c).state = Append(s, Short(c))
    <3> DEFINE t == Append(s, Short(c))
    <3>1. sha256_final(c) = Ctx(Short(c), c.datalen, c.bitlen, t)
      BY <1>0, <1>6, FinalCtx
    <3> HIDE DEF t
    <3>2. sha256_final(c).state = t
      BY <3>1, CtxFields
    <3> QED
      BY <3>2 DEF t
  <2>2. Short(c) = Block(p, n + 1)
    BY <1>1, <1>6, ShortBlock
  <2>3. AreBlocks(Append(s, Short(c)), n + 1, p)
    BY <1>0, <1>5, <2>2, AppendBlock
  <2>4. q = n + 1
    BY <1>6 DEF BlocksFor
  <2>5. Append(s, Short(c)) = Blocks(p)
    BY <1>2, <1>3, <2>3, <2>4, BlocksAre
  <2> QED
    BY <2>1, <2>5 DEF p
<1>7. CASE ~(r < Room)
  <2> DEFINE u == Append(s, Filled(c))
  <2>1. sha256_final(c).state = Append(u, Extra(c))
    <3> DEFINE t == Append(u, Extra(c))
    <3>1. sha256_final(c) = Ctx(Extra(c), c.datalen, c.bitlen, t)
      BY <1>0, <1>7, FinalCtx
    <3> HIDE DEF t
    <3>2. sha256_final(c).state = t
      BY <3>1, CtxFields
    <3> QED
      BY <3>2 DEF t
  <2>2. Filled(c) = Block(p, n + 1) /\ Extra(c) = Block(p, n + 1 + 1)
    BY <1>1, <1>7, FilledBlock, ExtraBlock
  <2>3. AreBlocks(u, n + 1, p)
    BY <1>0, <1>5, <2>2, AppendBlock
  <2> HIDE DEF u
  <2>4. AreBlocks(Append(u, Extra(c)), n + 1 + 1, p)
    BY <1>0, <2>2, <2>3, AppendBlock
  <2>5. q = n + 1 + 1
    BY <1>7 DEF BlocksFor
  <2>6. Append(u, Extra(c)) = Blocks(p)
    BY <1>2, <1>3, <2>4, <2>5, BlocksAre
  <2> QED
    BY <2>1, <2>6 DEF p
<1> QED
  BY <1>6, <1>7

\* So the digest of a context is the hash of what it has absorbed.
LEMMA Digest ==
  ASSUME NEW c, NEW m, NEW n, NEW r, IsCtx(c), Holds(c, m, n, r),
         IsSeq(m, Before(n) + r)
  PROVE  HashBytes(sha256_final(c)) = Sha256(m)
BY FinalBlocks DEF HashBytes, Sha256

\* One more byte of the message.
LEMMA UpdateHolds ==
  ASSUME NEW c, NEW m, NEW n, NEW r, IsCtx(c), Holds(c, m, n, r),
         NEW x, x = m[Before(n) + r + 1]
  PROVE  /\ IsCtx(UpdateByte(c, x))
         /\ r + 1 = BlockSize => Holds(UpdateByte(c, x), m, n + 1, 0)
         /\ r + 1 # BlockSize => Holds(UpdateByte(c, x), m, n, r + 1)
<1> DEFINE d == Stored(c.data, r, x)
           u == UpdateByte(c, x)
<1>0. n \in Nat /\ r \in 0..(BlockSize - 1) /\ c.datalen = r /\ Before(n) \in Nat /\ r \in Nat
  BY HoldsTypes
<1>1. /\ c.bitlen = 8 * Before(n) /\ AreBlocks(c.state, n, m)
      /\ \A k \in 1..r : c.data[k] = m[Before(n) + k]
  BY DEF Holds
<1>2. u = IF r + 1 = BlockSize
          THEN Ctx(d, 0, c.bitlen + 8 * BlockSize, Append(c.state, d))
          ELSE Ctx(d, r + 1, c.bitlen, c.state)
  BY <1>0, UpdateCtx
<1>3. /\ IsSeq(d, BlockSize) /\ \A k \in 1..r : d[k] = c.data[k]
      /\ d[r + 1] = x
  BY <1>0, StoredSeq DEF IsCtx
<1> HIDE DEF d, u
<1>4. \A k \in 1..(r + 1) : d[k] = m[Before(n) + k]
  <2>1. Before(n) + r + 1 = Before(n) + (r + 1)
    BY <1>0
  <2> QED
    BY <1>0, <1>1, <1>3, <2>1
<1>5. CASE r + 1 = BlockSize
  <2>0. u = Ctx(d, 0, c.bitlen + 8 * BlockSize, Append(c.state, d))
    BY <1>2, <1>5
  <2>1. /\ u.data = d /\ u.datalen = 0 /\ u.bitlen = c.bitlen + 8 * BlockSize
        /\ u.state = Append(c.state, d) /\ IsCtx(u)
    <3> DEFINE t == Append(c.state, d)
               b == c.bitlen + 8 * BlockSize
    <3>1. u = Ctx(d, 0, b, t)
      BY <2>0
    <3> HIDE DEF t, b
    <3>2. IsCtx(u) /\ u.data = d /\ u.datalen = 0 /\ u.bitlen = b /\ u.state = t
      BY <1>3, <3>1, CtxFields, CtxIs
    <3> QED
      BY <3>2 DEF t, b
  <2>2. d = Block(m, n + 1)
    BY <1>0, <1>3, <1>4, <1>5, IsBlock
  <2>3. AreBlocks(u.state, n + 1, m)
    BY <1>0, <1>1, <2>1, <2>2, AppendBlock
  <2>4. u.bitlen = 8 * Before(n + 1) /\ 0 \in 0..(BlockSize - 1) /\ n + 1 \in Nat
    <3>1. Before(n + 1) = Before(n) + BlockSize
      BY <1>0, BlockBase
    <3>2. u.bitlen = 8 * Before(n) + 8 * BlockSize
      BY <1>1, <2>1
    <3> QED
      BY <1>0, <3>1, <3>2, Sizes
  <2>5. Holds(u, m, n + 1, 0)
    BY <2>1, <2>3, <2>4 DEF Holds
  <2> QED
    BY <1>5, <2>1, <2>5 DEF u
<1>6. CASE r + 1 # BlockSize
  <2>0. u = Ctx(d, r + 1, c.bitlen, c.state)
    BY <1>2, <1>6
  <2>1. /\ u.data = d /\ u.datalen = r + 1 /\ u.bitlen = c.bitlen
        /\ u.state = c.state /\ IsCtx(u)
    BY <1>3, <2>0, CtxFields, CtxIs
  <2>2. r + 1 \in 0..(BlockSize - 1)
    BY <1>0, <1>6, Sizes
  <2>3. Holds(u, m, n, r + 1)
    BY <1>0, <1>1, <1>4, <2>1, <2>2 DEF Holds
  <2> QED
    BY <1>6, <2>1, <2>3 DEF u
<1> QED
  BY <1>5, <1>6

\* A context just initialised has absorbed nothing.
LEMMA InitHolds ==
  ASSUME NEW c, NEW m, IsCtx(c)
  PROVE  IsCtx(sha256_init(c)) /\ Holds(sha256_init(c), m, 0, 0) /\ Before(0) = 0
<1> DEFINE u == sha256_init(c)
<1>1. IsSeq(c.data, BlockSize)
  BY DEF IsCtx
<1>2. u = Ctx(c.data, 0, 0, <<>>)
  BY InitCtx
<1> HIDE DEF u
<1>3. IsCtx(u) /\ u.datalen = 0 /\ u.bitlen = 0 /\ u.state = <<>>
  BY <1>1, <1>2, CtxIs, CtxFields
<1>4. Before(0) = 0
  BY Sizes DEF Before
<1>5. 0 \in Nat /\ 0 \in 0..(BlockSize - 1) /\ 0 = 8 * 0 /\ 1..0 = {}
  BY Sizes
<1>6. Holds(u, m, 0, 0)
  BY <1>3, <1>4, <1>5, SeqEmpty DEF Holds, AreBlocks
<1> QED
  BY <1>3, <1>4, <1>6 DEF u
------------------------------------------------------------------------------
(* The inductive invariant.                                                  *)

\* The context c has absorbed m but for the t bytes f.
Taking(c, m, f, n, r, t) ==
  /\ Holds(c, m, n, r)
  /\ IsSeq(f, t)
  /\ \A k \in 1..t : f[k] = m[Before(n) + r + k]
  /\ IsSeq(m, Before(n) + r + t)

IInv ==
  /\ pc \in {"idle", "inner", "outer"}
  /\ IsCtx(ctx)
  /\ pc = "idle" => feed = <<>>
  /\ pc # "idle" =>
       /\ IsSeq(req.data, Len(req.data))
       /\ Taking(ctx, Message, feed, Len(ctx.state), ctx.datalen, Len(feed))
  /\ AnswersHmac

LEMMA TakingSizes ==
  ASSUME NEW c, NEW m, NEW f, NEW n, NEW r, NEW t, Taking(c, m, f, n, r, t)
  PROVE  Taking(c, m, f, Len(c.state), c.datalen, Len(f))
<1>1. IsSeq(f, t) /\ IsSeq(c.state, n) /\ c.datalen = r
  BY DEF Taking, Holds, AreBlocks
<1>2. Len(f) = t /\ Len(c.state) = n
  BY <1>1, SeqLen
<1> QED
  BY <1>1, <1>2

LEMMA TakingStarts ==
  ASSUME NEW c, IsCtx(c), NEW m, NEW t, IsSeq(m, t)
  PROVE  /\ IsCtx(sha256_init(c))
         /\ Taking(sha256_init(c), m, m, 0, 0, t)
<1>1. /\ IsCtx(sha256_init(c)) /\ Holds(sha256_init(c), m, 0, 0) /\ Before(0) = 0
  BY InitHolds
<1>2. t \in Nat
  BY DEF IsSeq
<1>3. Before(0) + 0 + t = t /\ \A k \in 1..t : Before(0) + 0 + k = k
  BY <1>1, <1>2
<1> QED
  BY <1>1, <1>3 DEF Taking

LEMMA TakingMore ==
  ASSUME NEW c, IsCtx(c), NEW m, NEW f, NEW n, NEW r, NEW t,
         Taking(c, m, f, n, r, t), f # <<>>
  PROVE  /\ IsCtx(UpdateByte(c, Head(f)))
         /\ \E i, k, l : Taking(UpdateByte(c, Head(f)), m, Tail(f), i, k, l)
<1> DEFINE u == UpdateByte(c, Head(f))
           g == Tail(f)
<1>1. /\ Holds(c, m, n, r) /\ IsSeq(f, t) /\ IsSeq(m, Before(n) + r + t)
      /\ \A k \in 1..t : f[k] = m[Before(n) + r + k]
  BY DEF Taking
<1>2. n \in Nat /\ r \in Nat /\ Before(n) \in Nat /\ Before(n + 1) = Before(n) + BlockSize
  BY <1>1, HoldsTypes, BlockBase
<1>3. t \in Nat
  BY <1>1 DEF IsSeq
<1>4. /\ t > 0 /\ Head(f) = f[1] /\ IsSeq(g, t - 1)
      /\ \A k \in 1..(t - 1) : g[k] = f[k + 1]
  BY <1>1, SeqTail
<1>5. Head(f) = m[Before(n) + r + 1]
  <2>1. 1 \in 1..t
    BY <1>3, <1>4
  <2> QED
    BY <1>1, <1>4, <2>1
<1>6. /\ IsCtx(u)
      /\ r + 1 = BlockSize => Holds(u, m, n + 1, 0)
      /\ r + 1 # BlockSize => Holds(u, m, n, r + 1)
  BY <1>1, <1>5, UpdateHolds
<1> HIDE DEF u, g
<1>7. ASSUME NEW k \in 1..(t - 1) PROVE g[k] = m[Before(n) + r + (k + 1)]
  <2>1. k + 1 \in 1..t
    BY <1>3
  <2> QED
    BY <1>1, <1>4, <2>1
<1>8. CASE r + 1 = BlockSize
  <2>1. /\ Before(n + 1) + 0 + (t - 1) = Before(n) + r + t
        /\ \A k \in 1..(t - 1) : Before(n + 1) + 0 + k = Before(n) + r + (k + 1)
    BY <1>2, <1>3, <1>8
  <2>2. Taking(u, m, g, n + 1, 0, t - 1)
    BY <1>1, <1>4, <1>6, <1>7, <1>8, <2>1 DEF Taking
  <2> QED
    BY <1>6, <2>2 DEF u, g
<1>9. CASE r + 1 # BlockSize
  <2>1. /\ Before(n) + (r + 1) + (t - 1) = Before(n) + r + t
        /\ \A k \in 1..(t - 1) : Before(n) + (r + 1) + k = Before(n) + r + (k + 1)
    BY <1>2, <1>3
  <2>2. Taking(u, m, g, n, r + 1, t - 1)
    BY <1>1, <1>4, <1>6, <1>7, <1>9, <2>1 DEF Taking
  <2> QED
    BY <1>6, <2>2 DEF u, g
<1> QED
  BY <1>8, <1>9

\* When nothing is left to absorb, the digest is the hash of the message.
LEMMA TakingEnds ==
  ASSUME NEW c, IsCtx(c), NEW m, NEW n, NEW r, NEW t, Taking(c, m, <<>>, n, r, t)
  PROVE  HashBytes(sha256_final(c)) = Sha256(m)
<1>1. Holds(c, m, n, r) /\ IsSeq(<<>>, t) /\ IsSeq(m, Before(n) + r + t)
  BY DEF Taking
<1>2. t = 0
  BY <1>1, SeqLen, SeqEmpty
<1>3. Before(n) + r + t = Before(n) + r
  BY <1>1, <1>2, HoldsTypes
<1> QED
  BY <1>1, <1>3, Digest

LEMMA KeyPadSeq ==
  IsSeq(k_ipad, BlockSize) /\ IsSeq(k_opad, BlockSize)
BY Sizes DEF IsSeq, k_ipad, k_opad, KeyPad

LEMMA Sha256Seq ==
  ASSUME NEW m
  PROVE  IsSeq(Sha256(m), HashSize)
BY Sizes DEF IsSeq, Sha256

LEMMA DataSeq == \A d \in Data : IsSeq(d, Len(d))
BY HmacAssumption DEF HmacAssumption, IsSeq

LEMMA InitHmac == Init => IInv
<1> SUFFICES ASSUME Init PROVE IInv
  OBVIOUS
<1>1. ctx \in Garbage /\ pc = "idle" /\ feed = <<>> /\ req = [op |-> "none"]
  BY DEF Init
<1>2. IsCtx(ctx)
  BY <1>1, GarbageCtx
<1>3. req.op # "sign" /\ req.op # "verify"
  BY <1>1
<1> QED
  BY <1>1, <1>2, <1>3 DEF IInv, AnswersHmac

\* A call starts the inner hash.
LEMMA BeginHmac ==
  ASSUME IInv, NEW r, IsSeq(r.data, Len(r.data)), Begin(r)
  PROVE  IInv'
<1>1. /\ pc' = "inner" /\ req' = r /\ feed' = k_ipad \o r.data
      /\ \E c \in Garbage \cup {ctx} : ctx' = sha256_init(c)
  BY DEF Begin
<1>2. PICK c : IsCtx(c) /\ ctx' = sha256_init(c)
  BY <1>1, GarbageCtx DEF IInv
<1>3. Message' = feed' /\ req'.data = r.data
  BY <1>1 DEF Message
<1>4. Joins(k_ipad, BlockSize, r.data, Len(r.data), feed')
  BY <1>1, KeyPadSeq, SeqCat
<1>5. PICK t : IsSeq(feed', t)
  BY <1>4 DEF Joins
<1>6. IsCtx(ctx') /\ Taking(ctx', feed', feed', 0, 0, t)
  BY <1>2, <1>5, TakingStarts
<1>7. Taking(ctx', Message', feed', Len(ctx'.state), ctx'.datalen, Len(feed'))
  BY <1>3, <1>6, TakingSizes
<1> QED
  BY <1>1, <1>3, <1>6, <1>7 DEF IInv, AnswersHmac

LEMMA UpdateHmac ==
  ASSUME IInv, sha256_update
  PROVE  IInv'
<1>1. /\ feed # <<>> /\ ctx' = UpdateByte(ctx, Head(feed)) /\ feed' = Tail(feed)
      /\ pc' = pc /\ req' = req /\ result' = result
  BY DEF sha256_update
<1>2. /\ pc # "idle" /\ pc \in {"inner", "outer"} /\ IsCtx(ctx)
      /\ IsSeq(req.data, Len(req.data))
      /\ Taking(ctx, Message, feed, Len(ctx.state), ctx.datalen, Len(feed))
  BY <1>1 DEF IInv
<1>3. Message' = Message
  BY <1>1 DEF Message
<1>4. IsCtx(ctx') /\ \E i, k, l : Taking(ctx', Message, feed', i, k, l)
  BY <1>1, <1>2, TakingMore
<1>5. Taking(ctx', Message', feed', Len(ctx'.state), ctx'.datalen, Len(feed'))
  BY <1>3, <1>4, TakingSizes
<1> QED
  BY <1>1, <1>2, <1>4, <1>5 DEF IInv, AnswersHmac

\* The inner digest is the message of the outer hash, after the outer pad.
LEMMA FinalInnerHmac ==
  ASSUME IInv, FinalInner
  PROVE  IInv'
<1> DEFINE c == sha256_final(ctx)
           h == HashBytes(c)
<1>1. /\ pc = "inner" /\ feed = <<>> /\ ctx' = sha256_init(c) /\ feed' = k_opad \o h
      /\ pc' = "outer" /\ req' = req /\ result' = result
  BY DEF FinalInner
<1>2. /\ IsCtx(ctx) /\ IsSeq(req.data, Len(req.data))
      /\ Taking(ctx, Message, feed, Len(ctx.state), ctx.datalen, Len(feed))
  BY <1>1 DEF IInv
<1>3. h = Sha256(Message)
  BY <1>1, <1>2, TakingEnds
<1>4. IsCtx(c)
  BY <1>2, FinalIsCtx
<1> HIDE DEF c, h
<1>5. Message = k_ipad \o req.data
  BY <1>1 DEF Message
<1>6. Message' = feed'
  BY <1>1, <1>3, <1>5 DEF Message
<1>7. IsSeq(h, HashSize)
  BY <1>3, Sha256Seq
<1>8. Joins(k_opad, BlockSize, h, HashSize, feed')
  BY <1>1, <1>7, KeyPadSeq, SeqCat
<1>9. PICK t : IsSeq(feed', t)
  BY <1>8 DEF Joins
<1>10. IsCtx(ctx') /\ Taking(ctx', feed', feed', 0, 0, t)
  BY <1>1, <1>4, <1>9, TakingStarts
<1>11. Taking(ctx', Message', feed', Len(ctx'.state), ctx'.datalen, Len(feed'))
  BY <1>6, <1>10, TakingSizes
<1> QED
  BY <1>1, <1>2, <1>10, <1>11 DEF IInv, AnswersHmac

\* The outer digest, truncated, is the signature.
LEMMA FinalOuterHmac ==
  ASSUME IInv, FinalOuter
  PROVE  IInv'
<1> DEFINE signature == Truncated(HashBytes(sha256_final(ctx)))
<1>1. /\ pc = "outer" /\ feed = <<>> /\ ctx' = sha256_final(ctx)
      /\ result' = IF req.op = "sign" THEN signature ELSE <<signature = req.sig>>
      /\ pc' = "idle" /\ req' = req /\ feed' = feed
  BY DEF FinalOuter
<1>2. /\ IsCtx(ctx)
      /\ Taking(ctx, Message, feed, Len(ctx.state), ctx.datalen, Len(feed))
  BY <1>1 DEF IInv
<1>3. HashBytes(sha256_final(ctx)) = Sha256(Message)
  BY <1>1, <1>2, TakingEnds
<1>4. Message = k_opad \o Sha256(k_ipad \o req.data)
  BY <1>1 DEF Message
<1>5. signature = Signature(req.data)
  BY <1>3, <1>4 DEF Signature, Hmac
<1> HIDE DEF signature
<1>6. IsCtx(ctx')
  BY <1>1, <1>2, FinalIsCtx
<1>7. req.op = "sign" => result' = Signature(req.data)
  BY <1>1, <1>5
<1>8. req.op = "verify" => result' = <<req.sig = Signature(req.data)>>
  <2> SUFFICES ASSUME req.op = "verify"
               PROVE  result' = <<req.sig = Signature(req.data)>>
    OBVIOUS
  <2>1. result' = <<signature = req.sig>>
    BY <1>1
  <2>2. (signature = req.sig) = (req.sig = Signature(req.data))
    BY <1>5
  <2> QED
    BY <2>1, <2>2
<1>9. Signature(req.data)' = Signature(req.data)
  BY <1>1
<1> QED
  BY <1>1, <1>6, <1>7, <1>8, <1>9 DEF IInv, AnswersHmac

LEMMA NextHmac == IInv /\ [Next]_vars => IInv'
<1> SUFFICES ASSUME IInv, [Next]_vars PROVE IInv'
  OBVIOUS
<1>1. CASE Sign
  <2>1. PICK d \in Data : Begin([op |-> "sign", data |-> d])
    BY <1>1 DEF Sign
  <2>2. IsSeq(d, Len(d)) /\ [op |-> "sign", data |-> d].data = d
    BY DataSeq
  <2> QED
    BY <2>1, <2>2, BeginHmac
<1>2. CASE \E d \in Data : Verify(Signature(d))
  <2>1. PICK s : Verify(s)
    BY <1>2
  <2>2. PICK d \in Data : Begin([op |-> "verify", data |-> d, sig |-> s])
    BY <2>1 DEF Verify
  <2>3. IsSeq(d, Len(d)) /\ [op |-> "verify", data |-> d, sig |-> s].data = d
    BY DataSeq
  <2> QED
    BY <2>2, <2>3, BeginHmac
<1>3. CASE sha256_update
  BY <1>3, UpdateHmac
<1>4. CASE FinalInner
  BY <1>4, FinalInnerHmac
<1>5. CASE FinalOuter
  BY <1>5, FinalOuterHmac
<1>6. CASE UNCHANGED vars
  BY <1>6 DEF vars, IInv, AnswersHmac, Message
<1> QED
  BY <1>1, <1>2, <1>3, <1>4, <1>5, <1>6 DEF Next
------------------------------------------------------------------------------
\* Between two bytes the context accounts for exactly the bytes of the message
\* that sha256_update has taken, in whole blocks and a rest with room for the
\* 0x80 of sha256_final, whatever the stack held before the call.
THEOREM AbsorbCorrect == Spec => []AbsorbedSoFar
<1>1. IInv => AbsorbedSoFar
  <2> SUFFICES ASSUME IInv, pc # "idle" PROVE AbsorbedSoFar
    BY DEF AbsorbedSoFar
  <2> DEFINE n == Len(ctx.state)
             r == ctx.datalen
             t == Len(feed)
             m == Message
  <2>1. Taking(ctx, m, feed, n, r, t)
    BY DEF IInv
  <2> HIDE DEF n, r, t, m
  <2>2. /\ n \in Nat /\ r \in 0..(BlockSize - 1) /\ ctx.bitlen = 8 * Before(n)
        /\ IsSeq(ctx.state, n) /\ \A j \in 1..n : ctx.state[j] = Block(m, j)
        /\ \A k \in 1..r : ctx.data[k] = m[Before(n) + k]
    BY <2>1 DEF Taking, Holds, AreBlocks
  <2>3. /\ IsSeq(feed, t) /\ \A k \in 1..t : feed[k] = m[Before(n) + r + k]
        /\ IsSeq(m, Before(n) + r + t)
    BY <2>1 DEF Taking
  <2>4. Len(m) = Before(n) + r + t
    BY <2>3, SeqLen
  <2>5. ctx.state = [j \in 1..n |-> Block(m, j)]
    BY <2>2 DEF IsSeq
  <2>6. feed = [k \in 1..t |-> m[Before(n) + r + k]]
    BY <2>3 DEF IsSeq
  <2> QED
    BY <2>2, <2>4, <2>5, <2>6 DEF AbsorbedSoFar, Before, n, r, t, m
<1> QED
  BY <1>1, InitHmac, NextHmac, PTL DEF Spec

\* crypto_api_sign_data answers the truncated HMAC-SHA256 of its argument, and
\* crypto_api_verify_signature whether the signature is that one: the buffer, the
\* counter and the two ways of padding compute what FIPS 180-4 and RFC 2104
\* define, for data of every length.
THEOREM HmacCorrect == Spec => []AnswersHmac
<1>1. IInv => AnswersHmac
  BY DEF IInv
<1> QED
  BY <1>1, InitHmac, NextHmac, PTL DEF Spec
==============================================================================

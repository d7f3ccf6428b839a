-------------------------------- MODULE Hmac --------------------------------
(***************************************************************************)
(* The fTPM's HMAC-SHA256: block buffer, padding, length field, the inner  *)
(* and the outer hash, and the two calls made of them.                     *)
(*                                                                         *)
(* The compression function is free: a hash state is the sequence of the   *)
(* blocks compressed since sha256_init, and a byte is a pair of a number   *)
(* and a hash state, <<>> for a plain byte, the digest it is part of for a *)
(* byte of a digest.                                                       *)
(***************************************************************************)
EXTENDS Word32

CONSTANTS
  BlockSize,   \* bytes of a block (64)
  LengthSize,  \* bytes of the length field (8)
  HashSize,    \* bytes of a digest (32)
  SigSize,     \* bytes of a signature (4)
  Key,         \* tpm_secret_key (32 bytes)
  Data,        \* what is signed (the 4 bytes of a uint32_t)
  Garbage      \* contents of an uninitialised SHA256_CTX

ASSUME HmacAssumption ==
  /\ {BlockSize, LengthSize, HashSize} \subseteq Nat
  /\ 0 < LengthSize /\ LengthSize < BlockSize
  /\ \A d \in Data : Len(d) \in Nat /\ d = [k \in 1..Len(d) |-> d[k]]
  /\ \A c \in Garbage :
       c = [data    |-> [k \in 1..BlockSize |-> c.data[k]],
            datalen |-> c.datalen, bitlen |-> c.bitlen, state |-> c.state]

Plain(b) == <<b, <<>>>>
Room     == BlockSize - LengthSize    \* 56

VARIABLES ctx,     \* the SHA256_CTX on the stack
          pc,      \* which of the two hashes is under way
          feed,    \* bytes that sha256_update has yet to absorb
          req,     \* the call being served
          result   \* what it returned
vars == <<ctx, pc, feed, req, result>>
------------------------------------------------------------------------------
(* SHA-256, as functions of the context.                                   *)

sha256_transform(c) == [c EXCEPT !.state = Append(@, c.data)]

sha256_init(c) == [c EXCEPT !.datalen = 0, !.bitlen = 0, !.state = <<>>]

\* Mutant: the block is not counted.
UpdateUncounted(c, b) ==
  LET d == [c EXCEPT !.data[c.datalen + 1] = b, !.datalen = @ + 1]
  IN  IF d.datalen = BlockSize
      THEN [sha256_transform(d) EXCEPT !.datalen = 0]
      ELSE d

\* One turn of the loop of sha256_update.
UpdateByte(c, b) ==
  LET d == [c EXCEPT !.data[c.datalen + 1] = b, !.datalen = @ + 1]
  IN  IF d.datalen = BlockSize
      THEN [sha256_transform(d) EXCEPT !.bitlen = @ + 8 * BlockSize,
                                       !.datalen = 0]
      ELSE d

\* memset(ctx->data + from, 0, to - from).
Clear(c, from, to) ==
  [c EXCEPT !.data = [k \in 1..BlockSize |-> IF k \in (from + 1)..to THEN Plain(0)
                                             ELSE c.data[k]]]

\* The byte of n that e less significant ones follow.
ByteOf(n, e) == Plain((n \div 256^e) % 256)

\* The last bytes of the block: n in LengthSize bytes, the most significant first.
PutLength(c, n) ==
  [c EXCEPT !.data = [k \in 1..BlockSize |->
                        IF k <= Room THEN c.data[k]
                        ELSE ByteOf(n, BlockSize - k)]]

\* Mutant: a block with no room for the length is taken for one that has.
PadTight(c) ==
  LET d == [c EXCEPT !.data[c.datalen + 1] = Plain(128)]
  IN  IF c.datalen <= Room THEN Clear(d, c.datalen + 1, Room)
      ELSE Clear(sha256_transform(Clear(d, c.datalen + 1, BlockSize)), 0, Room)

\* 0x80 and zeros, with a block of their own if the length would not fit.
Pad(c) ==
  LET d == [c EXCEPT !.data[c.datalen + 1] = Plain(128)]
  IN  IF c.datalen < Room THEN Clear(d, c.datalen + 1, Room)
      ELSE Clear(sha256_transform(Clear(d, c.datalen + 1, BlockSize)), 0, Room)

sha256_final(c) == sha256_transform(PutLength(Pad(c), c.bitlen + 8 * c.datalen))

\* The bytes hash[0..] of a context that sha256_final has left.
HashBytes(c) == [k \in 1..HashSize |-> <<k, c.state>>]
------------------------------------------------------------------------------
(* compute_hmac_sha256_trunc and the calls of the fTPM.                    *)

\* The key, xored into a block of the byte b.
KeyPad(b) == [k \in 1..BlockSize |-> Plain(IF k <= Len(Key) THEN XorHalf[b][Key[k]]
                                          ELSE b)]
k_ipad == KeyPad(\h36)
k_opad == KeyPad(\h5C)

Truncated(hash) == SubSeq(hash, 1, SigSize)

Init ==
  /\ ctx \in Garbage
  /\ pc = "idle"
  /\ feed = <<>>
  /\ req = [op |-> "none"]
  /\ result = <<>>

\* A call: ctx is whatever the stack holds, and is initialised.
Begin(r) ==
  /\ pc = "idle"
  /\ \E c \in Garbage \cup {ctx} : ctx' = sha256_init(c)
  /\ feed' = k_ipad \o r.data
  /\ req' = r
  /\ pc' = "inner"
  /\ UNCHANGED result

Sign == \E d \in Data : Begin([op |-> "sign", data |-> d])

\* A signature is checked that was made for the same data or for other data.
Verify(s) == \E d \in Data : Begin([op |-> "verify", data |-> d, sig |-> s])

sha256_update ==
  /\ feed # <<>>
  /\ ctx' = UpdateByte(ctx, Head(feed))
  /\ feed' = Tail(feed)
  /\ UNCHANGED <<pc, req, result>>

FinalInner ==
  /\ pc = "inner"
  /\ feed = <<>>
  /\ LET c == sha256_final(ctx)
     IN  /\ ctx' = sha256_init(c)
         /\ feed' = k_opad \o HashBytes(c)
  /\ pc' = "outer"
  /\ UNCHANGED <<req, result>>

\* The signature, or whether it is the one offered.
FinalOuter ==
  /\ pc = "outer"
  /\ feed = <<>>
  /\ ctx' = sha256_final(ctx)
  /\ LET signature == Truncated(HashBytes(ctx'))
     IN  result' = IF req.op = "sign" THEN signature ELSE <<signature = req.sig>>
  /\ pc' = "idle"
  /\ UNCHANGED <<feed, req>>
------------------------------------------------------------------------------
(* What FIPS 180-4 and RFC 2104 define.                                    *)

Padded(m) ==
  LET zeros == CHOOSE n \in 0..(BlockSize - 1) :
                 (Len(m) + 1 + n + LengthSize) % BlockSize = 0
  IN  m \o <<Plain(128)>> \o [k \in 1..zeros |-> Plain(0)]
        \o [k \in 1..LengthSize |-> ByteOf(8 * Len(m), LengthSize - k)]

Block(m, j) == [k \in 1..BlockSize |-> m[(j - 1) * BlockSize + k]]
Blocks(p)   == [j \in 1..(Len(p) \div BlockSize) |-> Block(p, j)]

Sha256(m) == [k \in 1..HashSize |-> <<k, Blocks(Padded(m))>>]

Hmac(d) == Sha256(k_opad \o Sha256(k_ipad \o d))

Signature(d) == Truncated(Hmac(d))
------------------------------------------------------------------------------
Next == \/ Sign
        \/ \E d \in Data : Verify(Signature(d))
        \/ sha256_update
        \/ FinalInner
        \/ FinalOuter

Spec == Init /\ [][Next]_vars

\* Message of the hash under way.
Message == IF pc = "inner" THEN k_ipad \o req.data
           ELSE k_opad \o Sha256(k_ipad \o req.data)

\* Between two bytes the context accounts for exactly the bytes absorbed:
\* whole blocks compressed and counted in bitlen, the rest at the start of the
\* buffer, whatever the uninitialised context or an earlier call left there. The
\* rest is never a whole block, so there is room for the 0x80 that sha256_final
\* stores without a check.
AbsorbedSoFar ==
  LET done == BlockSize * Len(ctx.state)
  IN  pc # "idle" =>
        /\ ctx.datalen \in 0..(BlockSize - 1)
        /\ ctx.bitlen = 8 * done
        /\ ctx.state = [j \in 1..Len(ctx.state) |-> Block(Message, j)]
        /\ \A k \in 1..ctx.datalen : ctx.data[k] = Message[done + k]
        /\ feed = [k \in 1..Len(feed) |-> Message[done + ctx.datalen + k]]
        /\ done + ctx.datalen + Len(feed) = Len(Message)

\* crypto_api_sign_data returns the truncated HMAC-SHA256 of its argument, at
\* every length around the point where the padding takes a block of its own, and
\* crypto_api_verify_signature accepts that signature and none made for other
\* data (up to collisions of the compression function).
AnswersHmac ==
  /\ pc = "idle" /\ req.op = "sign" => result = Signature(req.data)
  /\ pc = "idle" /\ req.op = "verify" => result = <<req.sig = Signature(req.data)>>
==============================================================================

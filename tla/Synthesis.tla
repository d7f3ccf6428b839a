------------------------------ MODULE Synthesis ------------------------------
(***************************************************************************)
(* The Generator's synthesis of one variant after another, and the Worker  *)
(* running what was synthesised: draws from the CSPRNG's keystream, junk   *)
(* instructions, a masked constant, the copy to gen_buf, and the bytes as  *)
(* the processor decodes them.                                             *)
(*                                                                         *)
(* A drawn word is any word: what matters here is which word of the        *)
(* keystream it is, named by its block and its index in the block.         *)
(***************************************************************************)
EXTENDS Word32

CONSTANTS
  BlockWords,  \* words of a ChaCha block (16)
  Counters,    \* values of the block counter chacha_state[12] (2^32)
  MinJunk,     \* fewest junk instructions (5)
  JunkSpan,    \* how many lengths of junk there are (25)
  PageSize,    \* bytes of the dataports that reach the Worker (4096)
  Words        \* words that the mask, and eax when the Worker calls, can be

MinSize == MinJunk + 13
MaxSize == 2 * (MinJunk + JunkSpan - 1) + 13

ASSUME SynthesisAssumption ==
  /\ {BlockWords, Counters, MinJunk, JunkSpan} \subseteq Nat \ {0}
  /\ PageSize \in Nat
  /\ PageSize >= MaxSize
  /\ Words \subseteq Word

VARIABLES
  is_csprng_ready,
  chacha_index,
  counter,    \* chacha_state[12]
  block,      \* the counter that chacha_stream was computed from
  served,     \* history: block and index of the last word drawn
  pc,         \* where the chain of calls is
  left,       \* junk instructions still to emit
  guest_ram,
  cursor,     \* bytes emitted so far
  gen_buf,
  arena,      \* the Worker's executable_arena
  ip, eax     \* the processor's, while the Worker runs the arena

rngVars == <<is_csprng_ready, chacha_index, counter, block, served>>
genVars == <<left, guest_ram, cursor, gen_buf>>
cpuVars == <<arena, ip, eax>>
vars    == <<rngVars, pc, genVars, cpuVars>>

Page == 1..PageSize

Init ==
  /\ is_csprng_ready = FALSE
  /\ chacha_index = BlockWords
  /\ counter = 0
  /\ block = 0
  /\ served = <<>>
  /\ pc = "idle"
  /\ left = 0
  /\ guest_ram = [k \in Page |-> 0]
  /\ cursor = 0
  /\ gen_buf = [k \in Page |-> 0]
  /\ arena = [k \in Page |-> 0]
  /\ ip = 0
  /\ eax = Zero
------------------------------------------------------------------------------
(* The CSPRNG.                                                             *)

\* The next word of the block in chacha_stream.
NextWord ==
  /\ chacha_index # BlockWords
  /\ chacha_index' = chacha_index + 1
  /\ UNCHANGED <<counter, block>>

\* Mutant: the counter does not move.
SameBlock(c) ==
  /\ chacha_index = BlockWords
  /\ block' = c
  /\ counter' = c
  /\ chacha_index' = 1

\* A new block, computed from counter c, and its first word.
NewBlock(c) ==
  /\ chacha_index = BlockWords
  /\ block' = c
  /\ counter' = (c + 1) % Counters
  /\ chacha_index' = 1

\* The first draw seeds the state, the counter included, with time stamps.
request_secure_random ==
  /\ is_csprng_ready' = TRUE
  /\ \/ NextWord
     \/ \E c \in IF is_csprng_ready THEN {counter} ELSE 0..(Counters - 1) :
          NewBlock(c)
  /\ served' = <<block', chacha_index' - 1>>
------------------------------------------------------------------------------
(* gen_api_request_generation.                                             *)

Junk == << <<\h90>>, <<\hFC>>, <<\hF8>>, <<\h87, \hC9>> >>

logic_payload == <<\hDEAD, \hBEEF>>

\* Mutant: the accumulator is not cleared first.
LogicNoClear(mask) ==
  <<\h90, \h90, \h05>> \o Bytes(mask)
    \o <<\h35>> \o Bytes(Xor(logic_payload, mask)) \o <<\hC3>>

\* Mutant: no return.
LogicNoReturn(mask) ==
  <<\h31, \hC0, \h05>> \o Bytes(mask)
    \o <<\h35>> \o Bytes(Xor(logic_payload, mask)) \o <<\h90>>

\* XOR EAX, EAX; ADD EAX, mask; XOR EAX, payload ^ mask; RET.
Logic(mask) ==
  <<\h31, \hC0, \h05>> \o Bytes(mask)
    \o <<\h35>> \o Bytes(Xor(logic_payload, mask)) \o <<\hC3>>

\* Store s at the cursor and move the cursor past it.
Emit(s) ==
  /\ guest_ram' = [k \in Page |-> IF k \in (cursor + 1)..(cursor + Len(s))
                                  THEN s[k - cursor] ELSE guest_ram[k]]
  /\ cursor' = cursor + Len(s)

Request ==
  /\ pc = "idle"
  /\ cursor' = 0
  /\ pc' = "length"
  /\ UNCHANGED <<rngVars, left, guest_ram, gen_buf, cpuVars>>

\* Mutant: one length too many.
DrawLengthMore ==
  /\ pc = "length"
  /\ request_secure_random
  /\ left' \in MinJunk..(MinJunk + JunkSpan)
  /\ pc' = "emit"
  /\ UNCHANGED <<guest_ram, cursor, gen_buf, cpuVars>>

DrawLength ==
  /\ pc = "length"
  /\ request_secure_random
  /\ left' \in MinJunk..(MinJunk + JunkSpan - 1)
  /\ pc' = "emit"
  /\ UNCHANGED <<guest_ram, cursor, gen_buf, cpuVars>>

EmitJunk ==
  /\ pc = "emit"
  /\ left > 0
  /\ request_secure_random
  /\ \E r \in 0..3 : Emit(Junk[r + 1])
  /\ left' = left - 1
  /\ UNCHANGED <<pc, gen_buf, cpuVars>>

EmitLogic ==
  /\ pc = "emit"
  /\ left = 0
  /\ request_secure_random
  /\ \E mask \in Words : Emit(Logic(mask))
  /\ pc' = "copy"
  /\ UNCHANGED <<left, gen_buf, cpuVars>>

total_size == cursor

\* Mutant: the last byte is not copied.
CopyShort ==
  /\ pc = "copy"
  /\ gen_buf' = [k \in Page |-> IF k < total_size THEN guest_ram[k]
                                ELSE gen_buf[k]]
  /\ pc' = "inject"
  /\ UNCHANGED <<rngVars, left, guest_ram, cursor, cpuVars>>

\* memcpy(gen_buf, guest_ram, total_size).
CopyToRepository ==
  /\ pc = "copy"
  /\ gen_buf' = [k \in Page |-> IF k <= total_size THEN guest_ram[k]
                                ELSE gen_buf[k]]
  /\ pc' = "inject"
  /\ UNCHANGED <<rngVars, left, guest_ram, cursor, cpuVars>>
------------------------------------------------------------------------------
(* The Dispatcher copies the page to the arena and the Worker calls it.    *)

Inject ==
  /\ pc = "inject"
  /\ arena' = guest_ram
  /\ pc' = "call"
  /\ UNCHANGED <<rngVars, genVars, ip, eax>>

\* jit_task(): eax holds whatever the caller left there.
CallArena ==
  /\ pc = "call"
  /\ ip' = 0
  /\ eax' \in Words
  /\ pc' = "run"
  /\ UNCHANGED <<rngVars, genVars, arena>>

\* The bytes at ip are s.
AtIp(s)   == /\ ip + Len(s) <= PageSize
             /\ \A k \in 1..Len(s) : arena[ip + k] = s[k]
Imm32     == FromBytes([k \in 1..4 |-> arena[ip + 1 + k]])
Fetches(n) == ip + n <= PageSize

Execute(n, acc) ==
  /\ ip' = ip + n
  /\ eax' = acc
  /\ UNCHANGED <<rngVars, pc, genVars, arena>>

\* NOP, CLD, CLC and XCHG ECX, ECX leave eax alone.
ExecJunk == \E r \in 1..4 : AtIp(Junk[r]) /\ Execute(Len(Junk[r]), eax)
ExecClear == AtIp(<<\h31, \hC0>>) /\ Execute(2, Zero)
ExecAdd  == AtIp(<<\h05>>) /\ Fetches(5) /\ Execute(5, Add(eax, Imm32))
ExecXor  == AtIp(<<\h35>>) /\ Fetches(5) /\ Execute(5, Xor(eax, Imm32))

Step == pc = "run" /\ (ExecJunk \/ ExecClear \/ ExecAdd \/ ExecXor)

\* The value of eax is what ctrl_api_cmd returns.
Return ==
  /\ pc = "run"
  /\ AtIp(<<\hC3>>)
  /\ pc' = "idle"
  /\ ip' = ip + 1
  /\ UNCHANGED <<rngVars, genVars, arena, eax>>

Next == \/ Request \/ DrawLength \/ EmitJunk \/ EmitLogic
        \/ CopyToRepository \/ Inject \/ CallArena \/ Step \/ Return

Spec == Init /\ [][Next]_vars
------------------------------------------------------------------------------
\* The word of the keystream that follows the one at w.
Following(w) == IF w[2] + 1 < BlockWords THEN <<w[1], w[2] + 1>>
                ELSE <<(w[1] + 1) % Counters, 0>>

\* request_secure_random serves the keystream in order, from its seed on: no
\* word twice before the counter wraps, none skipped, none before its block was
\* computed, wherever in a request a block runs out.
KeystreamInOrder ==
  [][(pc \in {"length", "emit"} /\ served # <<>>)
       => served' = Following(served)]_vars

\* The size depends on the draws, since one junk instruction is two bytes long,
\* but only between 18 and 71 bytes; so the bytes stay on the page.
SizeInBounds ==
  pc \in {"copy", "inject", "call", "run"} => total_size \in MinSize..MaxSize

\* Although only total_size bytes are copied, gen_buf and guest_ram are the same
\* on the whole page whenever the Repository and the Dispatcher hash them, what
\* earlier and longer variants left behind included.
BuffersAgree == pc \in {"inject", "call", "run", "idle"} => gen_buf = guest_ram

\* Whatever the junk, the mask (its bytes may look like instructions) and eax at
\* the call, the variant returns the payload, from its last byte.
ReturnsPayload ==
  pc = "run" /\ AtIp(<<\hC3>>) => eax = logic_payload /\ ip + 1 = total_size

\* Bytes of the instruction at ip; 0 if it is none of the Generator's.
OpLength == CASE arena[ip + 1] \in {\h90, \hFC, \hF8, \hC3} -> 1
              [] arena[ip + 1] \in {\h31, \h87} -> 2
              [] arena[ip + 1] \in {\h05, \h35} -> 5
              [] OTHER -> 0

\* The processor decodes the variant as it was emitted: it meets no undefined
\* instruction and does not run into the tail of an older, longer variant.
StaysInVariant ==
  pc = "run" => OpLength > 0 /\ ip + OpLength <= total_size
==============================================================================

------------------------- MODULE MutationCycleProofs -------------------------
(* Proofs about MutationCycle for every page size, every set of variants    *)
(* and every hash and MAC.                                                  *)
EXTENDS MutationCycle, TLAPS

\* A variant id survives the trip through the metadata's uint32_t.
LEMMA IdRoundTrip ==
  ASSUME NEW i \in IntRange
  PROVE  ToUint32(i) \in Uint32Range /\ ToInt(ToUint32(i)) = i
BY IntMaxAssumption DEF WordSize, IntRange, Uint32Range, ToUint32, ToInt

\* Incrementing a C int wraps within the type.
LEMMA WrapType ==
  ASSUME NEW i \in IntRange
  PROVE  Wrap(i + 1) \in IntRange
BY IntMaxAssumption DEF WordSize, IntRange, Wrap

\* The hash of a prefix of a dataport is a digest.
LEMMA PrefixHash ==
  ASSUME NEW mem \in [Page -> Byte], NEW n \in 0..PageSize
  PROVE  Hash(Prefix(mem, n)) \in Digest
<1>1. Prefix(mem, n) \in [1..n -> Byte]
  BY Parameters DEF Prefix, Page, SizeAssumption
<1>2. QED
  BY <1>1, Parameters DEF DigestAssumption

\* Writing a byte string over the start of a dataport: the dataport stays one,
\* and starts with the string.
LEMMA OverwriteType ==
  ASSUME NEW mem \in [Page -> Byte], NEW n \in Page, NEW s \in [1..n -> Byte]
  PROVE  /\ Overwrite(mem, s, n) \in [Page -> Byte]
         /\ Prefix(Overwrite(mem, s, n), n) = s
<1>1. \A i \in Page : i <= n => s[i] \in Byte
  BY Parameters DEF Page, SizeAssumption
<1>2. Overwrite(mem, s, n) \in [Page -> Byte]
  BY <1>1 DEF Overwrite
<1>3. \A i \in 1..n : Overwrite(mem, s, n)[i] = s[i]
  BY Parameters DEF Overwrite, Page, SizeAssumption
<1> QED
  BY <1>2, <1>3 DEF Prefix

\* A variant fits in the page.
LEMMA SizeOfVariant ==
  ASSUME variant \in Codes \cup {<<>>}
  PROVE  total_size \in 0..PageSize
<1>1. CASE variant \in Codes
  BY <1>1, Parameters DEF total_size, CodeAssumption, SizeAssumption, Page
<1>2. CASE variant = <<>>
  BY <1>2, Parameters DEF total_size, SizeAssumption
<1> QED
  BY <1>1, <1>2

LEMMA InitType == Init => TypeOK
<1> SUFFICES ASSUME Init
             PROVE  TypeOK
  OBVIOUS
<1> USE DEF Init
<1>1. /\ PageSize \in Nat \ {0}
      /\ IntMax \in Nat \ {0}
      /\ MaxFaults \in Nat
      /\ 0 \in Byte
      /\ 0 \in Digest
  BY Parameters, IntMaxAssumption, Zenon DEF SizeAssumption, CodeAssumption,
    DigestAssumption
<1>2. pc \in Labels
  BY DEF Labels
<1>3. Zeroed \in [Page -> Byte]
  BY <1>1 DEF Zeroed
<1>4. 0 \in IntRange /\ 0 \in Uint32Range /\ 0 \in 0..PageSize
      /\ 0 \in 0..MaxFaults
  BY <1>1 DEF IntRange, Uint32Range, WordSize
<1> QED
  BY <1>1, <1>2, <1>3, <1>4, ZenonT(30) DEF TypeOK

LEMMA NextType == TypeOK /\ [Next]_vars => TypeOK'
<1> SUFFICES ASSUME TypeOK, [Next]_vars
             PROVE  TypeOK'
  OBVIOUS
<1> USE DEF TypeOK, Labels
<1>1. CASE AdminStatus
  BY <1>1, Zenon DEF AdminStatus, Call, dispVars, tpmVars, memVars, auxVars
<1>2. CASE AdminMutate
  BY <1>2, Parameters DEF AdminMutate, Call, dispVars, tpmVars, memVars,
    auxVars
<1>3. CASE admin_api_print_status
  BY <1>3, Parameters, Zenon DEF admin_api_print_status, Reply, dispVars,
    tpmVars, memVars, auxVars
<1>4. CASE DispRequestGeneration
  <2>1. next_id' \in IntRange
    BY <1>4, WrapType DEF DispRequestGeneration
  <2> QED
    BY <1>4, <2>1, ZenonT(30) DEF DispRequestGeneration, Call, memVars, tpmVars
<1>5. CASE DispReadMeta
  BY <1>5, Parameters, Zenon DEF DispReadMeta, Goto, ToInt, tpmVars, memVars,
    auxVars
<1>6. CASE DispHash
  <2>1. tpm_req' \in [hash : Digest, sig : Digest]
    BY <1>6, PrefixHash DEF DispHash
  <2>2. copied' \in 0..PageSize
    BY <1>6, Parameters DEF DispHash, SizeAssumption
  <2> QED
    BY <1>6, <2>1, <2>2, Zenon DEF DispHash, Call, memVars, auxVars
<1>7. CASE DispCopyByte
  <2>1. copied + 1 \in Page /\ copied' \in 0..PageSize
    BY <1>7, Parameters DEF DispCopyByte, SizeAssumption, Page
  <2>2. worker_arena' \in [Page -> Byte]
    BY <1>7, <2>1 DEF DispCopyByte
  <2> QED
    BY <1>7, <2>1, <2>2 DEF DispCopyByte, tpmVars, auxVars
<1>8. CASE DispCommitSwap
  <2>1. total_mutations_count' \in IntRange
    BY <1>8, WrapType DEF DispCommitSwap
  <2> QED
    BY <1>8, <2>1, Zenon DEF DispCommitSwap, Goto, memVars, tpmVars
<1>9. CASE DispExecute
  BY <1>9, Parameters, Zenon DEF DispExecute, Call, dispVars, tpmVars, memVars,
    auxVars
<1>10. CASE DispReply
  BY <1>10, Parameters, Zenon DEF DispReply, Reply, dispVars, tpmVars, memVars,
    auxVars
<1>11. CASE GenEmit
  <2>1. PICK c \in Codes : /\ variant' = c
                           /\ guest_ram' = Overwrite(guest_ram, c, Len(c))
    BY <1>11 DEF GenEmit
  <2>2. Len(c) \in Page /\ c \in [1..Len(c) -> Byte]
    BY Parameters DEF CodeAssumption
  <2>3. guest_ram' \in [Page -> Byte]
    BY <2>1, <2>2, OverwriteType
  <2> QED
    BY <1>11, <2>1, <2>3, Zenon DEF GenEmit, Goto, dispVars, tpmVars, auxVars
<1>12. CASE GenCopy
  <2>1. gen_buf' \in [Page -> Byte]
    BY <1>12, Zenon DEF GenCopy, Overwrite
  <2> QED
    BY <1>12, <2>1, Zenon DEF GenCopy, Goto, dispVars, tpmVars, auxVars
<1>13. CASE GenAddVariant
  BY <1>13, Parameters, Zenon DEF GenAddVariant, Call, dispVars, tpmVars,
    memVars, auxVars
<1>14. CASE GenReturn
  BY <1>14, Parameters DEF GenReturn, Reply, dispVars, tpmVars, memVars,
    auxVars
<1>15. CASE RepoHash
  <2>1. total_size \in 0..PageSize
    BY SizeOfVariant
  <2>2. tpm_req' \in [hash : Digest, sig : Digest]
    BY <1>15, <2>1, PrefixHash, Parameters, Zenon DEF RepoHash,
      DigestAssumption
  <2> QED
    BY <1>15, <2>2, Zenon DEF RepoHash, Call, dispVars, memVars, auxVars
<1>16. CASE RepoCommit
  <2>1. total_size \in 0..PageSize
    BY SizeOfVariant
  <2>2. secure_storage' \in [vid : Uint32Range, size : 0..PageSize, sig : Digest]
    BY <1>16, <2>1, IdRoundTrip DEF RepoCommit
  <2> QED
    BY <1>16, <2>2 DEF RepoCommit, Reply, dispVars, tpmVars, auxVars
<1>17. CASE crypto_api_sign_data
  <2>1. repo_sig' \in Digest
    BY <1>17, Parameters, Zenon DEF crypto_api_sign_data, DigestAssumption
  <2> QED
    BY <1>17, <2>1 DEF crypto_api_sign_data, Reply, dispVars, memVars, auxVars
<1>18. CASE crypto_api_verify_signature
  BY <1>18, Parameters, Zenon DEF crypto_api_verify_signature, Reply, dispVars,
    tpmVars, memVars, auxVars
<1>19. CASE WorkerRuns
  BY <1>19, Parameters DEF WorkerRuns, Reply, dispVars, tpmVars, memVars,
    auxVars
<1>20. CASE WorkerFaults
  BY <1>20, Parameters, ZenonT(30) DEF WorkerFaults, Goto, Runnable,
    dispVars, tpmVars, memVars, auxVars
<1>21. CASE TransitFault
  <2>1. faults' \in 0..MaxFaults
    BY <1>21, Parameters DEF TransitFault, SizeAssumption
  <2>2. guest_ram' \in [Page -> Byte] /\ gen_buf' \in [Page -> Byte]
    BY <1>21 DEF TransitFault
  <2> QED
    BY <1>21, <2>1, <2>2 DEF TransitFault, dispVars, tpmVars
<1>22. CASE UNCHANGED vars
  BY <1>22 DEF vars, dispVars, tpmVars, memVars, auxVars
<1> QED
  BY <1>1, <1>2, <1>3, <1>4, <1>5, <1>6, <1>7, <1>8, <1>9, <1>10, <1>11,
    <1>12, <1>13, <1>14, <1>15, <1>16, <1>17, <1>18, <1>19, <1>20, <1>21,
    <1>22, ZenonT(30)
    DEF Next, Admin, Dispatcher, Generator, Repository, Tpm, Worker

\* Every variable of the running system keeps to its C type.
THEOREM TypeCorrect == Spec => []TypeOK
BY InitType, NextType, PTL DEF Spec
------------------------------------------------------------------------------
LEMMA NextChain == TypeOK /\ CallChain /\ [Next]_vars => CallChain'
<1> SUFFICES ASSUME TypeOK, CallChain, [Next]_vars
             PROVE  CallChain'
  OBVIOUS
<1>1. pc \in Labels
  BY DEF TypeOK
<1> USE <1>1 DEF CallChain, Labels
<1>2. CASE Admin
  BY <1>2 DEF Admin, AdminStatus, AdminMutate, Call
<1>3. CASE Dispatcher
  BY <1>3 DEF Dispatcher, admin_api_print_status, DispRequestGeneration,
    DispReadMeta, DispHash, DispCopyByte, DispCommitSwap, DispExecute,
    DispReply, Call, Reply, Goto
<1>4. CASE Generator
  BY <1>4, Zenon DEF Generator, GenEmit, GenCopy, GenAddVariant, GenReturn,
    Call, Reply, Goto
<1>5. CASE Repository
  BY <1>5 DEF Repository, RepoHash, RepoCommit, Call, Reply
<1>6. CASE Tpm
  BY <1>6 DEF Tpm, crypto_api_sign_data, crypto_api_verify_signature, Reply
<1>7. CASE Worker
  BY <1>7, Zenon DEF Worker, WorkerRuns, WorkerFaults, Reply, Goto
<1>8. CASE TransitFault
  BY <1>8 DEF TransitFault
<1>9. CASE UNCHANGED vars
  BY <1>9 DEF vars
<1> QED
  BY <1>2, <1>3, <1>4, <1>5, <1>6, <1>7, <1>8, <1>9 DEF Next

\* No two components are ever active in the same transaction: each server
\* works exactly while its caller waits.
THEOREM ChainCorrect == Spec => []CallChain
<1>1. Init => CallChain
  BY DEF Init, CallChain
<1> QED
  BY <1>1, NextChain, TypeCorrect, PTL DEF Spec
------------------------------------------------------------------------------
\* Who writes the arena and guest_ram: the Dispatcher's memcpy the one, the
\* Generator (or a fault in transit) the other.
LEMMA Writers ==
  ASSUME [Next]_vars
  PROVE  /\ DispCopyByte \/ worker_arena' = worker_arena
         /\ GenEmit \/ TransitFault \/ guest_ram' = guest_ram
<1>1. CASE Admin
  BY <1>1, Zenon DEF Admin, AdminStatus, AdminMutate, memVars
<1>2. CASE Dispatcher
  BY <1>2, Zenon DEF Dispatcher, admin_api_print_status, DispRequestGeneration,
    DispReadMeta, DispHash, DispCopyByte, DispCommitSwap, DispExecute,
    DispReply, memVars
<1>3. CASE Generator
  BY <1>3, Zenon DEF Generator, GenEmit, GenCopy, GenAddVariant, GenReturn,
    memVars
<1>4. CASE Repository
  BY <1>4, Zenon DEF Repository, RepoHash, RepoCommit, memVars
<1>5. CASE Tpm
  BY <1>5, Zenon DEF Tpm, crypto_api_sign_data, crypto_api_verify_signature,
    memVars
<1>6. CASE Worker
  BY <1>6, Zenon DEF Worker, WorkerRuns, WorkerFaults, memVars
<1>7. CASE TransitFault
  BY <1>7 DEF TransitFault
<1>8. CASE UNCHANGED vars
  BY <1>8, Zenon DEF vars, memVars
<1> QED
  BY <1>1, <1>2, <1>3, <1>4, <1>5, <1>6, <1>7, <1>8 DEF Next

\* The arena is written only while the Worker is idle.
THEOREM ArenaStable == Spec => ArenaStableWhileExecuting
<1>1. CallChain /\ [Next]_vars =>
        [pc.worker # "recv" => worker_arena' = worker_arena]_vars
  BY Writers, Zenon DEF CallChain, DispCopyByte
<1> QED
  BY <1>1, ChainCorrect, PTL DEF Spec, ArenaStableWhileExecuting

\* guest_ram does not change between the check and the end of the copy.
THEOREM CheckedCopy == Spec => CheckedIsCopied
<1>1. CallChain /\ [Next]_vars =>
        [pc.disp \in {"tpmWait", "copy"} => guest_ram' = guest_ram]_vars
  BY Writers, Zenon DEF CallChain, GenEmit, TransitFault, InTransit
<1> QED
  BY <1>1, ChainCorrect, PTL DEF Spec, CheckedIsCopied
------------------------------------------------------------------------------
\* The strengthening of ActiveMatchesCount: from the request on, the id of the
\* transaction is the count it will have once it is committed.
IdInv ==
  /\ ActiveMatchesCount
  /\ pc.disp \in {"genWait", "readMeta", "hash", "tpmWait", "copy"} =>
        next_id = Wrap(total_mutations_count + 1)

LEMMA NextId == TypeOK /\ CallChain /\ IdInv /\ [Next]_vars => IdInv'
<1>0. SUFFICES ASSUME TypeOK, CallChain, IdInv, [Next]_vars
               PROVE  IdInv'
  OBVIOUS
<1>1. pc \in Labels /\ CallChain /\ IdInv
  BY <1>0, Zenon DEF TypeOK
<1> USE <1>1 DEF Labels, CallChain, IdInv, ActiveMatchesCount
<1>2. CASE AdminStatus
  BY <1>2, Zenon DEF AdminStatus, Call, dispVars, tpmVars, memVars, auxVars
<1>3. CASE AdminMutate
  BY <1>3, Zenon DEF AdminMutate, Call, dispVars, tpmVars, memVars, auxVars
<1>4. CASE admin_api_print_status
  BY <1>4, Zenon DEF admin_api_print_status, Reply, dispVars, tpmVars, memVars,
    auxVars
<1>5. CASE DispRequestGeneration
  BY <1>5, Zenon DEF DispRequestGeneration, Call, tpmVars, memVars
<1>6. CASE DispReadMeta
  BY <1>6, Zenon DEF DispReadMeta, Goto, tpmVars, memVars, auxVars
<1>7. CASE DispHash
  BY <1>7, Zenon DEF DispHash, Call, memVars, auxVars
<1>8. CASE DispCopyByte
  BY <1>8, Zenon DEF DispCopyByte, tpmVars, auxVars
<1>9. CASE DispCommitSwap
  BY <1>9, Zenon DEF DispCommitSwap, Goto, tpmVars, memVars
<1>10. CASE DispExecute
  BY <1>10, Zenon DEF DispExecute, Call, dispVars, tpmVars, memVars, auxVars
<1>11. CASE DispReply
  BY <1>11, Zenon DEF DispReply, Reply, dispVars, tpmVars, memVars, auxVars
<1>12. CASE GenEmit
  BY <1>12, Zenon DEF GenEmit, Goto, dispVars, tpmVars, auxVars
<1>13. CASE GenCopy
  BY <1>13, Zenon DEF GenCopy, Goto, dispVars, tpmVars, auxVars
<1>14. CASE GenAddVariant
  BY <1>14, Zenon DEF GenAddVariant, Call, dispVars, tpmVars, memVars, auxVars
<1>15. CASE GenReturn
  BY <1>15, Zenon DEF GenReturn, Reply, dispVars, tpmVars, memVars, auxVars
<1>16. CASE RepoHash
  BY <1>16, Zenon DEF RepoHash, Call, dispVars, memVars, auxVars
<1>17. CASE RepoCommit
  BY <1>17, Zenon DEF RepoCommit, Reply, dispVars, tpmVars, auxVars
<1>18. CASE crypto_api_sign_data
  BY <1>18, Zenon DEF crypto_api_sign_data, Reply, dispVars, memVars, auxVars
<1>19. CASE crypto_api_verify_signature
  BY <1>19, Zenon DEF crypto_api_verify_signature, Reply, dispVars, tpmVars,
    memVars, auxVars
<1>20. CASE WorkerRuns
  BY <1>20, Zenon DEF WorkerRuns, Reply, dispVars, tpmVars, memVars, auxVars
<1>21. CASE WorkerFaults
  BY <1>21, Zenon DEF WorkerFaults, Goto, dispVars, tpmVars, memVars, auxVars
<1>22. CASE TransitFault
  BY <1>22, Zenon DEF TransitFault, InTransit, dispVars, tpmVars
<1>23. CASE UNCHANGED vars
  BY <1>23 DEF vars, dispVars, tpmVars, memVars, auxVars
<1> QED
  BY <1>0, <1>2, <1>3, <1>4, <1>5, <1>6, <1>7, <1>8, <1>9, <1>10, <1>11, <1>12,
    <1>13, <1>14, <1>15, <1>16, <1>17, <1>18, <1>19, <1>20, <1>21, <1>22,
    <1>23, ZenonT(30)
    DEF Next, Admin, Dispatcher, Generator, Repository, Tpm, Worker

\* The Dispatcher's telemetry is consistent: the active id is the swap count.
THEOREM CountCorrect == Spec => []ActiveMatchesCount
<1>1. Init => IdInv
  BY DEF Init, IdInv, ActiveMatchesCount
<1>2. IdInv => ActiveMatchesCount
  BY Zenon DEF IdInv
<1> QED
  BY <1>1, <1>2, NextId, TypeCorrect, ChainCorrect, PTL DEF Spec
------------------------------------------------------------------------------
(* The content of a transaction: what the bytes in transit are, when nothing *)
(* and when one thing spoils them.                                          *)

\* The strengthening of AttestedArena: the fTPM is asked about the bytes that
\* guest_ram holds, those are the bytes being copied, and what has been copied
\* so far is in the arena.
AttestInv ==
  /\ pc.disp = "tpmWait" =>
        /\ tpm_req = [hash |-> Hash(Prefix(guest_ram, local.size)),
                      sig  |-> local.sig]
        /\ copied = 0
  /\ pc.disp = "copy" =>
        /\ local.sig = Mac(Hash(Prefix(guest_ram, local.size)))
        /\ \A i \in 1..copied : worker_arena[i] = guest_ram[i]
  /\ AttestedArena

LEMMA NextAttest == TypeOK /\ CallChain /\ AttestInv /\ [Next]_vars => AttestInv'
<1>0. SUFFICES ASSUME TypeOK, CallChain, AttestInv, [Next]_vars
               PROVE  AttestInv'
  OBVIOUS
<1>1. pc \in Labels /\ CallChain /\ AttestInv
  BY <1>0, Zenon DEF TypeOK
<1> USE <1>1 DEF Labels, CallChain, AttestInv, AttestedArena, Installed
<1>2. CASE AdminStatus
  BY <1>2, Zenon DEF AdminStatus, Call, dispVars, tpmVars, memVars, auxVars
<1>3. CASE AdminMutate
  BY <1>3, Zenon DEF AdminMutate, Call, dispVars, tpmVars, memVars, auxVars
<1>4. CASE admin_api_print_status
  BY <1>4, Zenon DEF admin_api_print_status, Reply, dispVars, tpmVars, memVars,
    auxVars
<1>5. CASE DispRequestGeneration
  BY <1>5, Zenon DEF DispRequestGeneration, Call, tpmVars, memVars
<1>6. CASE DispReadMeta
  BY <1>6, Zenon DEF DispReadMeta, Goto, tpmVars, memVars, auxVars
<1>7. CASE DispHash
  BY <1>7, Zenon DEF DispHash, Call, memVars, auxVars
<1>8. CASE DispCopyByte
  <2>1. copied \in 0..PageSize /\ PageSize \in Nat /\ copied + 1 \in Page
    BY <1>0, <1>8, Parameters DEF TypeOK, DispCopyByte, SizeAssumption, Page
  <2>2. worker_arena \in [Page -> Byte]
    BY <1>0 DEF TypeOK
  <2>3. \A i \in 1..copied' : worker_arena'[i] = guest_ram[i]
    <3> SUFFICES ASSUME NEW i \in 1..(copied + 1)
                 PROVE  worker_arena'[i] = guest_ram[i]
      BY <1>8 DEF DispCopyByte
    <3>1. i \in Page /\ (i = copied + 1 \/ i \in 1..copied)
      BY <2>1 DEF Page
    <3> QED
      BY <1>8, <2>1, <2>2, <3>1 DEF DispCopyByte
  <2> QED
    BY <1>8, <2>3, Zenon DEF DispCopyByte, auxVars
<1>9. CASE DispCommitSwap
  <2>1. local.size \in 0..PageSize /\ PageSize \in Nat
    BY <1>0, Parameters, Zenon DEF TypeOK, SizeAssumption
  <2>2. \A i \in 1..local.size : worker_arena[i] = guest_ram[i]
    BY <1>9, <2>1 DEF DispCommitSwap
  <2>3. Prefix(worker_arena, local.size) = Prefix(guest_ram, local.size)
    BY <2>2 DEF Prefix
  <2> QED
    BY <1>9, <2>3, Zenon DEF DispCommitSwap, Goto, memVars
<1>10. CASE DispExecute
  BY <1>10, Zenon DEF DispExecute, Call, dispVars, tpmVars, memVars, auxVars
<1>11. CASE DispReply
  BY <1>11, Zenon DEF DispReply, Reply, dispVars, tpmVars, memVars, auxVars
<1>12. CASE GenEmit
  BY <1>12, Zenon DEF GenEmit, Goto, dispVars, tpmVars, auxVars
<1>13. CASE GenCopy
  BY <1>13, Zenon DEF GenCopy, Goto, dispVars, tpmVars, auxVars
<1>14. CASE GenAddVariant
  BY <1>14, Zenon DEF GenAddVariant, Call, dispVars, tpmVars, memVars, auxVars
<1>15. CASE GenReturn
  BY <1>15, Zenon DEF GenReturn, Reply, dispVars, tpmVars, memVars, auxVars
<1>16. CASE RepoHash
  BY <1>16, Zenon DEF RepoHash, Call, dispVars, memVars, auxVars
<1>17. CASE RepoCommit
  BY <1>17, Zenon DEF RepoCommit, Reply, dispVars, tpmVars, auxVars
<1>18. CASE crypto_api_sign_data
  BY <1>18, Zenon DEF crypto_api_sign_data, Reply, dispVars, memVars, auxVars
<1>19. CASE crypto_api_verify_signature
  BY <1>19 DEF crypto_api_verify_signature, Reply, dispVars, tpmVars,
    memVars, auxVars
<1>20. CASE WorkerRuns
  BY <1>20, Zenon DEF WorkerRuns, Reply, dispVars, tpmVars, memVars, auxVars
<1>21. CASE WorkerFaults
  BY <1>21, Zenon DEF WorkerFaults, Goto, dispVars, tpmVars, memVars, auxVars
<1>22. CASE TransitFault
  BY <1>22, Zenon DEF TransitFault, InTransit, dispVars, tpmVars
<1>23. CASE UNCHANGED vars
  BY <1>23, Zenon DEF vars, dispVars, tpmVars, memVars, auxVars
<1> QED
  BY <1>0, <1>2, <1>3, <1>4, <1>5, <1>6, <1>7, <1>8, <1>9, <1>10, <1>11, <1>12,
    <1>13, <1>14, <1>15, <1>16, <1>17, <1>18, <1>19, <1>20, <1>21, <1>22,
    <1>23, ZenonT(30)
    DEF Next, Admin, Dispatcher, Generator, Repository, Tpm, Worker

\* What the Worker's arena holds was signed: the theorem assumes nothing of the
\* hash, the MAC, the variants or the corruptions in transit.
THEOREM AttestedCorrect == Spec => []AttestedArena
<1>1. Init => AttestInv
  BY DEF Init, AttestInv, AttestedArena, Installed
<1>2. AttestInv => AttestedArena
  BY DEF AttestInv
<1> QED
  BY <1>1, <1>2, NextAttest, TypeCorrect, ChainCorrect, PTL DEF Spec
------------------------------------------------------------------------------
\* The strengthening of CleanTransactionInstalls, which also carries the proof
\* of InstalledIsSynthesised.  Intact: guest_ram holds the variant.  One fault
\* per transaction can spoil guest_ram or what gets signed, never both; with no
\* fault, both are right.
Intact == Prefix(guest_ram, total_size) = variant

Guarded(signed) == /\ Intact \/ signed
                   /\ ~tainted => Intact /\ signed

TransitInv ==
  /\ pc.gen = "copy" => Intact
  /\ pc.gen = "call" \/ pc.repo = "hash" =>
        Guarded(Prefix(gen_buf, total_size) = variant)
  /\ pc.repo = "tpmWait" => Guarded(tpm_req.hash = Hash(variant))
  /\ pc.repo = "commit" => Guarded(repo_sig = Mac(Hash(variant)))
  /\ pc.gen = "return" \/ pc.disp = "readMeta" =>
        /\ secure_storage.vid = ToUint32(next_id)
        /\ secure_storage.size = total_size
        /\ Guarded(secure_storage.sig = Mac(Hash(variant)))
  /\ pc.disp \in {"hash", "tpmWait"} =>
        Guarded(local.sig = Mac(Hash(variant)))
  /\ pc.disp \in {"hash", "tpmWait", "copy"} => local.size = total_size
  /\ CleanTransactionInstalls

\* The fTPM is asked about a clean variant with the signature it gave it.
LEMMA CleanIsSigned ==
  ASSUME AttestInv, TransitInv, pc.disp = "tpmWait", ~tainted
  PROVE  tpm_req.sig = Mac(tpm_req.hash)
<1>1. tpm_req = [hash |-> Hash(Prefix(guest_ram, local.size)),
                 sig  |-> local.sig]
  BY DEF AttestInv
<1>2. local.size = total_size /\ Guarded(local.sig = Mac(Hash(variant)))
  BY Zenon DEF TransitInv
<1> QED
  BY <1>1, <1>2, Zenon DEF Guarded, Intact

\* The steps that preserve TransitInv by themselves.
LEMMA TransitSteps ==
  ASSUME pc \in Labels, CallChain, TransitInv
  PROVE  (\/ Admin \/ admin_api_print_status \/ DispRequestGeneration
          \/ DispHash \/ DispCopyByte \/ DispCommitSwap \/ DispExecute
          \/ DispReply \/ GenAddVariant \/ GenReturn \/ Repository
          \/ crypto_api_sign_data \/ Worker \/ TransitFault
          \/ UNCHANGED vars)
         => TransitInv'
<1> USE DEF Labels, CallChain, TransitInv, CleanTransactionInstalls,
          Guarded, Intact, total_size
<1>1. ASSUME AdminStatus PROVE TransitInv'
  BY <1>1, Zenon DEF AdminStatus, Call, dispVars, tpmVars, memVars, auxVars
<1>2. ASSUME AdminMutate PROVE TransitInv'
  BY <1>2, Zenon DEF AdminMutate, Call, dispVars, tpmVars, memVars, auxVars
<1>3. ASSUME admin_api_print_status PROVE TransitInv'
  BY <1>3, Zenon DEF admin_api_print_status, Reply, dispVars, tpmVars, memVars,
    auxVars
<1>4. ASSUME DispRequestGeneration PROVE TransitInv'
  BY <1>4, Zenon DEF DispRequestGeneration, Call, tpmVars, memVars
<1>5. ASSUME DispHash PROVE TransitInv'
  BY <1>5, Zenon DEF DispHash, Call, memVars, auxVars
<1>6. ASSUME DispCopyByte PROVE TransitInv'
  BY <1>6, Zenon DEF DispCopyByte, tpmVars, auxVars
<1>7. ASSUME DispCommitSwap PROVE TransitInv'
  BY <1>7, Zenon DEF DispCommitSwap, Goto, tpmVars, memVars
<1>8. ASSUME DispExecute PROVE TransitInv'
  BY <1>8, Zenon DEF DispExecute, Call, dispVars, tpmVars, memVars, auxVars
<1>9. ASSUME DispReply PROVE TransitInv'
  BY <1>9, Zenon DEF DispReply, Reply, dispVars, tpmVars, memVars, auxVars
<1>10. ASSUME GenAddVariant PROVE TransitInv'
  BY <1>10, Zenon DEF GenAddVariant, Call, dispVars, tpmVars, memVars, auxVars
<1>11. ASSUME GenReturn PROVE TransitInv'
  BY <1>11, Zenon DEF GenReturn, Reply, dispVars, tpmVars, memVars, auxVars
<1>12. ASSUME RepoHash PROVE TransitInv'
  BY <1>12, Zenon DEF RepoHash, Call, dispVars, memVars, auxVars
<1>13. ASSUME RepoCommit PROVE TransitInv'
  BY <1>13, Zenon DEF RepoCommit, Reply, dispVars, tpmVars, auxVars
<1>14. ASSUME crypto_api_sign_data PROVE TransitInv'
  BY <1>14, Zenon DEF crypto_api_sign_data, Reply, dispVars, memVars, auxVars
<1>15. ASSUME WorkerRuns PROVE TransitInv'
  BY <1>15, Zenon DEF WorkerRuns, Reply, dispVars, tpmVars, memVars, auxVars
<1>16. ASSUME WorkerFaults PROVE TransitInv'
  BY <1>16, Zenon DEF WorkerFaults, Goto, dispVars, tpmVars, memVars, auxVars
<1>17. ASSUME TransitFault PROVE TransitInv'
  BY <1>17, ZenonT(30) DEF TransitFault, InTransit, dispVars, tpmVars
<1>18. ASSUME UNCHANGED vars PROVE TransitInv'
  BY <1>18, Zenon DEF vars, dispVars, tpmVars, memVars, auxVars
<1> QED
  BY <1>1, <1>2, <1>3, <1>4, <1>5, <1>6, <1>7, <1>8, <1>9, <1>10, <1>11,
    <1>12, <1>13, <1>14, <1>15, <1>16, <1>17, <1>18, Zenon
    DEF Admin, Repository, Worker

\* The commit of the variant's id brings the id the Dispatcher asked for.
LEMMA TransitReadMeta ==
  ASSUME TypeOK, CallChain, TransitInv, DispReadMeta
  PROVE  TransitInv'
<1>1. ToInt(secure_storage.vid) = next_id
  <2>1. next_id \in IntRange
    BY Zenon DEF TypeOK
  <2>2. secure_storage.vid = ToUint32(next_id)
    BY Zenon DEF DispReadMeta, TransitInv
  <2> QED
    BY <2>1, <2>2, IdRoundTrip
<1>2. /\ pc \in Labels /\ pc.disp = "readMeta"
      /\ pc' = [pc EXCEPT !.disp = "hash"]
      /\ local'.size = secure_storage.size /\ local'.sig = secure_storage.sig
      /\ UNCHANGED <<total_mutations_count, current_active_variant, next_id,
                     copied, variant, tpmVars, memVars, auxVars>>
  BY <1>1, Zenon DEF DispReadMeta, Goto, TypeOK
<1>3. /\ pc'.disp = "hash" /\ pc'.gen = pc.gen /\ pc'.repo = pc.repo
      /\ pc'.admin = pc.admin /\ pc'.tpm = pc.tpm /\ pc'.worker = pc.worker
  BY <1>2 DEF Labels
<1>4. /\ secure_storage.size = total_size
      /\ Guarded(secure_storage.sig = Mac(Hash(variant)))
  BY <1>2, Zenon DEF TransitInv
<1>5. total_size' = total_size
  BY <1>2 DEF total_size
<1>6. pc.gen # "return" /\ pc.disp # "exec"
  BY <1>2 DEF CallChain
<1> QED
  BY <1>2, <1>3, <1>4, <1>5, <1>6, Zenon DEF tpmVars, memVars, auxVars,
    TransitInv, CleanTransactionInstalls, Guarded, Intact

\* A variant is intact in guest_ram when it has been emitted.
LEMMA TransitEmit ==
  ASSUME TypeOK, CallChain, TransitInv, GenEmit
  PROVE  TransitInv'
<1>1. PICK c \in Codes : /\ variant' = c
                         /\ guest_ram' = Overwrite(guest_ram, c, Len(c))
  BY Zenon DEF GenEmit
<1>2. Len(c) \in Page /\ c \in [1..Len(c) -> Byte]
  BY Parameters, Zenon DEF CodeAssumption
<1>3. guest_ram \in [Page -> Byte]
  BY Zenon DEF TypeOK
<1>4. Prefix(guest_ram', Len(c)) = c
  BY <1>1, <1>2, <1>3, OverwriteType
<1>5. Intact'
  BY <1>1, <1>4, Zenon DEF Intact, total_size
<1>6. pc \in Labels
  BY Zenon DEF TypeOK
<1>7. CleanTransactionInstalls'
  BY <1>6, Zenon DEF GenEmit, Goto, dispVars, auxVars, Labels, TransitInv,
    CleanTransactionInstalls
<1>8. /\ pc' = [pc EXCEPT !.gen = "copy"]
      /\ pc.disp = "genWait"
      /\ pc.repo = "recv"
  BY <1>6, Zenon DEF GenEmit, Goto, CallChain, Labels
<1> QED
  BY <1>5, <1>6, <1>7, <1>8, Zenon DEF Labels, TransitInv

\* memcpy to the Repository's buffer carries the variant over.
LEMMA TransitCopy ==
  ASSUME TypeOK, CallChain, TransitInv, GenCopy
  PROVE  TransitInv'
<1>0. pc \in Labels /\ variant \in Codes \cup {<<>>}
  BY Zenon DEF TypeOK
<1>1. Len(variant) \in 0..PageSize /\ PageSize \in Nat
  BY <1>0, SizeOfVariant, Parameters, Zenon DEF total_size, SizeAssumption
<1>2. \A i \in 1..Len(variant) : gen_buf'[i] = guest_ram[i]
  <2>1. \A i \in 1..Len(variant) : i \in Page /\ i <= Len(variant)
    BY <1>1 DEF Page
  <2>2. gen_buf' = [i \in Page |-> IF i <= Len(variant) THEN guest_ram[i]
                                   ELSE gen_buf[i]]
    BY Zenon DEF GenCopy, Overwrite, total_size
  <2> QED
    BY <2>1, <2>2, Zenon
<1>3. Prefix(gen_buf', Len(variant)) = Prefix(guest_ram, Len(variant))
  BY <1>2 DEF Prefix
<1>4. variant' = variant /\ guest_ram' = guest_ram /\ tainted' = tainted
  BY Zenon DEF GenCopy, auxVars
<1>5. CleanTransactionInstalls'
  BY <1>0, Zenon DEF GenCopy, Goto, dispVars, auxVars, Labels, TransitInv,
    CleanTransactionInstalls
<1>6. Guarded(Prefix(gen_buf, total_size) = variant)'
  BY <1>3, <1>4, Zenon DEF GenCopy, TransitInv, Guarded, Intact, total_size
<1>7. /\ pc' = [pc EXCEPT !.gen = "call"]
      /\ pc.disp = "genWait"
      /\ pc.repo = "recv"
  BY <1>0, Zenon DEF GenCopy, Goto, CallChain, Labels
<1> QED
  BY <1>0, <1>5, <1>6, <1>7, Zenon DEF TransitInv, Labels

\* The fTPM accepts the signature of a clean transaction.
LEMMA TransitVerify ==
  ASSUME pc \in Labels, CallChain, AttestInv, TransitInv,
         crypto_api_verify_signature
  PROVE  TransitInv'
<1>1. ~tainted => tpm_req.sig = Mac(tpm_req.hash)
  BY CleanIsSigned, Zenon DEF crypto_api_verify_signature, CallChain
<1> QED
  BY <1>1, Zenon DEF crypto_api_verify_signature, Reply, dispVars, tpmVars,
    memVars, auxVars, Labels, CallChain, TransitInv, CleanTransactionInstalls,
    Guarded, Intact, total_size

LEMMA NextTransit ==
  TypeOK /\ CallChain /\ AttestInv /\ TransitInv /\ [Next]_vars => TransitInv'
<1> SUFFICES ASSUME TypeOK, CallChain, AttestInv, TransitInv, [Next]_vars
             PROVE  TransitInv'
  OBVIOUS
<1>1. pc \in Labels
  BY Zenon DEF TypeOK
<1>2. CASE DispReadMeta
  BY <1>2, TransitReadMeta
<1>3. CASE GenEmit
  BY <1>3, TransitEmit
<1>4. CASE GenCopy
  BY <1>4, TransitCopy
<1>5. CASE crypto_api_verify_signature
  BY <1>1, <1>5, TransitVerify
<1> QED
  BY <1>1, <1>2, <1>3, <1>4, <1>5, TransitSteps, Zenon
    DEF Next, Dispatcher, Generator, Tpm

\* An undisturbed transaction always ends with its variant in the arena.
THEOREM CleanCorrect == Spec => []CleanTransactionInstalls
<1>1. Init => TransitInv /\ AttestInv
  BY DEF Init, TransitInv, CleanTransactionInstalls, AttestInv, AttestedArena,
    Installed
<1>2. TransitInv => CleanTransactionInstalls
  BY DEF TransitInv
<1> QED
  BY <1>1, <1>2, NextTransit, NextAttest, TypeCorrect, ChainCorrect, PTL
    DEF Spec
------------------------------------------------------------------------------
\* The strengthening of SignedAsSynthesised: what is being copied has the
\* signature of this transaction's variant.
SameSignature == Mac(Hash(Prefix(guest_ram, total_size))) = Mac(Hash(variant))

SynthInv ==
  /\ pc.gen \notin {"recv", "emit"}
       \/ pc.disp \in {"readMeta", "hash", "tpmWait", "copy"} =>
          variant \in Codes
  /\ pc.disp = "copy" => SameSignature
  /\ Installed => attested.code \in Codes /\ attested.size = Len(attested.code)
  /\ SignedAsSynthesised

\* A request that the fTPM accepts is about the variant, or about a string with
\* the same signature: one corruption cannot change both what was signed and
\* what is checked.
LEMMA VerifiedIsSigned ==
  ASSUME AttestInv, TransitInv, pc.disp = "tpmWait",
         tpm_req.sig = Mac(tpm_req.hash)
  PROVE  SameSignature
<1>1. /\ local.size = total_size
      /\ Intact \/ local.sig = Mac(Hash(variant))
      /\ tpm_req = [hash |-> Hash(Prefix(guest_ram, local.size)),
                    sig  |-> local.sig]
  BY DEF TransitInv, Guarded, AttestInv
<1> QED
  BY <1>1, Zenon DEF Intact, SameSignature

LEMMA NextSynth ==
  TypeOK /\ CallChain /\ AttestInv /\ TransitInv /\ SynthInv /\ [Next]_vars
    => SynthInv'
<1>0. SUFFICES ASSUME TypeOK, CallChain, AttestInv, TransitInv, SynthInv,
                      [Next]_vars
               PROVE  SynthInv'
  OBVIOUS
<1>1. pc \in Labels /\ CallChain /\ SynthInv
  BY <1>0, Zenon DEF TypeOK
<1> USE <1>1 DEF Labels, CallChain, SynthInv, SignedAsSynthesised,
          SameSignature, Installed, total_size
<1>2. CASE AdminStatus
  BY <1>2, Zenon DEF AdminStatus, Call, dispVars, tpmVars, memVars, auxVars
<1>3. CASE AdminMutate
  BY <1>3, Zenon DEF AdminMutate, Call, dispVars, tpmVars, memVars, auxVars
<1>4. CASE admin_api_print_status
  BY <1>4, Zenon DEF admin_api_print_status, Reply, dispVars, tpmVars, memVars,
    auxVars
<1>5. CASE DispRequestGeneration
  BY <1>5, Zenon DEF DispRequestGeneration, Call, tpmVars, memVars
<1>6. CASE DispReadMeta
  BY <1>6, Zenon DEF DispReadMeta, Goto, tpmVars, memVars, auxVars
<1>7. CASE DispHash
  BY <1>7, Zenon DEF DispHash, Call, memVars, auxVars
<1>8. CASE DispCopyByte
  BY <1>8, Zenon DEF DispCopyByte, tpmVars, auxVars
<1>9. CASE DispCommitSwap
  <2>1. local.size \in 0..PageSize /\ PageSize \in Nat
    BY <1>0, Parameters, Zenon DEF TypeOK, SizeAssumption
  <2>2. \A i \in 1..local.size : worker_arena[i] = guest_ram[i]
    <3>1. pc.disp = "copy" /\ copied = PageSize
      BY <1>9 DEF DispCommitSwap
    <3>2. \A i \in 1..copied : worker_arena[i] = guest_ram[i]
      BY <1>0, <3>1, Zenon DEF AttestInv
    <3> QED
      BY <2>1, <3>1, <3>2
  <2>3. Prefix(worker_arena, local.size) = Prefix(guest_ram, local.size)
    BY <2>2 DEF Prefix
  <2>4. local.size = Len(variant) /\ variant \in Codes
    BY <1>0, <1>9, Zenon DEF DispCommitSwap, TransitInv
  <2> QED
    BY <1>9, <2>3, <2>4 DEF DispCommitSwap, Goto, memVars
<1>10. CASE DispExecute
  BY <1>10, Zenon DEF DispExecute, Call, dispVars, tpmVars, memVars, auxVars
<1>11. CASE DispReply
  BY <1>11, Zenon DEF DispReply, Reply, dispVars, tpmVars, memVars, auxVars
<1>12. CASE GenEmit
  BY <1>12, Zenon DEF GenEmit, Goto, dispVars, tpmVars, auxVars
<1>13. CASE GenCopy
  BY <1>13, Zenon DEF GenCopy, Goto, dispVars, tpmVars, auxVars
<1>14. CASE GenAddVariant
  BY <1>14, Zenon DEF GenAddVariant, Call, dispVars, tpmVars, memVars, auxVars
<1>15. CASE GenReturn
  BY <1>15, Zenon DEF GenReturn, Reply, dispVars, tpmVars, memVars, auxVars
<1>16. CASE RepoHash
  BY <1>16, Zenon DEF RepoHash, Call, dispVars, memVars, auxVars
<1>17. CASE RepoCommit
  BY <1>17, Zenon DEF RepoCommit, Reply, dispVars, tpmVars, auxVars
<1>18. CASE crypto_api_sign_data
  BY <1>18, Zenon DEF crypto_api_sign_data, Reply, dispVars, memVars, auxVars
<1>19. CASE crypto_api_verify_signature
  <2>1. tpm_req.sig = Mac(tpm_req.hash) => SameSignature
    BY <1>0, <1>19, VerifiedIsSigned DEF crypto_api_verify_signature
  <2> QED
    BY <1>19, <2>1, Zenon DEF crypto_api_verify_signature, Reply, dispVars,
      memVars, auxVars
<1>20. CASE WorkerRuns
  BY <1>20, Zenon DEF WorkerRuns, Reply, dispVars, tpmVars, memVars, auxVars
<1>21. CASE WorkerFaults
  BY <1>21, Zenon DEF WorkerFaults, Goto, dispVars, tpmVars, memVars, auxVars
<1>22. CASE TransitFault
  BY <1>22, Zenon DEF TransitFault, InTransit, dispVars, tpmVars
<1>23. CASE UNCHANGED vars
  BY <1>23 DEF vars, dispVars, tpmVars, memVars, auxVars
<1> QED
  BY <1>0, <1>2, <1>3, <1>4, <1>5, <1>6, <1>7, <1>8, <1>9, <1>10, <1>11, <1>12,
    <1>13, <1>14, <1>15, <1>16, <1>17, <1>18, <1>19, <1>20, <1>21, <1>22,
    <1>23, ZenonT(30)
    DEF Next, Admin, Dispatcher, Generator, Repository, Tpm, Worker

LEMMA InitSynth == Init => AttestInv /\ TransitInv /\ SynthInv
BY DEF Init, AttestInv, AttestedArena, TransitInv, CleanTransactionInstalls,
  SynthInv, SignedAsSynthesised, Installed

\* What the Worker's arena starts with has the signature of what the Generator
\* synthesised, in spite of one corruption per transaction, whatever the hash.
THEOREM SignedCorrect == Spec => []SignedAsSynthesised
<1>1. SynthInv => SignedAsSynthesised
  BY DEF SynthInv
<1> QED
  BY <1>1, InitSynth, NextSynth, NextTransit, NextAttest, TypeCorrect,
    ChainCorrect, PTL DEF Spec

\* Strings of the same length have different signatures.  No 32-bit digest is
\* like that on a whole page: this is a hypothesis of the theorems that name it.
CollisionFree ==
  \A n \in 0..PageSize : \A s, t \in [1..n -> Byte] :
     Mac(Hash(s)) = Mac(Hash(t)) => s = t

LEMMA VariantString ==
  ASSUME NEW c \in Codes
  PROVE  Len(c) \in 0..PageSize /\ c \in [1..Len(c) -> Byte]
BY Parameters DEF CodeAssumption, SizeAssumption, Page

LEMMA PrefixString ==
  ASSUME NEW mem \in [Page -> Byte], NEW n \in 0..PageSize
  PROVE  Prefix(mem, n) \in [1..n -> Byte]
BY Parameters DEF Prefix, Page, SizeAssumption

\* With no collision the bytes are the variant's.
LEMMA SignedIsIntact ==
  ASSUME CollisionFree, TypeOK, variant \in Codes, SameSignature
  PROVE  Intact
<1>1. total_size \in 0..PageSize /\ variant \in [1..total_size -> Byte]
  BY VariantString DEF total_size
<1>2. Prefix(guest_ram, total_size) \in [1..total_size -> Byte]
  BY <1>1, PrefixString DEF TypeOK
<1> QED
  BY <1>1, <1>2, Zenon DEF CollisionFree, SameSignature, Intact

LEMMA SignedIsInstalled ==
  ASSUME CollisionFree, TypeOK, SynthInv
  PROVE  InstalledIsSynthesised
<1> SUFFICES ASSUME Installed, pc.disp # "copy"
             PROVE  Prefix(worker_arena, attested.size) = attested.code
  BY DEF InstalledIsSynthesised
<1>1. /\ attested.code \in Codes
      /\ attested.size = Len(attested.code)
      /\ Mac(Hash(Prefix(worker_arena, attested.size))) = Mac(Hash(attested.code))
  BY Zenon DEF SynthInv, SignedAsSynthesised
<1>2. /\ attested.size \in 0..PageSize
      /\ attested.code \in [1..attested.size -> Byte]
  BY <1>1, VariantString
<1>3. Prefix(worker_arena, attested.size) \in [1..attested.size -> Byte]
  BY <1>2, PrefixString DEF TypeOK
<1> QED
  BY <1>1, <1>2, <1>3 DEF CollisionFree

\* Unless the digests collide, the Worker's arena starts with exactly what the
\* Generator synthesised, in spite of one corruption per transaction.
THEOREM SynthesisedCorrect ==
  ASSUME CollisionFree
  PROVE  Spec => []InstalledIsSynthesised
<1>1. TypeOK /\ SynthInv => InstalledIsSynthesised
  BY SignedIsInstalled
<1> QED
  BY <1>1, InitSynth, NextSynth, NextTransit, NextAttest, TypeCorrect,
    ChainCorrect, PTL DEF Spec
------------------------------------------------------------------------------
(* MutationCycle implements SecureSwap.                                    *)

\* With no corruption before the first hot-swap, the first transaction installs
\* its variant, so the Worker never runs an empty arena.
FirstInv ==
  /\ ~Installed => ~tainted
  /\ pc.disp \in {"exec", "workerWait", "reply"} /\ ~tainted => Installed

LEMMA NextFirst ==
  ASSUME ~FirstCycleFaults
  PROVE  TypeOK /\ CallChain /\ AttestInv /\ TransitInv /\ SynthInv /\ FirstInv
           /\ [Next]_vars => FirstInv'
<1>0. SUFFICES ASSUME TypeOK, CallChain, AttestInv, TransitInv, SynthInv,
                      FirstInv, [Next]_vars
               PROVE  FirstInv'
  OBVIOUS
<1>1. pc \in Labels /\ CallChain /\ FirstInv
  BY <1>0, Zenon DEF TypeOK
<1> USE <1>1 DEF Labels, CallChain, FirstInv, Installed
<1>2. CASE AdminStatus
  BY <1>2, Zenon DEF AdminStatus, Call, dispVars, tpmVars, memVars, auxVars
<1>3. CASE AdminMutate
  BY <1>3, Zenon DEF AdminMutate, Call, dispVars, tpmVars, memVars, auxVars
<1>4. CASE admin_api_print_status
  BY <1>4, Zenon DEF admin_api_print_status, Reply, dispVars, tpmVars, memVars,
    auxVars
<1>5. CASE DispRequestGeneration
  BY <1>5, Zenon DEF DispRequestGeneration, Call, tpmVars, memVars
<1>6. CASE DispReadMeta
  <2>1. ToInt(secure_storage.vid) = next_id
    BY <1>0, <1>6, IdRoundTrip DEF DispReadMeta, TypeOK, TransitInv
  <2> QED
    BY <1>6, <2>1, Zenon DEF DispReadMeta, Goto, auxVars
<1>7. CASE DispHash
  BY <1>7, Zenon DEF DispHash, Call, memVars, auxVars
<1>8. CASE DispCopyByte
  BY <1>8, Zenon DEF DispCopyByte, tpmVars, auxVars
<1>9. CASE DispCommitSwap
  <2>1. local.size = Len(variant) /\ variant \in Codes
    BY <1>0, <1>9, Zenon DEF DispCommitSwap, TransitInv, SynthInv, total_size
  <2>2. local.size > 0
    BY <2>1, Parameters DEF CodeAssumption, SizeAssumption, Page
  <2> QED
    BY <1>9, <2>2, Zenon DEF DispCommitSwap, Goto
<1>10. CASE DispExecute
  BY <1>10, Zenon DEF DispExecute, Call, dispVars, tpmVars, memVars, auxVars
<1>11. CASE DispReply
  BY <1>11, Zenon DEF DispReply, Reply, dispVars, tpmVars, memVars, auxVars
<1>12. CASE GenEmit
  BY <1>12, Zenon DEF GenEmit, Goto, dispVars, tpmVars, auxVars
<1>13. CASE GenCopy
  BY <1>13, Zenon DEF GenCopy, Goto, dispVars, tpmVars, auxVars
<1>14. CASE GenAddVariant
  BY <1>14, Zenon DEF GenAddVariant, Call, dispVars, tpmVars, memVars, auxVars
<1>15. CASE GenReturn
  BY <1>15, Zenon DEF GenReturn, Reply, dispVars, tpmVars, memVars, auxVars
<1>16. CASE RepoHash
  BY <1>16, Zenon DEF RepoHash, Call, dispVars, memVars, auxVars
<1>17. CASE RepoCommit
  BY <1>17, Zenon DEF RepoCommit, Reply, dispVars, tpmVars, auxVars
<1>18. CASE crypto_api_sign_data
  BY <1>18, Zenon DEF crypto_api_sign_data, Reply, dispVars, memVars, auxVars
<1>19. CASE crypto_api_verify_signature
  <2>1. ~tainted => tpm_req.sig = Mac(tpm_req.hash)
    BY <1>0, <1>19, CleanIsSigned DEF crypto_api_verify_signature
  <2> QED
    BY <1>19, <2>1, Zenon DEF crypto_api_verify_signature, Reply, auxVars
<1>20. CASE WorkerRuns
  BY <1>20, Zenon DEF WorkerRuns, Reply, dispVars, tpmVars, memVars, auxVars
<1>21. CASE WorkerFaults
  BY <1>21, Zenon DEF WorkerFaults, Goto, dispVars, tpmVars, memVars, auxVars
<1>22. CASE TransitFault
  BY <1>22, Zenon DEF TransitFault, InTransit, dispVars, tpmVars
<1>23. CASE UNCHANGED vars
  BY <1>23, Zenon DEF vars, dispVars, tpmVars, memVars, auxVars
<1> QED
  BY <1>0, <1>2, <1>3, <1>4, <1>5, <1>6, <1>7, <1>8, <1>9, <1>10, <1>11, <1>12,
    <1>13, <1>14, <1>15, <1>16, <1>17, <1>18, <1>19, <1>20, <1>21, <1>22,
    <1>23, ZenonT(30)
    DEF Next, Admin, Dispatcher, Generator, Repository, Tpm, Worker

\* The inductive invariant under which the transaction implements SecureSwap.
SwapInv == /\ TypeOK
           /\ CallChain
           /\ AttestInv
           /\ TransitInv
           /\ SynthInv
           /\ FirstInv

\* A variant is not the empty string.
LEMMA CodeNotEmpty == <<>> \notin Codes
BY Parameters DEF CodeAssumption, SizeAssumption, Page

\* The abstract version counter and the C int wrap alike.
LEMMA VersionStep ==
  ASSUME NEW i \in IntRange
  PROVE  Wrap(i + 1) = IF i = IntMax THEN -IntMax - 1 ELSE i + 1
BY IntMaxAssumption DEF WordSize, IntRange, Wrap

LEMMA InitSwap == Init => Swap!Init
<1> SUFFICES ASSUME Init
             PROVE  Swap!Init
  OBVIOUS
<1>1. Prefix(worker_arena, attested.size) = <<>>
  BY DEF Init, Prefix
<1> QED
  BY <1>1, Zenon DEF Init, Swap!Init

\* A step that the Worker does not notice.
Hidden ==
  /\ pc.disp # "copy" /\ pc'.disp # "copy"
  /\ worker_arena' = worker_arena
  /\ attested' = attested
  /\ total_mutations_count' = total_mutations_count
  /\ pc'.worker = pc.worker

LEMMA HiddenStutters == Hidden => UNCHANGED Swap!vars
BY Zenon DEF Hidden, Swap!vars

LEMMA HiddenSteps ==
  ASSUME pc \in Labels, CallChain,
         \/ AdminStatus \/ AdminMutate \/ admin_api_print_status
         \/ DispRequestGeneration \/ DispReadMeta \/ DispHash \/ DispReply
         \/ Generator \/ Repository \/ crypto_api_sign_data \/ TransitFault
         \/ crypto_api_verify_signature /\ tpm_req.sig # Mac(tpm_req.hash)
  PROVE  Hidden
<1> USE DEF Labels, CallChain, Hidden, Goto, Call, Reply, dispVars, memVars, auxVars
<1>1. CASE AdminStatus
  BY <1>1, Zenon DEF AdminStatus
<1>2. CASE AdminMutate
  BY <1>2, Zenon DEF AdminMutate
<1>3. CASE admin_api_print_status
  BY <1>3, Zenon DEF admin_api_print_status
<1>4. CASE DispRequestGeneration
  BY <1>4, Zenon DEF DispRequestGeneration
<1>5. CASE DispReadMeta
  BY <1>5, Zenon DEF DispReadMeta
<1>6. CASE DispHash
  BY <1>6, Zenon DEF DispHash
<1>7. CASE DispReply
  BY <1>7, Zenon DEF DispReply
<1>8. CASE Generator
  <2>1. CASE GenEmit
    BY <2>1, Zenon DEF GenEmit
  <2>2. CASE GenCopy
    BY <2>2, Zenon DEF GenCopy
  <2>3. CASE GenAddVariant
    BY <2>3, Zenon DEF GenAddVariant
  <2>4. CASE GenReturn
    BY <2>4, Zenon DEF GenReturn
  <2> QED
    BY <1>8, <2>1, <2>2, <2>3, <2>4 DEF Generator
<1>9. CASE Repository
  <2>1. CASE RepoHash
    BY <2>1, Zenon DEF RepoHash
  <2>2. CASE RepoCommit
    BY <2>2, Zenon DEF RepoCommit
  <2> QED
    BY <1>9, <2>1, <2>2 DEF Repository
<1>10. CASE crypto_api_sign_data
  BY <1>10, Zenon DEF crypto_api_sign_data
<1>11. CASE TransitFault
  BY <1>11, Zenon DEF TransitFault, InTransit
<1>12. CASE crypto_api_verify_signature /\ tpm_req.sig # Mac(tpm_req.hash)
  BY <1>12, Zenon DEF crypto_api_verify_signature
<1> QED
  BY <1>1, <1>2, <1>3, <1>4, <1>5, <1>6, <1>7, <1>8, <1>9, <1>10, <1>11, <1>12

\* The memcpy of a byte is not noticed either: the mapping looks at guest_ram.
LEMMA CopyStutters ==
  ASSUME pc \in Labels, DispCopyByte
  PROVE  UNCHANGED Swap!vars
<1>1. /\ pc' = pc /\ pc.disp = "copy"
      /\ guest_ram' = guest_ram /\ local' = local
      /\ total_mutations_count' = total_mutations_count
  BY DEF DispCopyByte
<1> QED
  BY <1>1, Zenon DEF Swap!vars, Prefix

\* At the end of memcpy the arena starts with what guest_ram starts with.
LEMMA CommitStutters ==
  ASSUME TypeOK, AttestInv, DispCommitSwap
  PROVE  UNCHANGED Swap!vars
<1>1. /\ pc.disp = "copy" /\ pc'.disp = "exec" /\ pc'.worker = pc.worker
      /\ total_mutations_count' = Wrap(total_mutations_count + 1)
      /\ attested'.size = local.size
      /\ worker_arena' = worker_arena
  BY Zenon DEF DispCommitSwap, Goto, TypeOK, Labels, memVars
<1>2. \A i \in 1..PageSize : worker_arena[i] = guest_ram[i]
  BY Zenon DEF DispCommitSwap, AttestInv
<1>3. local.size \in 0..PageSize /\ PageSize \in Nat
  BY Parameters, Zenon DEF TypeOK, SizeAssumption
<1>4. Prefix(worker_arena, local.size) = Prefix(guest_ram, local.size)
  BY <1>2, <1>3 DEF Prefix
<1> QED
  BY <1>1, <1>4 DEF Swap!vars

\* The swap takes effect when the fTPM accepts the signature.
LEMMA VerifySwaps ==
  ASSUME CollisionFree, TypeOK, CallChain, AttestInv, TransitInv, SynthInv,
         crypto_api_verify_signature, tpm_req.sig = Mac(tpm_req.hash)
  PROVE  Swap!HotSwap
<1>1. /\ pc.disp = "tpmWait" /\ pc'.disp = "copy"
      /\ pc.worker = "recv" /\ pc'.worker = "recv"
  BY Zenon DEF crypto_api_verify_signature, Reply, TypeOK, Labels, CallChain
<1>2. /\ guest_ram' = guest_ram /\ local' = local
      /\ total_mutations_count' = total_mutations_count
  BY Zenon DEF crypto_api_verify_signature, memVars, dispVars
<1>3. SameSignature
  BY <1>1, VerifiedIsSigned
<1>4. variant \in Codes /\ local.size = total_size
  BY <1>1, Zenon DEF SynthInv, TransitInv
<1>5. Intact
  BY <1>3, <1>4, SignedIsIntact
<1>6. Prefix(guest_ram', local'.size) \in Codes
  BY <1>2, <1>4, <1>5 DEF Intact
<1>7. Wrap(total_mutations_count' + 1) =
        IF total_mutations_count = IntMax THEN -IntMax - 1
                                          ELSE total_mutations_count + 1
  BY <1>2, VersionStep DEF TypeOK
<1> QED
  BY <1>1, <1>6, <1>7 DEF Swap!HotSwap

\* Execution starts with a variant in place.
LEMMA ExecuteStarts ==
  ASSUME CollisionFree, TypeOK, CallChain, SynthInv, FirstInv, FirstInv',
         DispExecute
  PROVE  Swap!Start
<1>1. /\ pc.disp = "exec" /\ pc'.disp = "workerWait"
      /\ pc.worker = "recv" /\ pc'.worker = "exec"
  BY Zenon DEF DispExecute, Call, TypeOK, Labels, CallChain
<1>2. /\ worker_arena' = worker_arena /\ attested' = attested
      /\ total_mutations_count' = total_mutations_count
  BY Zenon DEF DispExecute, memVars, dispVars, auxVars
<1>3. Prefix(worker_arena, attested.size) \in Codes
  BY <1>1, <1>2, SignedIsInstalled, Zenon DEF FirstInv, SynthInv,
    InstalledIsSynthesised
<1>4. Prefix(worker_arena, attested.size) # <<>>
  BY <1>3, CodeNotEmpty
<1> QED
  BY <1>1, <1>2, <1>4 DEF Swap!Start

LEMMA WorkerFinishes ==
  ASSUME TypeOK, CallChain, Worker
  PROVE  Swap!Finish
<1>1. /\ pc.worker = "exec" /\ pc'.worker # "exec"
      /\ pc.disp = "workerWait" /\ pc'.disp # "copy"
  BY DEF Worker, WorkerRuns, WorkerFaults, Reply, Goto, TypeOK, Labels, CallChain
<1>2. /\ worker_arena' = worker_arena /\ attested' = attested
      /\ total_mutations_count' = total_mutations_count
  BY Zenon DEF Worker, WorkerRuns, WorkerFaults, memVars, dispVars, auxVars
<1> QED
  BY <1>1, <1>2 DEF Swap!Finish

LEMMA StepSwap ==
  ASSUME CollisionFree, SwapInv, SwapInv', [Next]_vars
  PROVE  [Swap!Next]_Swap!vars
<1>1. /\ TypeOK /\ CallChain /\ AttestInv /\ TransitInv /\ SynthInv /\ FirstInv
      /\ FirstInv' /\ pc \in Labels
  BY Zenon DEF SwapInv, TypeOK
<1>2. CASE \/ AdminStatus \/ AdminMutate \/ admin_api_print_status
           \/ DispRequestGeneration \/ DispReadMeta \/ DispHash \/ DispReply
           \/ Generator \/ Repository \/ crypto_api_sign_data \/ TransitFault
           \/ crypto_api_verify_signature /\ tpm_req.sig # Mac(tpm_req.hash)
  BY <1>1, <1>2, HiddenSteps, HiddenStutters
<1>3. CASE DispCopyByte
  BY <1>1, <1>3, CopyStutters
<1>4. CASE DispCommitSwap
  BY <1>1, <1>4, CommitStutters
<1>5. CASE crypto_api_verify_signature /\ tpm_req.sig = Mac(tpm_req.hash)
  BY <1>1, <1>5, VerifySwaps DEF Swap!Next
<1>6. CASE DispExecute
  BY <1>1, <1>6, ExecuteStarts DEF Swap!Next
<1>7. CASE Worker
  BY <1>1, <1>7, WorkerFinishes DEF Swap!Next
<1>8. CASE UNCHANGED vars
  BY <1>8, Zenon DEF vars, dispVars, memVars, auxVars, Swap!vars
<1> QED
  BY <1>2, <1>3, <1>4, <1>5, <1>6, <1>7, <1>8, Zenon DEF Next, Admin,
    Dispatcher, Tpm

\* Unless the digests collide, and if nothing is corrupted before the first
\* hot-swap, the eight-hop transaction is an atomic hot-swap for the Worker.
THEOREM Refinement ==
  ASSUME CollisionFree, ~FirstCycleFaults
  PROVE  Spec => ImplementsSecureSwap
<1>1. Init => FirstInv
  <2> SUFFICES ASSUME Init PROVE FirstInv
    OBVIOUS
  <2>1. pc.disp = "recv" /\ tainted = FALSE
    BY Zenon DEF Init
  <2> QED
    BY <2>1, Zenon DEF FirstInv
<1>2. Spec => []SwapInv
  BY <1>1, InitSynth, NextFirst, NextSynth, NextTransit, NextAttest,
    TypeCorrect, ChainCorrect, PTL DEF Spec, SwapInv
<1>3. SwapInv /\ SwapInv' /\ [Next]_vars => [Swap!Next]_Swap!vars
  BY StepSwap
<1> QED
  BY <1>2, <1>3, InitSwap, PTL DEF Spec, Swap!Spec, ImplementsSecureSwap
==============================================================================

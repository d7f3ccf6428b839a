---------------------------- MODULE MutationCycle ----------------------------
(***************************************************************************)
(* One secure mutation transaction of Heuristic OS after another: the      *)
(* AdminConsole asks the Dispatcher for a mutation, the Dispatcher has the *)
(* Generator synthesise a variant into guest_ram, the Generator copies it  *)
(* to gen_buf and registers it with the Repository, the Repository has the *)
(* fTPM sign its hash, and the Dispatcher re-hashes guest_ram, has the     *)
(* fTPM verify the signature, copies the page into the Worker's arena and  *)
(* has the Worker run it.                                                  *)
(*                                                                         *)
(* Every component is one thread.  All calls are seL4RPCCall rendezvous:   *)
(* the caller blocks in seL4_Call until the callee's thread is back in     *)
(* seL4_ReplyRecv, and again until the callee replies.                     *)
(*                                                                         *)
(* The dataports are arrays of PageSize bytes: only the 4096 bytes that    *)
(* the Dispatcher copies can reach the Worker.  The hash and the truncated *)
(* HMAC are parameters: nothing here depends on how they are computed.     *)
(***************************************************************************)
EXTENDS CInt, Sequences

CONSTANTS
  PageSize,         \* bytes the Dispatcher copies into the arena (4096)
  Byte,             \* values of one byte of shared memory
  Codes,            \* variants the Generator can synthesise
  Digest,           \* values of a uint32_t hash or signature
  Hash(_),          \* Jenkins One-at-a-Time over a byte string
  Mac(_),           \* HMAC-SHA256 of a hash, truncated to 32 bits
  MaxFaults,        \* bound on the corruptions of shared memory in transit
  FirstCycleFaults  \* may a corruption hit before the first hot-swap?

Page == 1..PageSize

SizeAssumption == /\ PageSize \in Nat \ {0}
                  /\ MaxFaults \in Nat
                  /\ FirstCycleFaults \in BOOLEAN
CodeAssumption == /\ 0 \in Byte
                  /\ \A c \in Codes : /\ Len(c) \in Page
                                      /\ c \in [1..Len(c) -> Byte]
DigestAssumption == /\ 0 \in Digest
                    /\ \A n \in 0..PageSize : \A s \in [1..n -> Byte] :
                          Hash(s) \in Digest
                    /\ \A h \in Digest : Mac(h) \in Digest
ASSUME Parameters == SizeAssumption /\ CodeAssumption /\ DigestAssumption

VARIABLES
  pc,                      \* where each component's thread is
  total_mutations_count,   \* Dispatcher
  current_active_variant,  \* Dispatcher
  next_id,                 \* Dispatcher: id of the transaction under way
  local,                   \* Dispatcher: metadata as read from secure_storage
  copied,                  \* Dispatcher: bytes memcpy has moved so far
  variant,                 \* Generator: the bytes emitted in this transaction
  guest_ram,               \* dataport Generator -- Dispatcher
  gen_buf,                 \* dataport Generator -- Repository
  repo_sig,                \* Repository: signature the fTPM returned
  tpm_req,                 \* fTPM: arguments of the call being served
  secure_storage,          \* dataport Repository -- Dispatcher
  worker_arena,            \* dataport Dispatcher -- Worker
  faults,                  \* corruptions so far
  tainted,                 \* history: was this transaction's data corrupted?
  attested                 \* history: variant, size and signature installed

dispVars == <<total_mutations_count, current_active_variant, next_id, local,
              copied>>
tpmVars  == <<repo_sig, tpm_req>>
memVars  == <<guest_ram, gen_buf, secure_storage, worker_arena>>
auxVars  == <<faults, tainted, attested>>
vars     == <<pc, dispVars, variant, tpmVars, memVars, auxVars>>
------------------------------------------------------------------------------
Labels == [admin  : {"status", "statusWait", "mutate", "mutateWait"},
           disp   : {"recv", "status", "begin", "genWait", "readMeta", "hash",
                     "tpmWait", "copy", "exec", "workerWait", "reply"},
           gen    : {"recv", "emit", "copy", "call", "repoWait", "return"},
           repo   : {"recv", "hash", "tpmWait", "commit"},
           tpm    : {"recv", "sign", "verify"},
           worker : {"recv", "exec", "faulted"}]

\* The first n bytes of a dataport, and a dataport overwritten by a string.
Prefix(mem, n)       == [i \in 1..n |-> mem[i]]
Overwrite(mem, s, n) == [i \in Page |-> IF i <= n THEN s[i] ELSE mem[i]]
Zeroed               == [i \in Page |-> 0]

\* seL4_Call meets a server in seL4_Recv; seL4_ReplyRecv resumes the caller.
Call(caller, wait, callee, entry) ==
  /\ pc[callee] = "recv"
  /\ pc' = [pc EXCEPT ![caller] = wait, ![callee] = entry]

Reply(callee, caller, resume) ==
  pc' = [pc EXCEPT ![callee] = "recv", ![caller] = resume]

Goto(thread, label) == pc' = [pc EXCEPT ![thread] = label]

\* Static storage and dataports start out zeroed; every server is in recv.
Init ==
  /\ pc = [admin |-> "status", disp |-> "recv", gen |-> "recv",
           repo |-> "recv", tpm |-> "recv", worker |-> "recv"]
  /\ total_mutations_count = 0
  /\ current_active_variant = 0
  /\ next_id = 0
  /\ local = [size |-> 0, sig |-> 0]
  /\ copied = 0
  /\ variant = <<>>
  /\ guest_ram = Zeroed
  /\ gen_buf = Zeroed
  /\ repo_sig = 0
  /\ tpm_req = [hash |-> 0, sig |-> 0]
  /\ secure_storage = [vid |-> 0, size |-> 0, sig |-> 0]
  /\ worker_arena = Zeroed
  /\ faults = 0
  /\ tainted = FALSE
  /\ attested = [code |-> <<>>, size |-> 0, sig |-> 0]
------------------------------------------------------------------------------
(* AdminConsole: print_status, then force_mutation, for ever.              *)

AdminStatus ==
  /\ pc.admin = "status"
  /\ Call("admin", "statusWait", "disp", "status")
  /\ UNCHANGED <<dispVars, variant, tpmVars, memVars, auxVars>>

AdminMutate ==
  /\ pc.admin = "mutate"
  /\ Call("admin", "mutateWait", "disp", "begin")
  /\ UNCHANGED <<dispVars, variant, tpmVars, memVars, auxVars>>

(* Dispatcher.                                                             *)

admin_api_print_status ==
  /\ pc.disp = "status"
  /\ Reply("disp", "admin", "mutate")
  /\ UNCHANGED <<dispVars, variant, tpmVars, memVars, auxVars>>

\* Mutant: the request does not wait for the Generator.
RequestAsync ==
  /\ pc.disp = "begin"
  /\ Call("disp", "readMeta", "gen", "emit")
  /\ next_id' = Wrap(total_mutations_count + 1)
  /\ tainted' = FALSE
  /\ UNCHANGED <<total_mutations_count, current_active_variant, local, copied,
                 variant, tpmVars, memVars, faults, attested>>

\* Step A of admin_api_force_mutation.
DispRequestGeneration ==
  /\ pc.disp = "begin"
  /\ Call("disp", "genWait", "gen", "emit")
  /\ next_id' = Wrap(total_mutations_count + 1)
  /\ tainted' = FALSE
  /\ UNCHANGED <<total_mutations_count, current_active_variant, local, copied,
                 variant, tpmVars, memVars, faults, attested>>

\* The Generator writes the variant to the start of guest_ram.
GenEmit ==
  /\ pc.gen = "emit"
  /\ \E c \in Codes :
        /\ variant' = c
        /\ guest_ram' = Overwrite(guest_ram, c, Len(c))
  /\ Goto("gen", "copy")
  /\ UNCHANGED <<dispVars, tpmVars, gen_buf, secure_storage, worker_arena,
                 auxVars>>

total_size == Len(variant)

GenCopy ==
  /\ pc.gen = "copy"
  /\ gen_buf' = Overwrite(gen_buf, guest_ram, total_size)
  /\ Goto("gen", "call")
  /\ UNCHANGED <<dispVars, variant, tpmVars, guest_ram, secure_storage,
                 worker_arena, auxVars>>

GenAddVariant ==
  /\ pc.gen = "call"
  /\ Call("gen", "repoWait", "repo", "hash")
  /\ UNCHANGED <<dispVars, variant, tpmVars, memVars, auxVars>>

GenReturn ==
  /\ pc.gen = "return"
  /\ Reply("gen", "disp", "readMeta")
  /\ UNCHANGED <<dispVars, variant, tpmVars, memVars, auxVars>>

(* Repository: repo_write_api_add_variant.                                 *)

RepoHash ==
  /\ pc.repo = "hash"
  /\ Call("repo", "tpmWait", "tpm", "sign")
  /\ tpm_req' = [hash |-> Hash(Prefix(gen_buf, total_size)), sig |-> 0]
  /\ UNCHANGED <<dispVars, variant, repo_sig, memVars, auxVars>>

RepoCommit ==
  /\ pc.repo = "commit"
  /\ secure_storage' = [vid  |-> ToUint32(next_id),
                        size |-> total_size,
                        sig  |-> repo_sig]
  /\ Reply("repo", "gen", "return")
  /\ UNCHANGED <<dispVars, variant, tpmVars, guest_ram, gen_buf, worker_arena,
                 auxVars>>

(* fTPM.                                                                   *)

crypto_api_sign_data ==
  /\ pc.tpm = "sign"
  /\ repo_sig' = Mac(tpm_req.hash)
  /\ Reply("tpm", "repo", "commit")
  /\ UNCHANGED <<dispVars, variant, tpm_req, memVars, auxVars>>

\* Mutant: the verdict is ignored.
VerifyAccepts ==
  /\ pc.tpm = "verify"
  /\ Reply("tpm", "disp", "copy")
  /\ UNCHANGED <<dispVars, variant, tpmVars, memVars, auxVars>>

\* Mutant: a failed verification is retried.
VerifyRetries ==
  /\ pc.tpm = "verify"
  /\ Reply("tpm", "disp",
           IF tpm_req.sig = Mac(tpm_req.hash) THEN "copy" ELSE "hash")
  /\ UNCHANGED <<dispVars, variant, tpmVars, memVars, auxVars>>

\* The verdict decides where the Dispatcher resumes.
crypto_api_verify_signature ==
  /\ pc.tpm = "verify"
  /\ Reply("tpm", "disp",
           IF tpm_req.sig = Mac(tpm_req.hash) THEN "copy" ELSE "exec")
  /\ UNCHANGED <<dispVars, variant, tpmVars, memVars, auxVars>>

(* Dispatcher: execute_secure_runtime_injection and Step C.                *)

DispReadMeta ==
  /\ pc.disp = "readMeta"
  /\ local' = [size |-> secure_storage.size, sig |-> secure_storage.sig]
  /\ Goto("disp", IF ToInt(secure_storage.vid) = next_id THEN "hash"
                                                         ELSE "exec")
  /\ UNCHANGED <<total_mutations_count, current_active_variant, next_id,
                 copied, variant, tpmVars, memVars, auxVars>>

DispHash ==
  /\ pc.disp = "hash"
  /\ Call("disp", "tpmWait", "tpm", "verify")
  /\ tpm_req' = [hash |-> Hash(Prefix(guest_ram, local.size)),
                 sig  |-> local.sig]
  /\ copied' = 0
  /\ UNCHANGED <<total_mutations_count, current_active_variant, next_id,
                 local, variant, repo_sig, memVars, auxVars>>

\* memcpy(worker_arena, guest_ram, 4096), a byte at a time.
DispCopyByte ==
  /\ pc.disp = "copy"
  /\ copied < PageSize
  /\ worker_arena' = [worker_arena EXCEPT ![copied + 1] = guest_ram[copied + 1]]
  /\ copied' = copied + 1
  /\ UNCHANGED <<pc, total_mutations_count, current_active_variant, next_id,
                 local, variant, tpmVars, guest_ram, gen_buf, secure_storage,
                 auxVars>>

\* Mutant: memcpy stops a byte short.
CommitShort ==
  /\ pc.disp = "copy"
  /\ copied = PageSize - 1
  /\ current_active_variant' = next_id
  /\ total_mutations_count' = Wrap(total_mutations_count + 1)
  /\ attested' = [code |-> variant, size |-> local.size, sig |-> local.sig]
  /\ Goto("disp", "exec")
  /\ UNCHANGED <<next_id, local, copied, variant, tpmVars, memVars, faults,
                 tainted>>

\* Mutant: the swap is not counted.
CommitUncounted ==
  /\ pc.disp = "copy"
  /\ copied = PageSize
  /\ current_active_variant' = next_id
  /\ attested' = [code |-> variant, size |-> local.size, sig |-> local.sig]
  /\ Goto("disp", "exec")
  /\ UNCHANGED <<total_mutations_count, next_id, local, copied, variant,
                 tpmVars, memVars, faults, tainted>>

DispCommitSwap ==
  /\ pc.disp = "copy"
  /\ copied = PageSize
  /\ current_active_variant' = next_id
  /\ total_mutations_count' = Wrap(total_mutations_count + 1)
  /\ attested' = [code |-> variant, size |-> local.size, sig |-> local.sig]
  /\ Goto("disp", "exec")
  /\ UNCHANGED <<next_id, local, copied, variant, tpmVars, memVars, faults,
                 tainted>>

\* Mutant: the Dispatcher does not wait for the Worker.
ExecuteAsync ==
  /\ pc.disp = "exec"
  /\ Call("disp", "reply", "worker", "exec")
  /\ UNCHANGED <<dispVars, variant, tpmVars, memVars, auxVars>>

\* worker_ctrl_cmd(1, 0), whether or not the variant was injected.
DispExecute ==
  /\ pc.disp = "exec"
  /\ Call("disp", "workerWait", "worker", "exec")
  /\ UNCHANGED <<dispVars, variant, tpmVars, memVars, auxVars>>

DispReply ==
  /\ pc.disp = "reply"
  /\ Reply("disp", "admin", "status")
  /\ UNCHANGED <<dispVars, variant, tpmVars, memVars, auxVars>>

(* Worker: jit_task() runs whatever the arena holds.                       *)

Runnable == \E c \in Codes : Prefix(worker_arena, Len(c)) = c

WorkerRuns ==
  /\ pc.worker = "exec"
  /\ Reply("worker", "disp", "reply")
  /\ UNCHANGED <<dispVars, variant, tpmVars, memVars, auxVars>>

\* An arena that does not start with a variant holds no function to return
\* from: the thread may fault, and then the call is never answered.
WorkerFaults ==
  /\ pc.worker = "exec"
  /\ ~Runnable
  /\ Goto("worker", "faulted")
  /\ UNCHANGED <<dispVars, variant, tpmVars, memVars, auxVars>>

(* A byte of one of the two shared buffers changes after the Generator has  *)
(* filled both and before the Dispatcher has hashed guest_ram, at most once *)
(* per transaction: what the attestation is there to detect.  A change made *)
(* before the copy to gen_buf, or the same one made to both buffers, would  *)
(* be signed with the variant; one after the hash is never looked at.       *)

Installed == attested.size > 0

InTransit == /\ pc.disp \in {"genWait", "readMeta", "hash"}
             /\ pc.gen \notin {"emit", "copy"}
             /\ FirstCycleFaults \/ Installed

TransitFault ==
  /\ InTransit
  /\ ~tainted
  /\ faults < MaxFaults
  /\ \E i \in Page, b \in Byte :
        \/ /\ guest_ram' = [guest_ram EXCEPT ![i] = b]
           /\ UNCHANGED gen_buf
        \/ /\ gen_buf' = [gen_buf EXCEPT ![i] = b]
           /\ UNCHANGED guest_ram
  /\ faults' = faults + 1
  /\ tainted' = TRUE
  /\ UNCHANGED <<pc, dispVars, variant, tpmVars, secure_storage, worker_arena,
                 attested>>
------------------------------------------------------------------------------
Admin      == AdminStatus \/ AdminMutate
Dispatcher == \/ admin_api_print_status
              \/ DispRequestGeneration
              \/ DispReadMeta
              \/ DispHash
              \/ DispCopyByte
              \/ DispCommitSwap
              \/ DispExecute
              \/ DispReply
Generator  == GenEmit \/ GenCopy \/ GenAddVariant \/ GenReturn
Repository == RepoHash \/ RepoCommit
Tpm        == crypto_api_sign_data \/ crypto_api_verify_signature
Worker     == WorkerRuns \/ WorkerFaults

Next == \/ Admin
        \/ Dispatcher
        \/ Generator
        \/ Repository
        \/ Tpm
        \/ Worker
        \/ TransitFault

Spec == Init /\ [][Next]_vars

\* All components run at the same priority and the kernel schedules them
\* round robin, so a thread that can run does; faults owe nobody anything.
Fairness == /\ WF_vars(Admin)
            /\ WF_vars(Dispatcher)
            /\ WF_vars(Generator)
            /\ WF_vars(Repository)
            /\ WF_vars(Tpm)
            /\ WF_vars(Worker)

FairSpec == Spec /\ Fairness
------------------------------------------------------------------------------
(* Properties.                                                             *)

\* Every variable holds a value of its C type; a dataport keeps its size.
TypeOK ==
  /\ pc \in Labels
  /\ total_mutations_count \in IntRange
  /\ current_active_variant \in IntRange
  /\ next_id \in IntRange
  /\ local \in [size : 0..PageSize, sig : Digest]
  /\ copied \in 0..PageSize
  /\ variant \in Codes \cup {<<>>}
  /\ guest_ram \in [Page -> Byte]
  /\ gen_buf \in [Page -> Byte]
  /\ repo_sig \in Digest
  /\ tpm_req \in [hash : Digest, sig : Digest]
  /\ secure_storage \in [vid : Uint32Range, size : 0..PageSize, sig : Digest]
  /\ worker_arena \in [Page -> Byte]
  /\ faults \in 0..MaxFaults
  /\ tainted \in BOOLEAN
  /\ attested \in [code : Codes \cup {<<>>}, size : 0..PageSize, sig : Digest]

\* A server is busy exactly while the thread that called it waits for its
\* answer, so the six threads form one chain and no two of them touch a
\* dataport at the same time (there is no lock around any dataport).
CallChain ==
  /\ pc.disp # "recv" <=> pc.admin \in {"statusWait", "mutateWait"}
  /\ pc.disp = "status" <=> pc.admin = "statusWait"
  /\ pc.gen # "recv" <=> pc.disp = "genWait"
  /\ pc.repo # "recv" <=> pc.gen = "repoWait"
  /\ pc.tpm = "sign" <=> pc.repo = "tpmWait"
  /\ pc.tpm = "verify" <=> pc.disp = "tpmWait"
  /\ pc.worker # "recv" <=> pc.disp = "workerWait"

\* Outside the Dispatcher's memcpy, the bytes of the arena that the last
\* successful injection vouched for still carry the signature that the fTPM
\* accepted for them, whatever was corrupted in transit and however weak the
\* hash is.
AttestedArena ==
  Installed /\ pc.disp # "copy" =>
    attested.sig = Mac(Hash(Prefix(worker_arena, attested.size)))

\* Whatever the hash, what is installed has the length and the signature of
\* what the Generator emitted in the transaction that installed it: corrupting
\* one of the two buffers gets past the attestation only by a collision.
SignedAsSynthesised ==
  Installed /\ pc.disp # "copy" =>
    /\ attested.size = Len(attested.code)
    /\ Mac(Hash(Prefix(worker_arena, attested.size))) = Mac(Hash(attested.code))

\* If the hash tells byte strings apart, the Worker's arena starts with
\* exactly the bytes that the Generator emitted in the transaction that
\* installed them: no corruption gets past the attestation and no memcpy is
\* seen half done.
InstalledIsSynthesised ==
  Installed /\ pc.disp # "copy" =>
    Prefix(worker_arena, attested.size) = attested.code

\* The id the Dispatcher reports as active is the number of injections it has
\* counted, at every point where a status request can be served, although the
\* id is computed before the transaction and the count bumped after it.
ActiveMatchesCount == current_active_variant = total_mutations_count

\* A transaction whose buffers nobody corrupted is never blocked: the metadata
\* read back is its own, the two hashes agree and the variant becomes active
\* (the id survives the round trip through uint32_t).
CleanTransactionInstalls ==
  pc.disp \in {"exec", "workerWait", "reply"} /\ ~tainted =>
    current_active_variant = next_id

\* The arena never changes under the Worker's feet while it runs.
ArenaStableWhileExecuting ==
  [][pc.worker # "recv" => worker_arena' = worker_arena]_vars

\* Between the Dispatcher's hash of guest_ram and the last byte of its memcpy
\* no thread writes guest_ram: what was checked is what is copied.
CheckedIsCopied ==
  [][pc.disp \in {"tpmWait", "copy"} => guest_ram' = guest_ram]_vars

\* Every mutation request of the AdminConsole is answered.
MutationAnswered == pc.admin = "mutateWait" ~> pc.admin = "status"

\* The Worker's code keeps being replaced for ever.
KeepsMutating == []<><<DispCommitSwap>>_vars

\* With no corruption before the first hot-swap, the whole transaction looks
\* to the Worker like the atomic hot-swap of SecureSwap.  The swap takes effect
\* when the fTPM accepts the signature: from then until memcpy is done the
\* variant is the one in guest_ram.
Swap == INSTANCE SecureSwap WITH
  installed <- IF pc.disp = "copy" THEN Prefix(guest_ram, local.size)
               ELSE Prefix(worker_arena, attested.size),
  version   <- IF pc.disp = "copy" THEN Wrap(total_mutations_count + 1)
               ELSE total_mutations_count,
  running   <- pc.worker = "exec"

ImplementsSecureSwap == Swap!Spec
------------------------------------------------------------------------------
(* What the documentation says, and the code does not do.                  *)

\* README: the Worker executes "only the verified polymorphic payloads".  The
\* Dispatcher orders the execution even if it has never injected anything.
WorkerRunsOnlyVerified == pc.worker = "exec" => Installed
==============================================================================

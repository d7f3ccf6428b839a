# Heuristic OS: a TLA+ verification project

Heuristic OS (`projects/camkes/apps/hk_system`) is a CAmkES application on the
seL4 microkernel.  Nine isolated components keep replacing the machine code that
one of them, the Worker, executes.  This directory holds TLA+ models of those
components, the TLC configurations that check them, and proofs that TLAPS checks.

## 1. The system

| Part | Source (under `components/` unless noted) | What it does |
|---|---|---|
| AdminConsole | `AdminConsole/admin.c` | for ever: ask for telemetry, force a mutation |
| Dispatcher | `Dispatcher/dispatcher.c` | runs the mutation transaction, attests, injects |
| Generator | `Generator/generator.c` | ChaCha CSPRNG, synthesises a variant |
| Generator (LLVM) | `Generator/src/lib.rs` | alternative backend, not built by CMake |
| Repository | `Repository/repository.c` | hashes a variant, has it signed, stores metadata |
| fTPM | `TPM_Device/tpm.c` | HMAC-SHA256 signing and verification |
| Worker | `Worker/worker.c` | executes its arena; offers a hash of it |
| POSIX layer | `Worker/posix_layer.c` | file calls of the Worker, proxied to the VFS |
| VFS | `VFS/vfs_server.c` | log file with a quota, stdout and socket stubs |
| Scheduler | `Scheduler/scheduler.c` | emits a tick after every quantum |
| Verifier | `Verifier/verifier.c` | its control thread returns at once |
| Assembly | `hk_system.camkes`, `interfaces/hk_interfaces.idl` | connections, dataports, rights |
| SDK, build tools | `include/hk_sdk.h`, `hk_build_tools/` | annotations, LLVM pass, pool generator |
| Start-up | `component.common.c`, `component.environment.c` of the CAmkES tool | barriers between a component's threads before it serves |

All calls between components are `seL4RPCCall`: the caller blocks until the
server's single thread is back in its receive loop, and again until it replies.
Bulk data goes through shared dataports without any lock.  The Scheduler's tick is
the only asynchronous signal (`seL4Notification`).  Kernel, CAmkES tool and
libraries are vendored; of those only the code that decides how the components
start and interleave is modelled.

Two symbols do not have the name of the dataport they are connected through
(`repo_storage` for `repo_metadata` in the Dispatcher, `gen_buf` for
`gen_output_buf` in the Generator); the models use the connection of the assembly.
The assembly also connects the fTPM's `crypto_api` by two connections; the model
serves both clients with one thread.  Components without `control` in the assembly
(Worker, Repository, TPM_Device, VFS) never have their `run()` called.

## 2. The modules

| Module | Models | Used by |
|---|---|---|
| `CInt` | `int` and `uint32_t` of a parametric width, casts and wrap-around | `MutationCycle`, `VfsServer`, `TickLink` |
| `Word32` | 32-bit words as two halves: sum, xor, shifts, bytes | `Jenkins`, `Synthesis`, `ChaCha`, `Hmac` |
| `Jenkins` | the one-at-a-time hash | `MCMutationCycle` |
| `MutationCycle` | AdminConsole, Dispatcher, Generator, Repository, fTPM, Worker and the RPC connector between them | `MCMutationCycle`, `MutationCycleProofs` |
| `SecureSwap` | abstract: the Worker's code is replaced in one step, never while it runs | refined by `MutationCycle` |
| `Synthesis` | the Generator draw by draw and byte by byte, and the Worker executing the bytes | `MCSynthesis`, `SynthesisProofs` |
| `ChaCha` | the CSPRNG's block function, beside the ChaCha20 block of the same state | `MCChaCha` |
| `Hmac` | the fTPM's SHA-256 context, padding and HMAC, against their standards | `MCHmac`, `HmacProofs` |
| `VfsServer` | VFS server and the Worker's POSIX layer | `MCVfsServer`, `VfsServerProofs` |
| `Scheduler` | tick loop and `set_quantum` | `TickLink` |
| `TickLink` | the `seL4Notification` connector that carries the tick, with its lock and its handoff semaphore | `MCTickLink`, `TickLinkProofs` |
| `Startup` | control thread, interface threads and fault handler of one component until they serve | `MCStartup`, `StartupProofs`, `LifecycleProofs` |
| `Lifecycle` | abstract: pre_init, every init, post_init, then serving | refined by `Startup` |
| `MutatorPass` | the LLVM pass `hk-mutate`, instruction by instruction | `VariantPool` |
| `VariantPool` | `generate_pool.py`, run after run | `MCVariantPool`, `VariantPoolProofs` |

Modules named `MC...` give the constants values for TLC; modules named `...Proofs`
hold the theorems.  A definition marked `Mutant` is a plausible mistake in the code
that follows it; putting it in place of the definition breaks a property, which
shows that the property depends on that code.

### MutationCycle

`pc` says where the thread of each of the six components is; `Call` and `Reply` are
the two halves of an RPC.  The Dispatcher's statics keep their names, `next_id` and
`local` are the locals of its transaction, and the four dataports are arrays of
`PageSize` bytes.  `admin_api_force_mutation` is cut at every point where another
thread can run or where a shared buffer is touched:

    AdminMutate -> DispRequestGeneration -> GenEmit -> GenCopy -> GenAddVariant
    -> RepoHash -> crypto_api_sign_data -> RepoCommit -> GenReturn -> DispReadMeta
    -> DispHash -> crypto_api_verify_signature -> DispCopyByte* -> DispCommitSwap
    -> DispExecute -> WorkerRuns | WorkerFaults -> DispReply

`memcpy` into the executable arena is one action per byte.  A transaction whose
metadata or signature does not match goes from `DispReadMeta` or the verification
straight to `DispExecute`, as the code does.

`TransitFault` is the environment the attestation is built for: one byte of
`guest_ram` or `gen_buf` changes after both were filled and before the Dispatcher
hashed, at most once per transaction and `MaxFaults` times in all.  A change before
the copy to `gen_buf`, or an equal change of both buffers, is signed as part of the
variant, and a change after the hash is never looked at: nothing in the code could
notice either, so they are outside the model.  `tainted`, `attested` and `faults`
are history variables.

`Hash` and `Mac` are parameters, and so are the variants (`Codes`).  The runs take
`Jenkins` for the hash and a permutation for the MAC; the proofs take any.  An arena that
does not start with a variant may fault the Worker's thread, which then never
replies.

### Synthesis and ChaCha

`Synthesis` follows one request after another from the draw of `junk_len` to the
return of the Worker's `jit_task()`.  A drawn word may be any word; the model keeps
which word of the keystream it is (`block`, `chacha_index`), because order and reuse
are what the code decides, and the words themselves are left to `ChaCha`.  Each
draw is a step, so a block may run out and the counter wrap anywhere in a request.
The Worker's processor is external code: it decodes the bytes at `ip`, not a list of
instructions, so a mask whose bytes read as opcodes can do harm if anything could.
The RPCs around synthesis are in `MutationCycle`.

`ChaCha` computes one block in ten double rounds and a sum, with the macro `QR` as it
is written; `ref` is advanced in step with the quarter round of ChaCha20.

### Hmac

A context is a record with `data`, `datalen`, `bitlen` and a state.  The compression
function is symbolic: a state is the sequence of blocks compressed since
`sha256_init`, so two digests are equal only if all their input was, and a byte of a
digest is a pair of its index and that sequence.  All the code around the compression
function is kept: one step per byte of `sha256_update`, both paddings, the length
field, the key pads, two hashes with one context, truncation, comparison.

### Startup

`post_main` and the functions it calls are a table: the semaphore waited for or posted
at each label (`Waits`, `Posts`) and the label that follows (`After`).  A wait or a
post is an atomic change of the count and then, if need be, a system call, with a
point in between (`ipc = "enter"`) where the thread has decremented the count but is
not yet in the endpoint's queue.  A passive thread takes steps only while it holds
the scheduling context that the control thread lends it.  `Builds` ranges over what
the template generates: passive interfaces, the fault handler thread, interfaces
whose `__run` returns.

### MutatorPass and VariantPool

An instruction is an operation, the name it defines and two operands.  `Rewrite`
inserts three instructions, redirects later uses and erases the addition, with the
iterator already moved on, as in the C++ loop.  `VariantPool` runs the pass from the
script; `Stop` is a tool that fails (`sys.exit`) or an interrupted build, at any
point, and the binaries and the header it leaves are there when the script is started
again, on another source perhaps.  Each array of the header is written in a step of
its own.  `alive-tv` is taken to be sound, and may refuse anything (it has time-outs).

### VfsServer

`disk_offset` is the server's only state; `call` records the last RPC and its
result, `acked` is the exact (unbounded) sum of the accepted counts.  Sizes go from
`size_t` through the client's `(int)` to the server's `uint32_t` as in the code.  The
quota test is `>=`, so a write that would just fill the disk is refused; the model
keeps it.

### Scheduler and TickLink

`hw_tick__run` is one thread of the connector, the clients are others; each atomic
operation on `lock_count` or `handoff_value`, each wait and each signal is a step.
`seL4_Signal` on the handoff endpoint is a blocking send, so `RunSignal` is a
rendezvous with a sleeping client.  `sync_atomic_decrement_safe` fails at `INT_MIN`:
`Lock` then drops the tick (interface thread) or returns -1 (client).  Callbacks do
not call the connector themselves.  The Dispatcher has no client thread, which is
the instance `Clients = {}`; the connector is checked for any clients because it is
the piece a tick-driven Dispatcher would have to rely on.

## 3. The runs

| Run | Result | Shows |
|---|---|---|
| `cycle_faulty` | pass | all safety properties of the transaction, up to two corrupted transactions, the first included |
| `cycle_live` | pass | every mutation request is answered; hot-swaps never stop; the transaction implements `SecureSwap` |
| `synthesis` | pass | keystream in order, sizes, equal buffers; every variant returns the payload and is decoded as it was emitted |
| `digest` | pass | the context accounts for every byte; signatures are HMACs and verdicts are right, at every padding |
| `vfs_any_size` | pass | quota, exact accounting and read results for every `size_t` |
| `tick_clients` | pass | mutual exclusion, callback and semaphore properties with three clients |
| `tick_live` | pass | ticks are taken, callbacks invoked, sleepers woken; ticks for ever; an untaken count stops at `INT_MAX` |
| `startup_builds` | pass | every build starts in the order of `Lifecycle`; without passive interfaces all threads get through |
| `pool` | pass | the pass keeps the meaning at every step and leaves no addition; a complete header holds verified variants; runs end |
| `cycle_unverified_run` | violation | README: "executing only the verified polymorphic payloads" |
| `chacha` | violation | `generator.c`: "ChaCha20 CSPRNG Implementation" |
| `startup_passive` | violation | `component.common.c`: "Passive threads will receive the IPC" |

The violations are disagreements between the code and what it or its documentation
says of it; `PROJECT.json` quotes both sides under `findings`.

**Bounds.**

* Cycle: `PageSize = 3` with variants of one, two and three bytes: a shorter variant
  may follow a longer one (left-over tail) and a longer a shorter one, and there is a
  partial copy before and after the end of the variant.  `IntMax = 1` makes the
  mutation count wrap after two swaps and go through negative ids.  Two faults allow
  a blocked transaction right after a blocked one.
* Synthesis: blocks of three words against four or five draws in a request, so that
  the refill falls on every draw in turn; a counter with two values wraps at once; one
  or two junk instructions, so that sizes vary by two and a tail is left over.  The
  three words are the payload itself (which masks to zero) and two whose bytes are
  RET, NOP, ADD and XOR opcodes.
* Digest: blocks of eight bytes with a two-byte length field and data of every length
  up to a block: no padding case is missing.  25 bytes make the bit count take both
  bytes of the field.
* VFS: `IntMax = 15`, a disk of 9 bytes and sizes up to 63 cover positive, negative
  and wrapping counts on both sides of the quota.
* Tick: three clients and the interface thread bring the lock and the handoff
  semaphore to `INT_MIN`, and a second tick brings the latter to `INT_MAX`;
  `Loops = 1` iteration per millisecond stands for 100000.  In `tick_live` two clients
  suffice for one to wait behind another, and the lock cannot overflow.
* Start-up: two interface threads, as the components with most of them have, and all
  builds of those up to symmetry.  Start-up ends in waits that nobody answers, so
  deadlock is not checked there; `EveryoneStarts` is.
* Pool: two variants, words of two bits, functions in which a sum is used twice, by
  another sum, and by an instruction that is left alone.

**Fairness.**  All components have the default priority, and the kernel runs threads
of a priority in turn, so a thread that can run does: weak fairness for each thread.
`tick_live` adds strong fairness for waking from the lock's notification object and
for receiving from the handoff endpoint, since the kernel queues waiters in order of
arrival.  No client is obliged to start an operation, and faults and `set_quantum`
have no fairness.  In `Startup` a rendezvous at an endpoint is fair for the same
reason; `run()` need not return and scheduling-context calls need not fail.  In
`VariantPool` a started script goes on (weak fairness); nobody has to start one, and
`PoolFinishes` excepts the run whose variants are refused for ever, since the retry
loop of the script has no limit.  In `cycle_live` no fault hits before the first
hot-swap: with one, the Worker may run an empty arena and fault, and nothing is
answered any more (`cycle_unverified_run` shows the state).

## 4. The proofs

Every theorem holds for all values of the constants that satisfy the named
assumptions, that is for the real 4096-byte page and 32-bit ints.

* `MutationCycleProofs`.  `TypeCorrect`, then `ChainCorrect` (a server works exactly
  while its caller waits), which is inductive together with the types and carries
  everything else: because only one thread of the chain is active, `ArenaStable` and
  `CheckedCopy` follow although no dataport is locked.  `CountCorrect` needs the id
  of the transaction under way to be one more than the count (`IdInv`).
  On top of them, `AttestedCorrect` needs `AttestInv`: the request
  at the fTPM is for what is in `guest_ram`, and the part already copied equals it.
  It assumes nothing of hash, MAC or faults.  `CleanCorrect` rests on `TransitInv`,
  which follows the variant from `gen_buf` over the hash and the signature to the
  metadata: at each hop either `guest_ram` is intact or what was signed is, and both
  in an undisturbed transaction.  `SignedCorrect` says what is left if digests may
  collide: the arena has the length and the signature of what was emitted
  (`SynthInv`).  `SynthesisedCorrect` concludes that it is what was emitted, assuming
  `CollisionFree`: two strings of one length with the same signature are equal.  A
  32-bit digest has such collisions, so for the real one it says what holds until
  one occurs.
  `Refinement` assumes `CollisionFree` too, and that no fault
  hits before the first swap (`FirstInv`): otherwise the Worker starts an arena
  nothing was installed in.  Most steps are hidden from SecureSwap (`Hidden`); the
  fTPM's verdict is the swap, the call of the Worker the start, its reply or fault the end.
* `VfsServerProofs`.  `TypeCorrect`, `OffsetCorrect`, `AccountingCorrect` and
  `ReadCorrect` from one inductive invariant, over wrapping 32-bit sums.
* `TickLinkProofs`, for any number of clients.  `LockCorrect` rests on `LockInv`:
  the count is 1 less the number of holders and sleepers, and the right to the lock
  is in one place (a holder, a thread about to signal, the signalled notification),
  and somebody sleeps whenever it is being handed over.  `PendingCorrect` and
  `AssertionsCorrect` use the exclusion: a client that found no pending tick under
  the lock still finds none when it fills the slot.  `SleepersCorrect` counts the
  sleepers of the handoff semaphore.  `CallbackCorrect` is an action property.
* `SynthesisProofs`, for every block size, counter width, number of junk instructions
  and page size.  `StreamCorrect`: the word just served is the one before
  `chacha_index` in `block`, and the counter is one ahead of `block` (`StreamInv`).
  `SizeCorrect`: what is emitted and what is left to emit stay within the bounds
  together (`SizeInv`).  `BuffersCorrect`: from the cursor on the buffers agree at all
  times (`BufferInv`), since what one request writes it also copies.
  `PayloadCorrect` and `DecodingCorrect` follow the bytes themselves (`LayoutInv`):
  what is emitted so far splits into junk instructions at a set of boundaries `B`, the
  last thirteen bytes are the logic with its mask, and the processor is at a boundary
  with the value of `eax` that belongs there.  No byte of a mask is at a boundary, so
  none is taken for an instruction.  That the mask comes off again (zero plus the masked
  payload, xor the mask) is proved for all 32-bit words from the recursive definition
  of xor, one bit more at a time (`Undoes`).
* `HmacProofs`, for every block size, every shorter length field, any digest and
  signature size, any key, data and stack contents (`HmacAssumption` says that the
  first three are numbers, that data is a sequence and that the stack holds something
  of the shape of a context).  In `IInv` the context, while a hash is under way, holds
  the message but for the bytes not yet fed (`Taking`): whole blocks compressed, the
  rest in the buffer.  `AbsorbCorrect` is a part of it.  For `HmacCorrect` the lemma
  `FinalBlocks` shows that both paddings of `sha256_final`, in the buffer or with a
  block of their own, compress the blocks of the message padded as the standard
  says; this needs that only one number of zeros fills the last block.
* `VariantPoolProofs`, for every integer type, any number of variants and any
  sources in SSA form (`PoolAssumption`), which is what clang hands to a pass.
  `MeaningCorrect` rests on the lemma `SplicedMeaning`, a simulation of the function by
  the rewritten one: the same values up to the addition, the value of the sum under a
  new name after it (`SumIdentity`, modulo the number of values), and from there
  on the same values again because every later use was redirected.  SSA form is needed,
  and kept (`SplicedSSA`): otherwise a redirected name could be defined again.
  `PassCorrect` needs that no addition is left behind the iterator (`Passed`).
  `HeaderCorrect` needs that what the manifest lists was accepted in this run and is
  still what the files hold (`Progress`, `Described`), and that the arrays written
  so far are those files (`Partial`); a stopped run leaves a header that is not closed.
* `StartupProofs` and `LifecycleProofs`, for any number of interface threads and any
  builds.  The inductive invariant `IInv` relates each semaphore's count to the
  threads that have posted, wait, or are between the two (`Balance`), says which
  threads may hold the scheduling context (`Lending`), how far the threads are for
  each label of the control thread (`Ordered`), and that only the control thread waits
  for `interface_init_lock`, with at most one thread sending to it (`SoleWaiter`).  `TypeCorrect`, `StayCorrect` and
  `LifecycleCorrect` follow; the last is a refinement of `Lifecycle`.

Some of these arguments are inductions over data: that the recursive functions for xor
and for the values of a function's names exist, and that those values agree.  They are
stated of a set (`Induction`: a set of naturals with 0, and with n + 1 whenever it has
n, has them all), which follows from the existence of least members.

Only model-checked: liveness under fairness (`MutationAnswered`, `KeepsMutating`,
`TicksTaken`, `CallbackInvoked`, `SleeperWakes`, `TicksForever`, `PendingSaturates`,
`EveryoneStarts`, `PoolFinishes`), which is beyond this prover, and what the violation
runs show.  The Jenkins hash is a parameter of the proofs; that it can be computed bit by
bit is used in the runs only.  Every safety property that a passing run checks is a
theorem.

## 5. Observations without a run

Met while modelling; each can be read off the code.

* The id of a blocked transaction is used again by the next one, while the IDL calls
  it a "Unique identifier for the generated variant".
* `verifier_target_get_hash` (`worker.c`) hashes the whole page of 4096 bytes, the
  Dispatcher and the Repository only `payload_size` bytes: the Worker's hash is not
  the one that was signed.  Nobody calls it: the Verifier's `run()` returns at once,
  although its header speaks of periodic polling.
* A write of a count that is negative as an `int` (a `size_t` above `INT_MAX`) can pass
  the quota test of the VFS by wrapping and moves the log's offset back, under the
  comment "advance offset".  `AckedIsStored` and `OffsetWithinDisk` hold all the same.
* The Dispatcher's tick handler is empty and nothing registers it: mutations follow the
  AdminConsole's loop, not "the `Scheduler` tick" of the README.
* An interface whose `__run` returns, in a component with a fault handler thread, may
  take the handler's wake-up (`WakeUpsKept` in `Startup`); no component is built so.
* `hk_sdk.h` marks functions with an `annotate` attribute, and the LLVM pass looks for
  the function attribute `hk_mutate`, which is another thing; and
  `generate_pool.py` names a source file, `worker_logic.c`, that is not in the
  repository.  The models take both sides as written: functions may be marked or not.

## 6. What is not modelled

* The vendored kernel, CAmkES tool, C library, lwIP and the other libraries, which are
  nearly all of the repository's lines.  They are third-party code with
  verification or tests of their own, most of it is not linked into this application,
  and no property of the application depends on more of it than the connectors, the
  semaphores and start-up, which are modelled.  Endpoints, notification objects and
  scheduling contexts are modelled by what callers rely on.
* `Generator/src/lib.rs`: no CMake file builds it, and it is not a drop-in for the
  Generator that is built (it does not write `guest_ram`, which the Dispatcher injects).
* The SHA-256 compression function, kept symbolic as said above.
* Access rights of the dataports, RPC marshalling and RPC error handlers, which would
  only matter to a component that misbehaves.
* Printing, and the busy-wait of the AdminConsole, whose length no property depends on.
* `baked_mutations.h`, constant data no source includes; `hk_sdk.h`, annotations.

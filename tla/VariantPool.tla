----------------------------- MODULE VariantPool -----------------------------
(***************************************************************************)
(* generate_pool.py: mutate, verify with Alive2, compile, and package a    *)
(* pool of variants into a header, run after run, on a source that may     *)
(* change between runs.  A run can stop anywhere: run_command exits when a *)
(* tool fails, and a build can be interrupted.  Files survive it.          *)
(***************************************************************************)
EXTENDS MutatorPass

CONSTANTS VARIANTS_COUNT,
          Sources   \* base IR that clang may produce, marked or not

ASSUME PoolAssumption == /\ VARIANTS_COUNT \in Nat
                         /\ Sources \subseteq [ir : Code, marked : BOOLEAN]
                         /\ \A s \in Sources : SSA(s.ir)

VARIABLES pc, valid_count, manifest,
          bin,       \* the files v0.bin, v1.bin, ...
          header,    \* baked_mutations.h as written so far
          accepted   \* history: variants that alive-tv has passed in this run
vars == <<passVars, pc, valid_count, manifest, bin, header, accepted>>

Ids == 0..(VARIANTS_COUNT - 1)
NoHeader == [arrays |-> <<>>, records |-> <<>>, closed |-> FALSE]

Init ==
  /\ marked = FALSE /\ base_ir = <<>> /\ mutated_ir = <<>> /\ it = 1
  /\ pc = "exited"
  /\ valid_count = 0
  /\ manifest = <<>>
  /\ bin = [v \in Ids |-> <<>>]
  /\ header = NoHeader
  /\ accepted = {}

Running == pc \notin {"exited", "done"}

\* The script is started and clang compiles the source as it is now.
Start ==
  /\ ~Running
  /\ \E s \in Sources : base_ir' = s.ir /\ marked' = s.marked
  /\ manifest' = <<>>
  /\ valid_count' = 0
  /\ accepted' = {}
  /\ pc' = "loop"
  /\ UNCHANGED <<mutated_ir, it, bin, header>>

\* while valid_count < VARIANTS_COUNT: start opt; or go on to package_header.
Attempt ==
  /\ pc = "loop"
  /\ valid_count < VARIANTS_COUNT
  /\ StartPass
  /\ pc' = "opt"
  /\ UNCHANGED <<marked, base_ir, valid_count, manifest, bin, header, accepted>>

OpenHeader ==
  /\ pc = "loop"
  /\ valid_count >= VARIANTS_COUNT
  /\ header' = NoHeader
  /\ pc' = "package"
  /\ UNCHANGED <<passVars, valid_count, manifest, bin, accepted>>

OptStep ==
  /\ pc = "opt"
  /\ Visit \/ Rewrite
  /\ UNCHANGED <<pc, valid_count, manifest, bin, header, accepted>>

OptDone ==
  /\ pc = "opt"
  /\ PassDone
  /\ pc' = "alive"
  /\ UNCHANGED <<passVars, valid_count, manifest, bin, header, accepted>>

\* alive-tv finds the variant equivalent; it is sound.
AliveAccepts ==
  /\ pc = "alive"
  /\ Meaning(mutated_ir) = Meaning(base_ir)
  /\ accepted' = accepted \cup {mutated_ir}
  /\ pc' = "compile"
  /\ UNCHANGED <<passVars, valid_count, manifest, bin, header>>

\* Mutant: a variant that was not verified is used all the same.
AliveIgnored ==
  /\ pc = "alive"
  /\ pc' = "compile"
  /\ UNCHANGED <<passVars, valid_count, manifest, bin, header, accepted>>

\* It does not, or runs out of time: retry.
AliveRejects ==
  /\ pc = "alive"
  /\ pc' = "loop"
  /\ UNCHANGED <<passVars, valid_count, manifest, bin, header, accepted>>

\* llc and objcopy write v<valid_count>.bin; code stands for its bytes.
Compile ==
  /\ pc = "compile"
  /\ bin' = [bin EXCEPT ![valid_count] = mutated_ir]
  /\ pc' = "record"
  /\ UNCHANGED <<passVars, valid_count, manifest, header, accepted>>

\* The bytes are read back and hashed; the hash is free of collisions.
Record ==
  /\ pc = "record"
  /\ manifest' = Append(manifest, [id |-> valid_count, hash |-> bin[valid_count],
                                   size |-> Len(bin[valid_count])])
  /\ valid_count' = valid_count + 1
  /\ pc' = "loop"
  /\ UNCHANGED <<passVars, bin, header, accepted>>

\* package_header: one array per variant, its file read once more, ...
WriteArray ==
  /\ pc = "package"
  /\ Len(header.arrays) < Len(manifest)
  /\ LET var == manifest[Len(header.arrays) + 1]
     IN  header' = [header EXCEPT !.arrays = Append(@, [id   |-> var.id,
                                                        data |-> bin[var.id]])]
  /\ UNCHANGED <<passVars, pc, valid_count, manifest, bin, accepted>>

\* ... then the table of records and #endif.
WriteTable ==
  /\ pc = "package"
  /\ Len(header.arrays) = Len(manifest)
  /\ header' = [header EXCEPT !.records = manifest, !.closed = TRUE]
  /\ pc' = "done"
  /\ UNCHANGED <<passVars, valid_count, manifest, bin, accepted>>

Stop ==
  /\ Running
  /\ pc' = "exited"
  /\ UNCHANGED <<passVars, valid_count, manifest, bin, header, accepted>>

Pipeline == \/ Attempt \/ OpenHeader \/ OptStep \/ OptDone \/ AliveRejects
            \/ AliveAccepts \/ Compile \/ Record \/ WriteArray \/ WriteTable
Next == Start \/ Pipeline \/ Stop

Spec == Init /\ [][Next]_vars

\* A script that was started is a process the build machine keeps running.
FairSpec == Spec /\ WF_vars(Pipeline)
------------------------------------------------------------------------------
\* After every single replacement the function still computes what it did, for
\* all arguments, modulo 2^w: the pass never passes through a broken function,
\* whatever uses of the sum follow.
PassPreservesMeaning ==
  pc \in {"opt", "alive"} => Meaning(mutated_ir) = Meaning(base_ir)

\* The pass visits every instruction once: no integer addition is left in a
\* marked function, and an unmarked one is not touched.
PassComplete ==
  pc = "alive" =>
    IF marked THEN \A k \in DOMAIN mutated_ir : ~IsIntAdd(mutated_ir[k])
    ELSE mutated_ir = base_ir

\* A header that compiles (it ends in #endif) holds VARIANTS_COUNT variants
\* under the ids 0, 1, ..., each verified in the run that wrote it, with the
\* size and the hash of its own data: whatever stopped earlier runs and left old
\* files behind, and although each file is read twice.
HeaderSound ==
  header.closed =>
    /\ Len(header.records) = VARIANTS_COUNT
    /\ Len(header.arrays) = VARIANTS_COUNT
    /\ \A k \in 1..VARIANTS_COUNT :
         LET r == header.records[k]
             a == header.arrays[k]
         IN  /\ r.id = k - 1 /\ a.id = k - 1
             /\ r.hash = a.data /\ r.size = Len(a.data)
             /\ pc = "done" => a.data \in accepted

\* A run comes to an end unless verification goes on failing for ever.
PoolFinishes ==
  ~([]<><<AliveRejects>>_vars) => (pc = "loop" ~> ~Running)
==============================================================================

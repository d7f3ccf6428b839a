----------------------------- MODULE MutatorPass -----------------------------
(* The LLVM pass that rewrites a + b as a - (~b) - 1 in the functions marked *)
(* for mutation.  An instruction gives a value to a name; 1 and 2 name the   *)
(* arguments and 0 the constant one.                                         *)
EXTENDS Integers, Sequences

CONSTANT Modulus   \* number of values of the integer type (2^32)

ASSUME ModulusAssumption == Modulus \in Nat /\ Modulus > 1

VARIABLES marked,      \* does the function have the attribute hk_mutate?
          base_ir,     \* its instructions
          mutated_ir,  \* the same, as rewritten so far
          it           \* the iterator: next instruction to visit
passVars == <<marked, base_ir, mutated_ir, it>>

Instruction == [op : {"add", "vadd", "sub", "mul", "not", "ret"},
                dst : Nat, x : Nat, y : Nat]
Code == Seq(Instruction)

\* Every name is defined once, and before it is used: LLVM's SSA form.
Defined(ir, k, m) == m \in 0..2 \/ \E j \in 1..(k - 1) : ir[j].dst = m
SSA(ir) ==
  /\ Len(ir) > 0
  /\ \A k \in 1..Len(ir) :
       /\ ir[k].dst > 2
       /\ \A j \in 1..Len(ir) : ir[j].dst = ir[k].dst => j = k
       /\ Defined(ir, k, ir[k].x) /\ Defined(ir, k, ir[k].y)

Def(op, dst, x, y) == [op |-> op, dst |-> dst, x |-> x, y |-> y]

\* The first name after those in use.
Fresh(ir) == LET used == {ir[k].dst : k \in DOMAIN ir} \cup {2}
             IN  1 + CHOOSE n \in used : \A m \in used : n >= m

\* I.replaceAllUsesWith.
Renamed(ir, old, new) ==
  [k \in DOMAIN ir |-> [ir[k] EXCEPT !.x = IF @ = old THEN new ELSE @,
                                     !.y = IF @ = old THEN new ELSE @]]

StartPass == mutated_ir' = base_ir /\ it' = 1

\* The pass is over, or never looks at the function.
PassDone == ~marked \/ it > Len(mutated_ir)

IsIntAdd(i) == i.op = "add"

\* Mutant: the iterator is not advanced past other instructions.
VisitStuck ==
  /\ ~PassDone
  /\ ~IsIntAdd(mutated_ir[it])
  /\ UNCHANGED passVars

Visit ==
  /\ ~PassDone
  /\ ~IsIntAdd(mutated_ir[it])
  /\ it' = it + 1
  /\ UNCHANGED <<marked, base_ir, mutated_ir>>

\* Mutant: the operands of the subtraction are swapped.
ReplacementSwapped(i, n) == <<Def("not", n, i.y, 0), Def("sub", n + 1, n, i.x),
                              Def("sub", n + 2, n + 1, 0)>>

Replacement(i, n) == <<Def("not", n, i.y, 0), Def("sub", n + 1, i.x, n),
                       Def("sub", n + 2, n + 1, 0)>>

\* Mutant: the iterator is advanced after the erasure as well.
RewriteSkips ==
  /\ ~PassDone
  /\ IsIntAdd(mutated_ir[it])
  /\ LET n    == Fresh(mutated_ir)
         i    == mutated_ir[it]
         rest == SubSeq(mutated_ir, it + 1, Len(mutated_ir))
     IN  mutated_ir' = SubSeq(mutated_ir, 1, it - 1) \o Replacement(i, n)
                         \o Renamed(rest, i.dst, n + 2)
  /\ it' = it + 4
  /\ UNCHANGED <<marked, base_ir>>

\* Three instructions are inserted before the addition, which is erased; the
\* iterator already points past it.
Rewrite ==
  /\ ~PassDone
  /\ IsIntAdd(mutated_ir[it])
  /\ LET n    == Fresh(mutated_ir)
         i    == mutated_ir[it]
         rest == SubSeq(mutated_ir, it + 1, Len(mutated_ir))
     IN  mutated_ir' = SubSeq(mutated_ir, 1, it - 1) \o Replacement(i, n)
                         \o Renamed(rest, i.dst, n + 2)
  /\ it' = it + 3
  /\ UNCHANGED <<marked, base_ir>>
------------------------------------------------------------------------------
\* What the instructions compute, on words of the integer type.
Compute(op, u, v) == CASE op \in {"add", "vadd"} -> (u + v) % Modulus
                       [] op = "sub" -> (u - v) % Modulus
                       [] op = "mul" -> (u * v) % Modulus
                       [] op = "not" -> Modulus - 1 - u
                       [] op = "ret" -> u

Eval(i, env) == [env EXCEPT ![i.dst] = Compute(i.op, env[i.x], env[i.y])]

Arguments(ir, a, b) ==
  [n \in 0..Fresh(ir) |-> IF n = 0 THEN 1 ELSE IF n = 1 THEN a ELSE b]

\* The values of the names after each number of instructions.
Env(ir, a, b) ==
  LET env[k \in 0..Len(ir)] == IF k = 0 THEN Arguments(ir, a, b)
                               ELSE Eval(ir[k], env[k - 1])
  IN  env

\* The value of the last instruction, ret, for arguments a and b.
Value(ir, a, b) == Env(ir, a, b)[Len(ir)][ir[Len(ir)].dst]

Meaning(ir) == [v \in (0..(Modulus - 1)) \X (0..(Modulus - 1)) |->
                  Value(ir, v[1], v[2])]
==============================================================================

-------------------------- MODULE VariantPoolProofs --------------------------
(* Proofs about the pool of variants and the pass that mutates them, for      *)
(* every number of variants and every source.                                 *)
EXTENDS VariantPool, WellFoundedInduction, TLAPS

\* A non-empty set of naturals has a least member: induction, for the provers.
LEMMA Least ==
  ASSUME NEW T \in SUBSET Nat, T # {}
  PROVE  \E n \in T : \A m \in T : n <= m
<1> DEFINE R == OpToRel(<, Nat)
<1>1. IsWellFoundedOn(R, Nat)
  BY NatLessThanWellFounded
<1> HIDE DEF R
<1>2. PICK n \in T : \A m \in T : ~(<<m, n>> \in R)
  BY <1>1, WFMin
<1>3. \A m \in T : ~(m < n)
  <2> TAKE m \in T
  <2>1. <<m, n>> \notin R
    BY <1>2
  <2> QED
    BY <2>1 DEF R, OpToRel
<1> QED
  BY <1>3

\* So a set of naturals that has lo, and n + 1 with every n from lo on, has all.
LEMMA Induction ==
  ASSUME NEW S \in SUBSET Nat, NEW lo \in Nat, lo \in S,
         \A n \in Nat : n >= lo /\ n \in S => n + 1 \in S
  PROVE  \A n \in Nat : n >= lo => n \in S
<1> DEFINE T == {n \in Nat : n >= lo /\ n \notin S}
<1> SUFFICES ASSUME T # {} PROVE FALSE
  OBVIOUS
<1>1. PICK n \in T : \A m \in T : n <= m
  BY Least
<1>2. n \in Nat /\ n > lo /\ n \notin S
  BY <1>1
<1>3. n - 1 \in Nat /\ n - 1 >= lo /\ n - 1 \notin T
  BY <1>1, <1>2
<1>4. n - 1 + 1 \in S
  BY <1>3
<1> QED
  BY <1>2, <1>4
------------------------------------------------------------------------------
(* A name that no instruction of a function defines.                         *)

LEMMA Instructions ==
  ASSUME NEW ir \in Code
  PROVE  /\ Len(ir) \in Nat /\ DOMAIN ir = 1..Len(ir)
         /\ \A k \in 1..Len(ir) : /\ ir[k] \in Instruction
                                   /\ ir[k].dst \in Nat
                                   /\ ir[k].x \in Nat /\ ir[k].y \in Nat
<1>1. /\ Len(ir) \in Nat /\ DOMAIN ir = 1..Len(ir)
      /\ \A k \in 1..Len(ir) : ir[k] \in Instruction
  BY DEF Code
<1>2. \A i \in Instruction : i.dst \in Nat /\ i.x \in Nat /\ i.y \in Nat
  BY DEF Instruction
<1> QED
  BY <1>1, <1>2

\* The names a function defines are bounded ...
LEMMA NamesBounded ==
  ASSUME NEW ir \in Code
  PROVE  \E b \in Nat : \A k \in 1..Len(ir) : ir[k].dst <= b
<1> DEFINE Bounded(n) == \E b \in Nat : \A k \in 1..n : ir[k].dst <= b
           T == {n \in 0..Len(ir) : ~Bounded(n)}
<1>0. Len(ir) \in Nat /\ \A k \in 1..Len(ir) : ir[k].dst \in Nat
  BY Instructions
<1> HIDE DEF Bounded
<1>1. ASSUME T # {} PROVE FALSE
  <2>0. T \in SUBSET Nat
    BY <1>0
  <2>1. PICK n \in T : \A m \in T : n <= m
    BY <1>1, <2>0, Least
  <2>2. n # 0
    <3>1. \A k \in 1..0 : ir[k].dst <= 0
      OBVIOUS
    <3>2. 0 \in Nat
      OBVIOUS
    <3>3. Bounded(0)
      BY <3>1, <3>2, Zenon DEF Bounded
    <3> QED
      BY <2>1, <3>3
  <2>3. n - 1 \in 0..Len(ir) /\ n - 1 \notin T
    BY <1>0, <2>0, <2>1, <2>2
  <2>4. PICK b \in Nat : \A k \in 1..(n - 1) : ir[k].dst <= b
    BY <2>3 DEF Bounded
  <2>5. ir[n].dst \in Nat /\ n \in Nat
    BY <1>0, <2>1, <2>2
  <2>6. \A k \in 1..n : ir[k].dst <= b + ir[n].dst
    <3> TAKE k \in 1..n
    <3>1. ir[k].dst \in Nat
      BY <1>0, <2>1
    <3>2. k = n \/ ir[k].dst <= b
      BY <2>4, <2>5
    <3> QED
      BY <2>5, <3>1, <3>2
  <2>7. b + ir[n].dst \in Nat
    BY <2>5
  <2>8. Bounded(n)
    BY <2>6, <2>7, Zenon DEF Bounded
  <2> QED
    BY <2>1, <2>8
<1>2. Bounded(Len(ir))
  BY <1>0, <1>1
<1> QED
  BY <1>2 DEF Bounded

\* ... so they have a maximum, and the name after it is new.
LEMMA FreshName ==
  ASSUME NEW ir \in Code
  PROVE  /\ Fresh(ir) \in Nat /\ Fresh(ir) > 2
         /\ \A k \in 1..Len(ir) : ir[k].dst < Fresh(ir)
<1> DEFINE S == {ir[k].dst : k \in DOMAIN ir} \cup {2}
           U == {u \in Nat : \A s \in S : s <= u}
<1>0. /\ DOMAIN ir = 1..Len(ir) /\ S \in SUBSET Nat /\ 2 \in S
      /\ \A k \in 1..Len(ir) : ir[k].dst \in S
  <2>1. /\ DOMAIN ir = 1..Len(ir)
        /\ \A k \in 1..Len(ir) : ir[k].dst \in Nat
    BY Instructions
  <2> QED
    BY <2>1
<1>1. PICK b \in Nat : \A k \in 1..Len(ir) : ir[k].dst <= b
  BY NamesBounded
<1>2. b + 2 \in U
  <2>1. \A s \in S : s <= b + 2
    <3>0. \A k \in 1..Len(ir) : ir[k].dst \in Nat
      BY Instructions
    <3>1. \A k \in 1..Len(ir) : ir[k].dst <= b + 2
      <4> HIDE DEF S
      <4> QED
        BY <1>1, <3>0
    <3> QED
      BY <1>0, <3>1
  <2> QED
    BY <2>1
<1>3. PICK u \in U : \A v \in U : u <= v
  BY <1>2, Least
<1>4. u \in S
  <2> SUFFICES ASSUME u \notin S PROVE FALSE
    OBVIOUS
  <2>1. u \in Nat /\ \A s \in S : s \in Nat /\ s <= u /\ s # u
    BY <1>0, <1>3
  <2>2. u - 1 \in Nat /\ \A s \in S : s <= u - 1
    <3> HIDE DEF S
    <3> QED
      BY <1>0, <2>1
  <2>3. u - 1 \in U
    BY <2>2, Zenon
  <2> QED
    BY <1>3, <2>1, <2>3
<1>5. \A s \in S : u >= s
  BY <1>0, <1>3
<1> DEFINE max == CHOOSE n \in S : \A m \in S : n >= m
<1>6. max \in S /\ \A s \in S : max >= s
  <2> HIDE DEF S
  <2> QED
    BY <1>4, <1>5
<1>7. Fresh(ir) = 1 + max
  BY DEF Fresh
<1> HIDE DEF S, max
<1>8. max \in Nat /\ max >= 2 /\ \A k \in 1..Len(ir) : ir[k].dst <= max
  BY <1>0, <1>6
<1>9. \A k \in 1..Len(ir) : ir[k].dst \in Nat
  BY <1>0, Zenon
<1> QED
  BY <1>7, <1>8, <1>9
------------------------------------------------------------------------------
(* One replacement: three instructions take the place of the k-th.           *)

Use(i, old, new) == [i EXCEPT !.x = IF @ = old THEN new ELSE @,
                              !.y = IF @ = old THEN new ELSE @]

Spliced(ir, k, n) ==
  SubSeq(ir, 1, k - 1) \o Replacement(ir[k], n)
    \o Renamed(SubSeq(ir, k + 1, Len(ir)), ir[k].dst, n + 2)

LEMMA UseType ==
  ASSUME NEW i \in Instruction, NEW old \in Nat, NEW new \in Nat
  PROVE  /\ Use(i, old, new) \in Instruction
         /\ Use(i, old, new).op = i.op /\ Use(i, old, new).dst = i.dst
         /\ Use(i, old, new).x = IF i.x = old THEN new ELSE i.x
         /\ Use(i, old, new).y = IF i.y = old THEN new ELSE i.y
BY DEF Use, Instruction

LEMMA RenamedType ==
  ASSUME NEW ir \in Code, NEW old \in Nat, NEW new \in Nat
  PROVE  /\ Renamed(ir, old, new) \in Code
         /\ Len(Renamed(ir, old, new)) = Len(ir)
         /\ \A k \in 1..Len(ir) : Renamed(ir, old, new)[k] = Use(ir[k], old, new)
<1>1. /\ Len(ir) \in Nat /\ DOMAIN ir = 1..Len(ir)
      /\ \A k \in 1..Len(ir) : ir[k] \in Instruction
  BY Instructions
<1>2. Renamed(ir, old, new) = [k \in 1..Len(ir) |-> Use(ir[k], old, new)]
  BY <1>1 DEF Renamed, Use
<1>3. \A k \in 1..Len(ir) : Use(ir[k], old, new) \in Instruction
  BY <1>1, UseType
<1> QED
  BY <1>1, <1>2, <1>3 DEF Code

LEMMA DefFields ==
  ASSUME NEW i, NEW op, NEW dst, NEW x, NEW y, i = Def(op, dst, x, y)
  PROVE  i.op = op /\ i.dst = dst /\ i.x = x /\ i.y = y
BY DEF Def

LEMMA ReplacementType ==
  ASSUME NEW i \in Instruction, NEW n \in Nat
  PROVE  /\ Replacement(i, n) \in Code /\ Len(Replacement(i, n)) = 3
         /\ Replacement(i, n)[1] = Def("not", n, i.y, 0)
         /\ Replacement(i, n)[2] = Def("sub", n + 1, i.x, n)
         /\ Replacement(i, n)[3] = Def("sub", n + 2, n + 1, 0)
<1>1. i.x \in Nat /\ i.y \in Nat
  BY DEF Instruction
<1>2. /\ Def("not", n, i.y, 0) \in Instruction
      /\ Def("sub", n + 1, i.x, n) \in Instruction
      /\ Def("sub", n + 2, n + 1, 0) \in Instruction
  BY <1>1 DEF Def, Instruction
<1> QED
  BY <1>2 DEF Replacement, Code

\* w is a, then b, then z.
InOrder(a, b, z, w) ==
  /\ w \in Code
  /\ Len(w) = Len(a) + Len(b) + Len(z)
  /\ \A j \in 1..Len(a) : w[j] = a[j]
  /\ \A j \in 1..Len(b) : w[Len(a) + j] = b[j]
  /\ \A j \in 1..Len(z) : w[Len(a) + Len(b) + j] = z[j]

LEMMA Joined ==
  ASSUME NEW a \in Code, NEW b \in Code, NEW z \in Code
  PROVE  InOrder(a, b, z, a \o b \o z)
<1>1. /\ a \o b \in Code /\ Len(a \o b) = Len(a) + Len(b)
      /\ \A j \in 1..Len(a) : (a \o b)[j] = a[j]
      /\ \A j \in 1..Len(b) : (a \o b)[Len(a) + j] = b[j]
  BY DEF Code
<1> DEFINE ab == a \o b
<1>2. Len(a) \in Nat /\ Len(b) \in Nat /\ Len(z) \in Nat /\ ab \in Code
  BY <1>1 DEF Code
<1> HIDE DEF ab
<1>3. /\ ab \o z \in Code /\ Len(ab \o z) = Len(ab) + Len(z)
      /\ \A j \in 1..Len(ab) : (ab \o z)[j] = ab[j]
      /\ \A j \in 1..Len(z) : (ab \o z)[Len(ab) + j] = z[j]
  BY <1>2 DEF Code
<1>4. /\ \A j \in 1..Len(a) : j \in 1..(Len(a) + Len(b))
      /\ \A j \in 1..Len(b) : Len(a) + j \in 1..(Len(a) + Len(b))
  BY <1>2
<1>5. /\ a \o b \o z \in Code
      /\ Len(a \o b \o z) = Len(a) + Len(b) + Len(z)
      /\ \A j \in 1..Len(a) : (a \o b \o z)[j] = a[j]
      /\ \A j \in 1..Len(b) : (a \o b \o z)[Len(a) + j] = b[j]
      /\ \A j \in 1..Len(z) : (a \o b \o z)[Len(a) + Len(b) + j] = z[j]
  BY <1>1, <1>2, <1>3, <1>4 DEF ab
<1> QED
  BY <1>5 DEF InOrder

\* What stands where afterwards.
Splices(ir, k, n, w) ==
  /\ w \in Code /\ Len(w) = Len(ir) + 2
  /\ \A j \in 1..(k - 1) : w[j] = ir[j]
  /\ w[k] = Def("not", n, ir[k].y, 0)
  /\ w[k + 1] = Def("sub", n + 1, ir[k].x, n)
  /\ w[k + 2] = Def("sub", n + 2, n + 1, 0)
  /\ \A j \in (k + 1)..Len(ir) : w[j + 2] = Use(ir[j], ir[k].dst, n + 2)

LEMMA SplicedCode ==
  ASSUME NEW ir \in Code, NEW k \in 1..Len(ir), NEW n \in Nat
  PROVE  Splices(ir, k, n, Spliced(ir, k, n))
<1> DEFINE a == SubSeq(ir, 1, k - 1)
           b == Replacement(ir[k], n)
           rest == SubSeq(ir, k + 1, Len(ir))
           z == Renamed(rest, ir[k].dst, n + 2)
<1>0. Len(ir) \in Nat /\ ir[k] \in Instruction /\ ir[k].dst \in Nat /\ k \in Nat
  BY Instructions
<1>1. a \in Code /\ Len(a) = k - 1 /\ \A j \in 1..(k - 1) : a[j] = ir[j]
  BY <1>0 DEF Code
<1>2. /\ rest \in Code /\ Len(rest) = Len(ir) - k
      /\ \A j \in 1..(Len(ir) - k) : rest[j] = ir[j + k]
  BY <1>0 DEF Code
<1>3. /\ b \in Code /\ Len(b) = 3
      /\ b[1] = Def("not", n, ir[k].y, 0) /\ b[2] = Def("sub", n + 1, ir[k].x, n)
      /\ b[3] = Def("sub", n + 2, n + 1, 0)
  BY <1>0, ReplacementType
<1> HIDE DEF a, b, rest
<1>4. /\ z \in Code /\ Len(z) = Len(ir) - k
      /\ \A j \in 1..(Len(ir) - k) : z[j] = Use(ir[j + k], ir[k].dst, n + 2)
  <2>1. n + 2 \in Nat
    OBVIOUS
  <2>2. /\ z \in Code /\ Len(z) = Len(rest)
        /\ \A j \in 1..Len(rest) : z[j] = Use(rest[j], ir[k].dst, n + 2)
    BY <1>0, <1>2, <2>1, RenamedType
  <2> QED
    BY <1>2, <2>2
<1> HIDE DEF z
<1>5. Spliced(ir, k, n) = a \o b \o z
  BY DEF Spliced, a, b, z, rest
<1> DEFINE w == a \o b \o z
<1>6. /\ w \in Code
      /\ Len(w) = Len(a) + Len(b) + Len(z)
      /\ \A j \in 1..Len(a) : w[j] = a[j]
      /\ \A j \in 1..Len(b) : w[Len(a) + j] = b[j]
      /\ \A j \in 1..Len(z) : w[Len(a) + Len(b) + j] = z[j]
  <2> HIDE DEF a, b
  <2>1. a \in Code /\ b \in Code /\ z \in Code
    BY <1>1, <1>3, <1>4
  <2>2. InOrder(a, b, z, w)
    BY <2>1, Joined
  <2> HIDE DEF w
  <2> QED
    BY <2>2 DEF InOrder
<1> HIDE DEF w
<1>7. /\ w \in Code /\ Len(w) = k - 1 + 3 + (Len(ir) - k)
      /\ \A j \in 1..(k - 1) : w[j] = ir[j]
      /\ w[k - 1 + 1] = b[1] /\ w[k - 1 + 2] = b[2] /\ w[k - 1 + 3] = b[3]
      /\ \A j \in 1..(Len(ir) - k) : w[k - 1 + 3 + j] = z[j]
  <2>1. 1 \in 1..3 /\ 2 \in 1..3 /\ 3 \in 1..3
    OBVIOUS
  <2>2. /\ w \in Code /\ Len(w) = k - 1 + 3 + (Len(ir) - k)
        /\ \A j \in 1..(k - 1) : w[j] = ir[j]
    BY <1>1, <1>3, <1>4, <1>6
  <2>3. \A j \in 1..3 : w[k - 1 + j] = b[j]
    BY <1>1, <1>3, <1>6
  <2>4. \A j \in 1..(Len(ir) - k) : w[k - 1 + 3 + j] = z[j]
    BY <1>1, <1>3, <1>4, <1>6
  <2> QED
    BY <2>1, <2>2, <2>3, <2>4
<1>8. /\ k - 1 + 1 = k /\ k - 1 + 2 = k + 1 /\ k - 1 + 3 = k + 2
      /\ k - 1 + 3 + (Len(ir) - k) = Len(ir) + 2
  BY <1>0
<1>9. ASSUME NEW j \in (k + 1)..Len(ir)
      PROVE  w[j + 2] = Use(ir[j], ir[k].dst, n + 2)
  <2>1. /\ j - k \in 1..(Len(ir) - k) /\ j - k + k = j
        /\ k - 1 + 3 + (j - k) = j + 2
    BY <1>0
  <2>2. w[k - 1 + 3 + (j - k)] = z[j - k]
    BY <1>7, <2>1
  <2>3. z[j - k] = Use(ir[j - k + k], ir[k].dst, n + 2)
    BY <1>4, <2>1
  <2> QED
    BY <2>1, <2>2, <2>3
<1>10. Spliced(ir, k, n) = w
  BY <1>5 DEF w
<1>11. Splices(ir, k, n, w)
  BY <1>3, <1>7, <1>8, <1>9 DEF Splices
<1> QED
  BY <1>10, <1>11
------------------------------------------------------------------------------
(* What a function computes: the recursive function Env, and its types.      *)

IsEnv(f, ir, a, b, n) == f = [k \in 0..n |-> IF k = 0 THEN Arguments(ir, a, b)
                                             ELSE Eval(ir[k], f[k - 1])]

LEMMA EnvExists ==
  ASSUME NEW ir \in Code, NEW a, NEW b
  PROVE  \A n \in Nat : \E f : IsEnv(f, ir, a, b, n)
<1> DEFINE S == {n \in Nat : \E f : IsEnv(f, ir, a, b, n)}
<1>1. 0 \in S
  <2>1. IsEnv([k \in 0..0 |-> Arguments(ir, a, b)], ir, a, b, 0)
    BY DEF IsEnv
  <2> QED
    BY <2>1
<1>2. ASSUME NEW n \in Nat, n \in S PROVE n + 1 \in S
  <2>1. PICK f : IsEnv(f, ir, a, b, n)
    BY <1>2
  <2> DEFINE g == [k \in 0..(n + 1) |-> IF k = 0 THEN Arguments(ir, a, b)
                                        ELSE Eval(ir[k], f[k - 1])]
  <2>2. \A k \in 0..n : g[k] = f[k]
    BY <2>1 DEF IsEnv
  <2>3. g = [k \in 0..(n + 1) |-> IF k = 0 THEN Arguments(ir, a, b)
                                  ELSE Eval(ir[k], f[k - 1])]
    OBVIOUS
  <2> HIDE DEF g
  <2>4. \A k \in 1..(n + 1) : g[k - 1] = f[k - 1]
    BY <2>2
  <2>5. \A k \in 0..(n + 1) : k # 0 => Eval(ir[k], f[k - 1]) = Eval(ir[k], g[k - 1])
    BY <2>4
  <2>6. g = [k \in 0..(n + 1) |-> IF k = 0 THEN Arguments(ir, a, b)
                                  ELSE Eval(ir[k], g[k - 1])]
    BY <2>3, <2>5
  <2>7. IsEnv(g, ir, a, b, n + 1)
    BY <2>6 DEF IsEnv
  <2> QED
    BY <2>7
<1> HIDE DEF S
<1>3. \A n \in Nat : n \in S
  <2>1. S \in SUBSET Nat
    BY DEF S
  <2> QED
    BY <1>1, <1>2, <2>1, Induction
<1> QED
  BY <1>3 DEF S

LEMMA EnvSteps ==
  ASSUME NEW ir \in Code, NEW a, NEW b
  PROVE  /\ Env(ir, a, b)[0] = Arguments(ir, a, b)
         /\ \A k \in 1..Len(ir) : Env(ir, a, b)[k] = Eval(ir[k], Env(ir, a, b)[k - 1])
<1>0. Len(ir) \in Nat
  BY Instructions
<1>1. \E f : IsEnv(f, ir, a, b, Len(ir))
  BY <1>0, EnvExists
<1>2. Env(ir, a, b) = CHOOSE f : IsEnv(f, ir, a, b, Len(ir))
  BY DEF Env, IsEnv
<1>3. IsEnv(Env(ir, a, b), ir, a, b, Len(ir))
  BY <1>1, <1>2
<1> DEFINE e == Env(ir, a, b)
<1>4. e = [k \in 0..Len(ir) |-> IF k = 0 THEN Arguments(ir, a, b)
                                ELSE Eval(ir[k], e[k - 1])]
  BY <1>3 DEF IsEnv
<1> HIDE DEF e
<1>5. /\ e[0] = Arguments(ir, a, b)
      /\ \A k \in 1..Len(ir) : e[k] = Eval(ir[k], e[k - 1])
  BY <1>0, <1>4
<1> QED
  BY <1>5 DEF e

Number == 0..(Modulus - 1)

LEMMA ModType ==
  ASSUME NEW x \in Int
  PROVE  x % Modulus \in Number
<1>1. Modulus \in Nat \ {0}
  BY ModulusAssumption
<1> QED
  BY <1>1 DEF Number

LEMMA ComputeType ==
  ASSUME NEW u \in Number, NEW v \in Number,
         NEW op \in {"add", "vadd", "sub", "mul", "not", "ret"}
  PROVE  Compute(op, u, v) \in Number
<1>0. Modulus \in Nat /\ u \in Int /\ v \in Int /\ u + v \in Int /\ u - v \in Int
      /\ u * v \in Int /\ Modulus - 1 - u \in Number
  BY ModulusAssumption DEF Number
<1>1. /\ (u + v) % Modulus \in Number /\ (u - v) % Modulus \in Number
      /\ (u * v) % Modulus \in Number
  BY <1>0, ModType
<1> HIDE DEF Number
<1>2. CASE op \in {"add", "vadd"}
  BY <1>1, <1>2 DEF Compute
<1>3. CASE op = "sub"
  BY <1>1, <1>3 DEF Compute
<1>4. CASE op = "mul"
  BY <1>1, <1>4 DEF Compute
<1>5. CASE op = "not"
  BY <1>0, <1>5 DEF Compute
<1>6. CASE op = "ret"
  BY <1>6 DEF Compute
<1> QED
  BY <1>2, <1>3, <1>4, <1>5, <1>6

\* a + b = (a - ~b) - 1, modulo the number of values of the type.
LEMMA SumIdentity ==
  ASSUME NEW u \in Number, NEW v \in Number
  PROVE  Compute("sub", Compute("sub", u, Compute("not", v, 1)), 1)
           = Compute("add", u, v)
<1> DEFINE M == Modulus
<1>0. M \in Nat /\ M > 1 /\ u \in 0..(M - 1) /\ v \in 0..(M - 1)
  BY ModulusAssumption DEF Number
<1>1. /\ Compute("not", v, 1) = M - 1 - v
      /\ Compute("sub", u, M - 1 - v) = (u - (M - 1 - v)) % M
      /\ Compute("sub", (u - (M - 1 - v)) % M, 1) = (((u - (M - 1 - v)) % M) - 1) % M
      /\ Compute("add", u, v) = (u + v) % M
  BY DEF Compute
<1>2. (((u - (M - 1 - v)) % M) - 1) % M = (u + v) % M
  <2> HIDE DEF M
  <2>1. CASE u + v >= M
    <3>1. (u - (M - 1 - v)) % M = u + v + 1 - M
      BY <1>0, <2>1
    <3>2. (u + v + 1 - M - 1) % M = u + v - M
      BY <1>0, <2>1
    <3>3. (u + v) % M = u + v - M
      BY <1>0, <2>1
    <3> QED
      BY <1>0, <3>1, <3>2, <3>3
  <2>2. CASE u + v = M - 1
    <3>1. (u - (M - 1 - v)) % M = 0
      BY <1>0, <2>2
    <3>2. (0 - 1) % M = M - 1
      BY <1>0
    <3>3. (u + v) % M = M - 1
      BY <1>0, <2>2
    <3> QED
      BY <3>1, <3>2, <3>3
  <2>3. CASE u + v < M - 1
    <3>1. (u - (M - 1 - v)) % M = u + v + 1
      BY <1>0, <2>3
    <3>2. (u + v + 1 - 1) % M = u + v
      BY <1>0, <2>3
    <3>3. (u + v) % M = u + v
      BY <1>0, <2>3
    <3> QED
      BY <1>0, <3>1, <3>2, <3>3
  <2> QED
    BY <1>0, <2>1, <2>2, <2>3
<1> QED
  BY <1>1, <1>2

LEMMA EvalType ==
  ASSUME NEW i \in Instruction, NEW D, NEW env \in [D -> Number],
         i.dst \in D, i.x \in D, i.y \in D
  PROVE  /\ Eval(i, env) \in [D -> Number]
         /\ Eval(i, env)[i.dst] = Compute(i.op, env[i.x], env[i.y])
         /\ \A m \in D : m # i.dst => Eval(i, env)[m] = env[m]
<1>1. i.op \in {"add", "vadd", "sub", "mul", "not", "ret"}
  BY DEF Instruction
<1>2. env[i.x] \in Number /\ env[i.y] \in Number
  OBVIOUS
<1>3. Compute(i.op, env[i.x], env[i.y]) \in Number
  BY <1>1, <1>2, ComputeType
<1> QED
  BY <1>3 DEF Eval

\* The names of a function in SSA form are among those the evaluation knows.
LEMMA NamesKnown ==
  ASSUME NEW ir \in Code, SSA(ir)
  PROVE  /\ Fresh(ir) \in Nat /\ Fresh(ir) > 2 /\ Len(ir) \in Nat /\ Len(ir) > 0
         /\ \A k \in 1..Len(ir) :
              /\ ir[k] \in Instruction
              /\ ir[k].dst \in 3..(Fresh(ir) - 1)
              /\ ir[k].x \in 0..(Fresh(ir) - 1) /\ ir[k].y \in 0..(Fresh(ir) - 1)
<1>1. /\ Len(ir) \in Nat /\ Fresh(ir) \in Nat /\ Fresh(ir) > 2
      /\ \A k \in 1..Len(ir) : /\ ir[k] \in Instruction /\ ir[k].dst \in Nat
                               /\ ir[k].dst < Fresh(ir)
  BY Instructions, FreshName
<1>2. \A k \in 1..Len(ir) : ir[k].dst \in 3..(Fresh(ir) - 1)
  BY <1>1 DEF SSA
<1>3. ASSUME NEW k \in 1..Len(ir), NEW m, Defined(ir, k, m)
      PROVE  m \in 0..(Fresh(ir) - 1)
  <2>1. CASE m \in 0..2
    BY <1>1, <2>1
  <2>2. CASE \E j \in 1..(k - 1) : ir[j].dst = m
    BY <1>1, <2>2
  <2> QED
    BY <1>3, <2>1, <2>2 DEF Defined
<1> QED
  BY <1>1, <1>2, <1>3 DEF SSA

LEMMA ArgumentsType ==
  ASSUME NEW ir \in Code, NEW a \in Number, NEW b \in Number
  PROVE  Arguments(ir, a, b) \in [0..Fresh(ir) -> Number]
<1>1. 1 \in Number
  BY ModulusAssumption DEF Number
<1> QED
  BY <1>1 DEF Arguments

LEMMA EnvType ==
  ASSUME NEW ir \in Code, SSA(ir), NEW a \in Number, NEW b \in Number
  PROVE  \A k \in 0..Len(ir) : Env(ir, a, b)[k] \in [0..Fresh(ir) -> Number]
<1> DEFINE e == Env(ir, a, b)
           D == 0..Fresh(ir)
           S == {k \in Nat : k <= Len(ir) => e[k] \in [D -> Number]}
<1>0. /\ e[0] = Arguments(ir, a, b)
      /\ \A k \in 1..Len(ir) : e[k] = Eval(ir[k], e[k - 1])
  BY EnvSteps
<1> HIDE DEF e
<1>1. 0 \in S
  <2>1. e[0] \in [D -> Number]
    <3>1. Arguments(ir, a, b) \in [D -> Number]
      BY ArgumentsType
    <3> QED
      BY <1>0, <3>1
  <2> QED
    BY <2>1
<1>2. ASSUME NEW n \in Nat, n \in S PROVE n + 1 \in S
  <2> SUFFICES ASSUME n + 1 <= Len(ir) PROVE e[n + 1] \in [D -> Number]
    OBVIOUS
  <2>1. Len(ir) \in Nat /\ n + 1 \in 1..Len(ir) /\ n + 1 - 1 = n
    BY NamesKnown
  <2>2. e[n] \in [D -> Number] /\ e[n + 1] = Eval(ir[n + 1], e[n])
    BY <1>0, <1>2, <2>1
  <2>3. /\ Fresh(ir) \in Nat /\ ir[n + 1] \in Instruction
        /\ ir[n + 1].dst \in 3..(Fresh(ir) - 1) /\ ir[n + 1].x \in 0..(Fresh(ir) - 1)
        /\ ir[n + 1].y \in 0..(Fresh(ir) - 1)
    BY <2>1, NamesKnown
  <2>4. ir[n + 1].dst \in D /\ ir[n + 1].x \in D /\ ir[n + 1].y \in D
    BY <2>3
  <2> HIDE DEF D
  <2> QED
    BY <2>2, <2>3, <2>4, EvalType
<1>3. S \in SUBSET Nat
  OBVIOUS
<1> HIDE DEF S
<1>4. \A n \in Nat : n \in S
  BY <1>1, <1>2, <1>3, Induction
<1>5. \A k \in 0..Len(ir) : k \in Nat /\ k <= Len(ir)
  BY Instructions
<1> QED
  BY <1>4, <1>5 DEF S, e
------------------------------------------------------------------------------
(* A replacement keeps SSA form and the meaning of the function.             *)

Rewrites(ir, k, n, w) ==
  /\ ir \in Code /\ SSA(ir) /\ k \in 1..Len(ir)
  /\ n = Fresh(ir) /\ w = Spliced(ir, k, n)

LEMMA Rewritten ==
  ASSUME NEW ir, NEW k, NEW n, NEW w, Rewrites(ir, k, n, w)
  PROVE  /\ n \in Nat /\ n > 2 /\ Len(ir) \in Nat /\ k \in Nat /\ k \in 1..Len(ir)
         /\ \A j \in 1..Len(ir) :
              /\ ir[j] \in Instruction /\ ir[j].dst \in 3..(n - 1)
              /\ ir[j].x \in 0..(n - 1) /\ ir[j].y \in 0..(n - 1)
<1>1. ir \in Code /\ SSA(ir) /\ k \in 1..Len(ir) /\ n = Fresh(ir)
  BY DEF Rewrites
<1>2. /\ Fresh(ir) \in Nat /\ Fresh(ir) > 2 /\ Len(ir) \in Nat
      /\ \A j \in 1..Len(ir) :
           /\ ir[j] \in Instruction /\ ir[j].dst \in 3..(Fresh(ir) - 1)
           /\ ir[j].x \in 0..(Fresh(ir) - 1) /\ ir[j].y \in 0..(Fresh(ir) - 1)
  BY <1>1, NamesKnown
<1> QED
  BY <1>1, <1>2

Parts(ir, k, n, w) ==
  /\ w \in Code /\ Len(w) = Len(ir) + 2
  /\ \A j \in 1..(k - 1) : w[j] = ir[j]
  /\ w[k] = Def("not", n, ir[k].y, 0)
  /\ w[k + 1] = Def("sub", n + 1, ir[k].x, n)
  /\ w[k + 2] = Def("sub", n + 2, n + 1, 0)
  /\ \A j \in (k + 1)..Len(ir) : w[j + 2] = Use(ir[j], ir[k].dst, n + 2)
  /\ Fresh(w) \in Nat /\ Fresh(w) > n + 2

LEMMA SplicedParts ==
  ASSUME NEW ir, NEW k, NEW n, NEW w, Rewrites(ir, k, n, w)
  PROVE  Parts(ir, k, n, w)
<1>0. ir \in Code /\ w = Spliced(ir, k, n)
  BY DEF Rewrites
<1>1. n \in Nat /\ Len(ir) \in Nat /\ k \in Nat /\ k \in 1..Len(ir)
  BY Rewritten
<1>2. /\ w \in Code /\ Len(w) = Len(ir) + 2
      /\ \A j \in 1..(k - 1) : w[j] = ir[j]
      /\ w[k] = Def("not", n, ir[k].y, 0)
      /\ w[k + 1] = Def("sub", n + 1, ir[k].x, n)
      /\ w[k + 2] = Def("sub", n + 2, n + 1, 0)
      /\ \A j \in (k + 1)..Len(ir) : w[j + 2] = Use(ir[j], ir[k].dst, n + 2)
  <2>1. Splices(ir, k, n, w)
    BY <1>0, <1>1, SplicedCode
  <2> QED
    BY <2>1 DEF Splices
<1>3. k + 2 \in 1..Len(w) /\ w[k + 2].dst = n + 2
  BY <1>1, <1>2 DEF Def
<1>4. Fresh(w) \in Nat /\ w[k + 2].dst < Fresh(w)
  BY <1>2, <1>3, FreshName
<1> QED
  BY <1>1, <1>2, <1>3, <1>4 DEF Parts

\* Where the instructions of the rewritten function come from.
LEMMA SplicedNames ==
  ASSUME NEW ir, NEW k, NEW n, NEW w, Rewrites(ir, k, n, w), NEW p \in 1..Len(w)
  PROVE  \/ p < k /\ w[p] = ir[p] /\ w[p].dst < n
         \/ p = k /\ w[p].dst = n
         \/ p = k + 1 /\ w[p].dst = n + 1
         \/ p = k + 2 /\ w[p].dst = n + 2
         \/ /\ p > k + 2 /\ p - 2 \in (k + 1)..Len(ir)
            /\ w[p] = Use(ir[p - 2], ir[k].dst, n + 2)
            /\ w[p].dst = ir[p - 2].dst /\ w[p].dst < n
<1>1. /\ n \in Nat /\ Len(ir) \in Nat /\ k \in Nat /\ k \in 1..Len(ir)
      /\ \A j \in 1..Len(ir) : ir[j] \in Instruction /\ ir[j].dst \in 3..(n - 1)
  BY Rewritten
<1>2. /\ Len(w) = Len(ir) + 2
      /\ \A j \in 1..(k - 1) : w[j] = ir[j]
      /\ w[k] = Def("not", n, ir[k].y, 0)
      /\ w[k + 1] = Def("sub", n + 1, ir[k].x, n)
      /\ w[k + 2] = Def("sub", n + 2, n + 1, 0)
      /\ \A j \in (k + 1)..Len(ir) : w[j + 2] = Use(ir[j], ir[k].dst, n + 2)
  <2>1. Parts(ir, k, n, w)
    BY SplicedParts
  <2> QED
    BY <2>1 DEF Parts
<1>3. w[k].dst = n /\ w[k + 1].dst = n + 1 /\ w[k + 2].dst = n + 2
  BY <1>2 DEF Def
<1>4. CASE p < k
  <2>1. p \in 1..(k - 1) /\ p \in 1..Len(ir)
    BY <1>1, <1>4
  <2> QED
    BY <1>1, <1>2, <1>4, <2>1
<1>5. CASE p > k + 2
  <2>1. p - 2 \in (k + 1)..Len(ir) /\ p - 2 \in 1..Len(ir) /\ p - 2 + 2 = p
    BY <1>1, <1>2, <1>5
  <2>2. w[p] = Use(ir[p - 2], ir[k].dst, n + 2)
    BY <1>2, <2>1
  <2>3. w[p].dst = ir[p - 2].dst
    <3>1. n + 2 \in Nat /\ ir[p - 2] \in Instruction
      BY <1>1, <2>1
    <3>2. Use(ir[p - 2], ir[k].dst, n + 2).dst = ir[p - 2].dst
      BY <3>1 DEF Use, Instruction
    <3> QED
      BY <2>2, <3>2
  <2>4. w[p].dst < n
    <3>1. ir[p - 2].dst \in 3..(n - 1)
      BY <1>1, <2>1
    <3> QED
      BY <1>1, <2>3, <3>1
  <2> QED
    BY <1>5, <2>1, <2>2, <2>3, <2>4
<1>6. p < k \/ p = k \/ p = k + 1 \/ p = k + 2 \/ p > k + 2
  BY <1>1, <1>2
<1> QED
  BY <1>3, <1>4, <1>5, <1>6

LEMMA SplicedOnce ==
  ASSUME NEW ir, NEW k, NEW n, NEW w, Rewrites(ir, k, n, w),
         NEW p \in 1..Len(w), NEW q \in 1..Len(w), w[p].dst = w[q].dst
  PROVE  p = q /\ w[p].dst > 2
<1>1. /\ n \in Nat /\ n > 2 /\ Len(ir) \in Nat /\ k \in Nat /\ k \in 1..Len(ir)
      /\ p \in Int /\ q \in Int
  BY Rewritten
<1>2. \A j \in 1..Len(ir) : ir[j].dst \in 3..(n - 1)
  BY Rewritten
<1>3. \A i, j \in 1..Len(ir) : ir[i].dst = ir[j].dst => i = j
  BY DEF Rewrites, SSA
<1> DEFINE Place(x) == \/ /\ x < k /\ x \in 1..Len(ir)
                          /\ w[x].dst = ir[x].dst /\ w[x].dst < n
                       \/ x = k /\ w[x].dst = n
                       \/ x = k + 1 /\ w[x].dst = n + 1
                       \/ x = k + 2 /\ w[x].dst = n + 2
                       \/ /\ x > k + 2 /\ x - 2 > k /\ x - 2 \in 1..Len(ir)
                          /\ w[x].dst = ir[x - 2].dst /\ w[x].dst < n
<1>4. ASSUME NEW x \in 1..Len(w) PROVE Place(x)
  <2>1. \/ x < k /\ w[x].dst = ir[x].dst /\ w[x].dst < n
        \/ x = k /\ w[x].dst = n
        \/ x = k + 1 /\ w[x].dst = n + 1
        \/ x = k + 2 /\ w[x].dst = n + 2
        \/ /\ x > k + 2 /\ x - 2 \in (k + 1)..Len(ir)
           /\ w[x].dst = ir[x - 2].dst /\ w[x].dst < n
    BY SplicedNames
  <2>2. /\ x < k => x \in 1..Len(ir)
        /\ x - 2 \in (k + 1)..Len(ir) => x - 2 > k /\ x - 2 \in 1..Len(ir)
    BY <1>1
  <2> QED
    BY <2>1, <2>2
<1>5. Place(p) /\ Place(q)
  BY <1>4
<1>6. w[p].dst > 2
  <2>1. CASE p < k
    BY <1>1, <1>2, <1>5, <2>1
  <2>2. CASE p > k + 2
    BY <1>1, <1>2, <1>5, <2>2
  <2>3. CASE p = k \/ p = k + 1 \/ p = k + 2
    BY <1>1, <1>5, <2>3
  <2> QED
    BY <1>5, <2>1, <2>2, <2>3
<1>7. p = q
  <2>1. CASE p < k
    BY <1>1, <1>3, <1>5, <2>1
  <2>2. CASE p > k + 2
    BY <1>1, <1>3, <1>5, <2>2
  <2>3. CASE p = k \/ p = k + 1 \/ p = k + 2
    BY <1>1, <1>2, <1>5, <2>3
  <2> QED
    BY <1>5, <2>1, <2>2, <2>3
<1> QED
  BY <1>6, <1>7

\* A use of a name in the function is, renamed or not, a use of a name that is
\* defined before the same instruction of the rewritten function.
LEMMA SplicedUses ==
  ASSUME NEW ir, NEW k, NEW n, NEW w, Rewrites(ir, k, n, w), NEW m
  PROVE  /\ \A p \in 1..k : Defined(ir, p, m) => Defined(w, p, m)
         /\ \A p \in (k + 1)..Len(ir) :
              Defined(ir, p, m)
                => Defined(w, p + 2, IF m = ir[k].dst THEN n + 2 ELSE m)
<1>1. /\ n \in Nat /\ Len(ir) \in Nat /\ k \in Nat /\ k \in 1..Len(ir)
      /\ \A j \in 1..Len(ir) : ir[j] \in Instruction /\ ir[j].dst \in 3..(n - 1)
  BY Rewritten
<1>2. /\ \A j \in 1..(k - 1) : w[j] = ir[j]
      /\ w[k + 2] = Def("sub", n + 2, n + 1, 0)
      /\ \A j \in (k + 1)..Len(ir) : w[j + 2] = Use(ir[j], ir[k].dst, n + 2)
  <2>1. Parts(ir, k, n, w)
    BY SplicedParts
  <2> QED
    BY <2>1 DEF Parts
<1>3. w[k + 2].dst = n + 2
  BY <1>2 DEF Def
<1>4. \A j \in (k + 1)..Len(ir) : w[j + 2].dst = ir[j].dst
  <2> TAKE j \in (k + 1)..Len(ir)
  <2>1. ir[j] \in Instruction
    BY <1>1
  <2>2. Use(ir[j], ir[k].dst, n + 2).dst = ir[j].dst
    BY <2>1 DEF Use, Instruction
  <2> QED
    BY <1>2, <2>2
<1>5. ASSUME NEW p \in 1..k, Defined(ir, p, m) PROVE Defined(w, p, m)
  <2>1. \A j \in 1..(p - 1) : j \in 1..(k - 1)
    BY <1>1
  <2> QED
    BY <1>2, <1>5, <2>1 DEF Defined
<1>6. ASSUME NEW p \in (k + 1)..Len(ir), Defined(ir, p, m)
      PROVE  Defined(w, p + 2, IF m = ir[k].dst THEN n + 2 ELSE m)
  <2>0. p \in Nat /\ p > k
    BY <1>1
  <2>1. CASE m = ir[k].dst
    <3>1. k + 2 \in 1..(p + 2 - 1)
      BY <1>1, <2>0
    <3> QED
      BY <1>3, <2>1, <3>1 DEF Defined
  <2>2. CASE m \in 0..2
    <3>1. m # ir[k].dst
      BY <1>1, <2>2
    <3> QED
      BY <2>2, <3>1 DEF Defined
  <2>3. ASSUME m # ir[k].dst, NEW j \in 1..(p - 1), ir[j].dst = m
        PROVE  Defined(w, p + 2, m)
    <3>0. j \in Nat /\ j # k /\ j < p
      BY <2>0, <2>3
    <3>1. CASE j < k
      <4>1. j \in 1..(k - 1) /\ j \in 1..(p + 2 - 1)
        BY <1>1, <2>0, <3>0, <3>1
      <4>2. w[j].dst = m
        BY <1>2, <2>3, <4>1
      <4> QED
        BY <4>1, <4>2 DEF Defined
    <3>2. CASE j > k
      <4>1. j \in (k + 1)..Len(ir) /\ j + 2 \in 1..(p + 2 - 1)
        BY <1>1, <2>0, <3>0, <3>2
      <4>2. w[j + 2].dst = m
        BY <1>4, <2>3, <4>1
      <4> QED
        BY <4>1, <4>2 DEF Defined
    <3> QED
      BY <1>1, <3>0, <3>1, <3>2
  <2>4. m \in 0..2 \/ \E j \in 1..(p - 1) : ir[j].dst = m
    BY <1>6 DEF Defined
  <2>5. CASE m # ir[k].dst /\ \E j \in 1..(p - 1) : ir[j].dst = m
    BY <2>3, <2>5
  <2> QED
    BY <2>1, <2>2, <2>4, <2>5
<1> QED
  BY <1>5, <1>6

LEMMA SplicedSSA ==
  ASSUME NEW ir, NEW k, NEW n, NEW w, Rewrites(ir, k, n, w)
  PROVE  w \in Code /\ SSA(w)
<1>1. /\ n \in Nat /\ Len(ir) \in Nat /\ k \in Nat /\ k \in 1..Len(ir)
      /\ \A j \in 1..Len(ir) : ir[j] \in Instruction
  BY Rewritten
<1>2. /\ w \in Code /\ Len(w) = Len(ir) + 2
      /\ \A j \in 1..(k - 1) : w[j] = ir[j]
      /\ w[k] = Def("not", n, ir[k].y, 0)
      /\ w[k + 1] = Def("sub", n + 1, ir[k].x, n)
      /\ w[k + 2] = Def("sub", n + 2, n + 1, 0)
      /\ \A j \in (k + 1)..Len(ir) : w[j + 2] = Use(ir[j], ir[k].dst, n + 2)
  <2>1. Parts(ir, k, n, w)
    BY SplicedParts
  <2> QED
    BY <2>1 DEF Parts
<1>3. /\ w[k].dst = n /\ w[k].x = ir[k].y /\ w[k].y = 0
      /\ w[k + 1].dst = n + 1 /\ w[k + 1].x = ir[k].x /\ w[k + 1].y = n
      /\ w[k + 2].x = n + 1 /\ w[k + 2].y = 0
  BY <1>2 DEF Def
<1>4. \A j \in 1..Len(ir) : Defined(ir, j, ir[j].x) /\ Defined(ir, j, ir[j].y)
  BY DEF Rewrites, SSA
<1>5. ASSUME NEW p \in 1..Len(w)
      PROVE  Defined(w, p, w[p].x) /\ Defined(w, p, w[p].y)
  <2>0. p \in Nat
    OBVIOUS
  <2>1. CASE p < k
    <3>1. p \in 1..(k - 1) /\ p \in 1..k /\ p \in 1..Len(ir)
      BY <1>1, <2>0, <2>1
    <3>2. w[p] = ir[p]
      BY <1>2, <3>1
    <3>3. Defined(w, p, ir[p].x) /\ Defined(w, p, ir[p].y)
      BY <1>4, <3>1, SplicedUses
    <3> QED
      BY <3>2, <3>3
  <2>2. Defined(w, k, ir[k].x) /\ Defined(w, k, ir[k].y)
    <3>1. k \in 1..k
      BY <1>1
    <3> QED
      BY <1>1, <1>4, <3>1, SplicedUses
  <2>3. CASE p = k
    <3>1. Defined(w, k, 0)
      BY DEF Defined
    <3> QED
      BY <1>3, <2>2, <2>3, <3>1
  <2>4. CASE p = k + 1
    <3>1. Defined(w, k + 1, ir[k].x)
      <4>1. \A j \in 1..(k - 1) : j \in 1..(k + 1 - 1)
        BY <1>1
      <4> QED
        BY <1>1, <2>2, <4>1 DEF Defined
    <3>2. Defined(w, k + 1, n)
      <4>1. k \in 1..(k + 1 - 1)
        BY <1>1
      <4> QED
        BY <1>3, <4>1 DEF Defined
    <3> QED
      BY <1>3, <2>4, <3>1, <3>2
  <2>5. CASE p = k + 2
    <3>1. Defined(w, k + 2, n + 1)
      <4>1. k + 1 \in 1..(k + 2 - 1)
        BY <1>1
      <4> QED
        BY <1>1, <1>3, <4>1 DEF Defined
    <3>2. Defined(w, k + 2, 0)
      BY DEF Defined
    <3> QED
      BY <1>3, <2>5, <3>1, <3>2
  <2>6. CASE p > k + 2
    <3> DEFINE j == p - 2
    <3>1. j \in (k + 1)..Len(ir) /\ j \in 1..Len(ir) /\ j + 2 = p
      BY <1>1, <1>2, <2>0, <2>6
    <3> HIDE DEF j
    <3>2. w[p] = Use(ir[j], ir[k].dst, n + 2)
      BY <1>2, <3>1
    <3>3. /\ w[p].x = IF ir[j].x = ir[k].dst THEN n + 2 ELSE ir[j].x
          /\ w[p].y = IF ir[j].y = ir[k].dst THEN n + 2 ELSE ir[j].y
      <4>1. ir[j] \in Instruction
        BY <1>1, <3>1
      <4> QED
        BY <3>2, <4>1 DEF Use, Instruction
    <3>4. /\ Defined(w, j + 2, IF ir[j].x = ir[k].dst THEN n + 2 ELSE ir[j].x)
          /\ Defined(w, j + 2, IF ir[j].y = ir[k].dst THEN n + 2 ELSE ir[j].y)
      BY <1>4, <3>1, SplicedUses
    <3> QED
      BY <3>1, <3>3, <3>4
  <2> QED
    BY <1>1, <2>0, <2>1, <2>3, <2>4, <2>5, <2>6
<1>6. \A p, q \in 1..Len(w) : w[p].dst = w[q].dst => p = q /\ w[p].dst > 2
  BY SplicedOnce
<1>7. \A p \in 1..Len(w) : w[p].dst > 2
  BY <1>6
<1>8. Len(w) > 0
  BY <1>1, <1>2
<1> QED
  BY <1>2, <1>5, <1>6, <1>7, <1>8 DEF SSA

\* What an instruction does to the values.
Evaluates(ir, a, b, e) ==
  /\ ir \in Code /\ SSA(ir) /\ a \in Number /\ b \in Number
  /\ e = Env(ir, a, b)

Effect(ir, e, j) ==
  /\ e[j][ir[j].dst] = Compute(ir[j].op, e[j - 1][ir[j].x], e[j - 1][ir[j].y])
  /\ \A m \in 0..Fresh(ir) : m # ir[j].dst => e[j][m] = e[j - 1][m]
  /\ \A m \in 0..Fresh(ir) : e[j - 1][m] \in Number

LEMMA EnvEffect ==
  ASSUME NEW ir, NEW a, NEW b, NEW e, Evaluates(ir, a, b, e), NEW j \in 1..Len(ir)
  PROVE  Effect(ir, e, j)
<1>0. ir \in Code /\ SSA(ir) /\ a \in Number /\ b \in Number /\ e = Env(ir, a, b)
  BY DEF Evaluates
<1> DEFINE D == 0..Fresh(ir)
<1>1. /\ Fresh(ir) \in Nat /\ ir[j] \in Instruction
      /\ ir[j].dst \in 3..(Fresh(ir) - 1) /\ ir[j].x \in 0..(Fresh(ir) - 1)
      /\ ir[j].y \in 0..(Fresh(ir) - 1)
  BY <1>0, NamesKnown
<1>2. ir[j].dst \in D /\ ir[j].x \in D /\ ir[j].y \in D
  BY <1>1
<1>3. e[j] = Eval(ir[j], e[j - 1])
  BY <1>0, EnvSteps
<1>4. e[j - 1] \in [D -> Number]
  <2>1. j - 1 \in 0..Len(ir)
    BY <1>0, Instructions
  <2> QED
    BY <1>0, <2>1, EnvType
<1> HIDE DEF D
<1>5. /\ Eval(ir[j], e[j - 1])[ir[j].dst]
           = Compute(ir[j].op, e[j - 1][ir[j].x], e[j - 1][ir[j].y])
      /\ \A m \in D : m # ir[j].dst => Eval(ir[j], e[j - 1])[m] = e[j - 1][m]
  BY <1>1, <1>2, <1>4, EvalType
<1>6. \A m \in D : e[j - 1][m] \in Number
  BY <1>4
<1> QED
  BY <1>3, <1>5, <1>6 DEF D, Effect

\* The constant keeps its value.
LEMMA ConstantOne ==
  ASSUME NEW ir, NEW a, NEW b, NEW e, Evaluates(ir, a, b, e)
  PROVE  \A j \in 0..Len(ir) : e[j][0] = 1
<1> DEFINE S == {j \in Nat : j <= Len(ir) => e[j][0] = 1}
<1>0. ir \in Code /\ SSA(ir) /\ e = Env(ir, a, b)
  BY DEF Evaluates
<1>1. /\ Fresh(ir) \in Nat /\ Len(ir) \in Nat
      /\ \A j \in 1..Len(ir) : ir[j].dst \in 3..(Fresh(ir) - 1)
  BY <1>0, NamesKnown
<1>2. 0 \in S
  <2>1. e[0] = Arguments(ir, a, b) /\ 0 \in 0..Fresh(ir)
    BY <1>0, <1>1, EnvSteps
  <2> QED
    BY <2>1 DEF Arguments
<1>3. ASSUME NEW i \in Nat, i \in S PROVE i + 1 \in S
  <2> SUFFICES ASSUME i + 1 <= Len(ir) PROVE e[i + 1][0] = 1
    OBVIOUS
  <2> DEFINE j == i + 1
  <2>1. e[i][0] = 1 /\ j \in 1..Len(ir) /\ j - 1 = i
    BY <1>1, <1>3
  <2> HIDE DEF j
  <2>2. \A m \in 0..Fresh(ir) : m # ir[j].dst => e[j][m] = e[j - 1][m]
    <3>1. Effect(ir, e, j)
      BY <2>1, EnvEffect
    <3> QED
      BY <3>1 DEF Effect
  <2>3. 0 \in 0..Fresh(ir) /\ 0 # ir[j].dst
    BY <1>1, <2>1
  <2> QED
    BY <2>1, <2>2, <2>3 DEF j
<1>4. S \in SUBSET Nat
  OBVIOUS
<1> HIDE DEF S
<1>5. \A j \in Nat : j \in S
  BY <1>2, <1>3, <1>4, Induction
<1>6. \A j \in 0..Len(ir) : j \in Nat /\ j <= Len(ir)
  BY <1>1
<1> QED
  BY <1>5, <1>6 DEF S

\* Before the replacement the values are the same ...
LEMMA SameBefore ==
  ASSUME NEW ir, NEW k, NEW n, NEW w, Rewrites(ir, k, n, w),
         NEW a, NEW b, NEW e, Evaluates(ir, a, b, e), NEW f, Evaluates(w, a, b, f)
  PROVE  \A m \in 0..(n - 1) : f[k - 1][m] = e[k - 1][m]
<1> DEFINE Same(j) == \A m \in 0..(n - 1) : f[j][m] = e[j][m]
           S == {j \in Nat : j <= k - 1 => Same(j)}
<1>0. n = Fresh(ir) /\ e = Env(ir, a, b) /\ f = Env(w, a, b) /\ ir \in Code
  BY DEF Rewrites, Evaluates
<1>1. /\ w \in Code /\ Fresh(w) \in Nat /\ Len(ir) \in Nat /\ n \in Nat
      /\ Len(w) = Len(ir) + 2 /\ k \in Nat /\ k \in 1..Len(ir)
      /\ \A j \in 1..(k - 1) : w[j] = ir[j]
  <2>1. Parts(ir, k, n, w)
    BY SplicedParts
  <2> QED
    BY Rewritten, <2>1 DEF Parts
<1>2. Fresh(w) > n
  <2>1. Fresh(w) > n + 2
    <3>1. Parts(ir, k, n, w)
      BY SplicedParts
    <3> QED
      BY <3>1 DEF Parts
  <2> QED
    BY <1>1, <2>1
<1>3. 0 \in S
  <2>1. f[0] = Arguments(w, a, b) /\ e[0] = Arguments(ir, a, b)
    BY <1>0, <1>1, EnvSteps
  <2>2. \A m \in 0..(n - 1) : m \in 0..Fresh(w) /\ m \in 0..Fresh(ir)
    BY <1>0, <1>1, <1>2
  <2>3. Same(0)
    BY <2>1, <2>2 DEF Arguments
  <2> QED
    BY <2>3
<1>4. ASSUME NEW i \in Nat, i \in S PROVE i + 1 \in S
  <2> SUFFICES ASSUME i + 1 <= k - 1 PROVE Same(i + 1)
    OBVIOUS
  <2> DEFINE j == i + 1
  <2>1. /\ Same(i) /\ j - 1 = i /\ j \in 1..Len(ir) /\ j \in 1..Len(w)
        /\ j \in 1..(k - 1)
    BY <1>1, <1>4
  <2> HIDE DEF j
  <2>2. w[j] = ir[j]
    BY <1>1, <2>1
  <2>3. /\ e[j][ir[j].dst] = Compute(ir[j].op, e[i][ir[j].x], e[i][ir[j].y])
        /\ \A m \in 0..Fresh(ir) : m # ir[j].dst => e[j][m] = e[i][m]
    <3>1. Effect(ir, e, j)
      BY <2>1, EnvEffect
    <3> QED
      BY <2>1, <3>1 DEF Effect
  <2>4. /\ f[j][ir[j].dst] = Compute(ir[j].op, f[i][ir[j].x], f[i][ir[j].y])
        /\ \A m \in 0..Fresh(w) : m # ir[j].dst => f[j][m] = f[i][m]
    <3>1. Effect(w, f, j)
      BY <2>1, EnvEffect
    <3> QED
      BY <2>1, <2>2, <3>1 DEF Effect
  <2>5. ir[j].x \in 0..(n - 1) /\ ir[j].y \in 0..(n - 1)
    BY <2>1, Rewritten
  <2>6. f[i][ir[j].x] = e[i][ir[j].x] /\ f[i][ir[j].y] = e[i][ir[j].y]
    BY <2>1, <2>5
  <2>7. \A m \in 0..(n - 1) : m \in 0..Fresh(w) /\ m \in 0..Fresh(ir)
    BY <1>0, <1>1, <1>2
  <2>8. ASSUME NEW m \in 0..(n - 1) PROVE f[j][m] = e[j][m]
    <3>1. CASE m = ir[j].dst
      BY <2>3, <2>4, <2>6, <3>1
    <3>2. CASE m # ir[j].dst
      BY <2>1, <2>3, <2>4, <2>7, <3>2
    <3> QED
      BY <3>1, <3>2
  <2> QED
    BY <2>8 DEF j
<1>5. S \in SUBSET Nat
  OBVIOUS
<1> HIDE DEF S, Same
<1>6. \A j \in Nat : j \in S
  BY <1>3, <1>4, <1>5, Induction
<1>7. Same(k - 1)
  <2>1. k - 1 \in Nat /\ k - 1 <= k - 1
    BY <1>1
  <2> QED
    BY <1>6, <2>1 DEF S
<1> QED
  BY <1>7 DEF Same

\* ... and afterwards, j instructions of ir done, the last of the new names has
\* the value of the old one.
After(ir, k, n, e, f, j) ==
  /\ f[j + 2][n + 2] = e[j][ir[k].dst]
  /\ \A m \in 0..(n - 1) : m # ir[k].dst => f[j + 2][m] = e[j][m]

LEMMA SameAfter ==
  ASSUME NEW ir, NEW k, NEW n, NEW w, Rewrites(ir, k, n, w), IsIntAdd(ir[k]),
         NEW a, NEW b, NEW e, Evaluates(ir, a, b, e), NEW f, Evaluates(w, a, b, f)
  PROVE  After(ir, k, n, e, f, k)
<1> DEFINE d == ir[k].dst
           u == e[k - 1][ir[k].x]
           v == e[k - 1][ir[k].y]
<1>1. /\ n \in Nat /\ n > 2 /\ k \in Nat /\ k \in 1..Len(ir) /\ Len(ir) \in Nat
      /\ d \in 3..(n - 1) /\ ir[k].x \in 0..(n - 1) /\ ir[k].y \in 0..(n - 1)
  BY Rewritten
<1>2. /\ Len(w) = Len(ir) + 2 /\ Fresh(w) \in Nat /\ Fresh(w) > n + 2 /\ n = Fresh(ir)
  <2>1. Parts(ir, k, n, w)
    BY SplicedParts
  <2> QED
    BY <2>1 DEF Rewrites, Parts
<1>3. /\ w[k].op = "not" /\ w[k].dst = n /\ w[k].x = ir[k].y /\ w[k].y = 0
      /\ w[k + 1].op = "sub" /\ w[k + 1].dst = n + 1 /\ w[k + 1].x = ir[k].x
      /\ w[k + 1].y = n
      /\ w[k + 2].op = "sub" /\ w[k + 2].dst = n + 2 /\ w[k + 2].x = n + 1
      /\ w[k + 2].y = 0
  <2>1. /\ w[k] = Def("not", n, ir[k].y, 0)
        /\ w[k + 1] = Def("sub", n + 1, ir[k].x, n)
        /\ w[k + 2] = Def("sub", n + 2, n + 1, 0)
    <3>1. Parts(ir, k, n, w)
      BY SplicedParts
    <3> QED
      BY <3>1 DEF Parts
  <2>2. /\ w[k].op = "not" /\ w[k].dst = n /\ w[k].x = ir[k].y /\ w[k].y = 0
    <3>1. w[k] = Def("not", n, ir[k].y, 0)
      BY <2>1
    <3> QED
      BY <3>1, DefFields
  <2>3. /\ w[k + 1].op = "sub" /\ w[k + 1].dst = n + 1
        /\ w[k + 1].x = ir[k].x /\ w[k + 1].y = n
    <3>1. w[k + 1] = Def("sub", n + 1, ir[k].x, n)
      BY <2>1
    <3> QED
      BY <3>1, DefFields
  <2>4. /\ w[k + 2].op = "sub" /\ w[k + 2].dst = n + 2
        /\ w[k + 2].x = n + 1 /\ w[k + 2].y = 0
    <3>1. w[k + 2] = Def("sub", n + 2, n + 1, 0)
      BY <2>1
    <3> QED
      BY <3>1, DefFields
  <2> QED
    BY <2>2, <2>3, <2>4
<1>4. \A m \in 0..(n - 1) : f[k - 1][m] = e[k - 1][m]
  BY SameBefore
<1>5. /\ \A m \in 0..Fresh(ir) : e[k - 1][m] \in Number
      /\ e[k][d] = Compute("add", u, v)
      /\ \A m \in 0..Fresh(ir) : m # d => e[k][m] = e[k - 1][m]
  <2>1. Effect(ir, e, k)
    BY <1>1, EnvEffect
  <2>2. ir[k].op = "add"
    BY DEF IsIntAdd
  <2> QED
    BY <2>1, <2>2 DEF Effect
<1>6. u \in Number /\ v \in Number /\ e[k - 1][0] = 1
  <2>1. k - 1 \in 0..Len(ir)
    BY <1>1
  <2>2. e[k - 1][0] = 1
    BY <2>1, ConstantOne
  <2>3. ir[k].x \in 0..Fresh(ir) /\ ir[k].y \in 0..Fresh(ir)
    BY <1>1, <1>2
  <2> QED
    BY <1>5, <2>2, <2>3
<1>7. /\ f[k][n] = Compute("not", v, 1)
      /\ \A m \in 0..(n - 1) : f[k][m] = e[k - 1][m]
  <2>1. k \in 1..Len(w) /\ 0 \in 0..(n - 1)
    BY <1>1, <1>2
  <2>2. /\ f[k][n] = Compute("not", f[k - 1][ir[k].y], f[k - 1][0])
        /\ \A m \in 0..Fresh(w) : m # n => f[k][m] = f[k - 1][m]
    <3>1. Effect(w, f, k)
      BY <2>1, EnvEffect
    <3> QED
      BY <1>3, <3>1 DEF Effect
  <2>3. \A m \in 0..(n - 1) : m \in 0..Fresh(w) /\ m # n
    BY <1>1, <1>2
  <2> QED
    BY <1>1, <1>4, <1>6, <2>1, <2>2, <2>3
<1> HIDE DEF u, v, d
<1>8. /\ f[k + 1][n + 1] = Compute("sub", u, Compute("not", v, 1))
      /\ \A m \in 0..(n - 1) : f[k + 1][m] = e[k - 1][m]
  <2>1. k + 1 \in 1..Len(w) /\ k + 1 - 1 = k
    BY <1>1, <1>2
  <2>2. /\ f[k + 1][n + 1] = Compute("sub", f[k][ir[k].x], f[k][n])
        /\ \A m \in 0..Fresh(w) : m # n + 1 => f[k + 1][m] = f[k][m]
    <3>1. PICK j \in 1..Len(w) : j = k + 1 /\ j - 1 = k
      BY <1>1, <2>1
    <3>2. Effect(w, f, j)
      BY EnvEffect
    <3>3. /\ w[j].op = "sub" /\ w[j].dst = n + 1 /\ w[j].x = ir[k].x
          /\ w[j].y = n
      BY <1>3, <3>1
    <3>4. /\ f[j][n + 1] = Compute("sub", f[j - 1][ir[k].x], f[j - 1][n])
          /\ \A m \in 0..Fresh(w) : m # n + 1 => f[j][m] = f[j - 1][m]
      BY <3>2, <3>3 DEF Effect
    <3> QED
      BY <3>1, <3>4
  <2>3. \A m \in 0..(n - 1) : m \in 0..Fresh(w) /\ m # n + 1
    BY <1>1, <1>2
  <2>4. f[k][ir[k].x] = u
    BY <1>1, <1>7 DEF u
  <2> QED
    BY <1>7, <2>1, <2>2, <2>3, <2>4
<1>9. /\ f[k + 2][n + 2] = Compute("sub", Compute("sub", u, Compute("not", v, 1)), 1)
      /\ \A m \in 0..(n - 1) : f[k + 2][m] = e[k - 1][m]
  <2>1. k + 2 \in 1..Len(w) /\ k + 2 - 1 = k + 1 /\ 0 \in 0..(n - 1)
    BY <1>1, <1>2
  <2>2. /\ f[k + 2][n + 2] = Compute("sub", f[k + 1][n + 1], f[k + 1][0])
        /\ \A m \in 0..Fresh(w) : m # n + 2 => f[k + 2][m] = f[k + 1][m]
    <3>1. PICK j \in 1..Len(w) : j = k + 2 /\ j - 1 = k + 1
      BY <1>1, <2>1
    <3>2. Effect(w, f, j)
      BY EnvEffect
    <3>3. /\ w[j].op = "sub" /\ w[j].dst = n + 2 /\ w[j].x = n + 1
          /\ w[j].y = 0
      BY <1>3, <3>1
    <3>4. /\ f[j][n + 2] = Compute("sub", f[j - 1][n + 1], f[j - 1][0])
          /\ \A m \in 0..Fresh(w) : m # n + 2 => f[j][m] = f[j - 1][m]
      BY <3>2, <3>3 DEF Effect
    <3> QED
      BY <3>1, <3>4
  <2>3. \A m \in 0..(n - 1) : m \in 0..Fresh(w) /\ m # n + 2
    BY <1>1, <1>2
  <2>4. f[k + 1][0] = 1
    BY <1>6, <1>8, <2>1
  <2> QED
    BY <1>8, <2>1, <2>2, <2>3, <2>4
<1>10. f[k + 2][n + 2] = e[k][d]
  BY <1>5, <1>6, <1>9, SumIdentity
<1>11. \A m \in 0..(n - 1) : m # d => f[k + 2][m] = e[k][m]
  <2>1. \A m \in 0..(n - 1) : m \in 0..Fresh(ir)
    BY <1>1, <1>2
  <2> QED
    BY <1>5, <1>9, <2>1
<1> QED
  BY <1>10, <1>11 DEF d, After

\* Nothing that follows can tell the difference.
LEMMA SameToTheEnd ==
  ASSUME NEW ir, NEW k, NEW n, NEW w, Rewrites(ir, k, n, w), IsIntAdd(ir[k]),
         NEW a, NEW b, NEW e, Evaluates(ir, a, b, e), NEW f, Evaluates(w, a, b, f)
  PROVE  After(ir, k, n, e, f, Len(ir))
<1> DEFINE d == ir[k].dst
           Same(j) == /\ f[j + 2][n + 2] = e[j][d]
                      /\ \A m \in 0..(n - 1) : m # d => f[j + 2][m] = e[j][m]
           S == {j \in Nat : j <= Len(ir) => Same(j)}
<1>1. /\ n \in Nat /\ k \in Nat /\ k \in 1..Len(ir) /\ Len(ir) \in Nat /\ d \in 3..(n - 1)
      /\ \A j \in 1..Len(ir) :
           /\ ir[j] \in Instruction /\ ir[j].dst \in 3..(n - 1)
           /\ ir[j].x \in 0..(n - 1) /\ ir[j].y \in 0..(n - 1)
  BY Rewritten
<1>2. /\ Len(w) = Len(ir) + 2 /\ Fresh(w) \in Nat /\ Fresh(w) > n + 2 /\ n = Fresh(ir)
      /\ \A j \in (k + 1)..Len(ir) : w[j + 2] = Use(ir[j], d, n + 2)
  <2>1. n = Fresh(ir)
    BY DEF Rewrites
  <2>2. Parts(ir, k, n, w)
    BY SplicedParts
  <2> QED
    BY <2>1, <2>2 DEF Parts
<1>3. k \in S
  <2>1. After(ir, k, n, e, f, k)
    BY SameAfter
  <2>2. Same(k)
    BY <2>1 DEF After
  <2> QED
    BY <1>1, <2>2
<1>4. ASSUME NEW i \in Nat, i >= k /\ i \in S PROVE i + 1 \in S
  <2> SUFFICES ASSUME i + 1 <= Len(ir) PROVE Same(i + 1)
    OBVIOUS
  <2>1. Same(i)
    BY <1>1, <1>4
  <2>0. /\ i >= k /\ k \in Nat /\ k >= 1 /\ Len(ir) \in Nat
        /\ Len(w) = Len(ir) + 2
        /\ i \in Nat /\ i + 1 <= Len(ir)
    BY <1>1, <1>2, <1>4
  <2> HIDE DEF Same, S, d
  <2>2. PICK j \in (k + 1)..Len(ir) : j = i + 1 /\ j - 1 = i
    BY ONLY <2>0
  <2>3. PICK q \in 1..Len(w) : q = j + 2 /\ q - 1 = i + 2
    BY <2>0, <2>2
  <2>4. j \in 1..Len(ir) /\ j # k
    BY <2>0
  <2> USE DEF Same, S, d
  <2>5. /\ w[q].op = ir[j].op /\ w[q].dst = ir[j].dst
        /\ w[q].x = IF ir[j].x = d THEN n + 2 ELSE ir[j].x
        /\ w[q].y = IF ir[j].y = d THEN n + 2 ELSE ir[j].y
    <3>1. ir[j] \in Instruction /\ w[q] = Use(ir[j], d, n + 2)
      BY <1>1, <1>2, <2>3, <2>4
    <3> QED
      BY <3>1 DEF Use, Instruction
  <2>6. ir[j].dst # d
    BY <1>1, <2>4 DEF Rewrites, SSA
  <2>7. /\ e[j][ir[j].dst] = Compute(ir[j].op, e[i][ir[j].x], e[i][ir[j].y])
        /\ \A m \in 0..Fresh(ir) : m # ir[j].dst => e[j][m] = e[i][m]
    <3>1. Effect(ir, e, j)
      BY <2>4, EnvEffect
    <3> QED
      BY <2>2, <3>1 DEF Effect
  <2>8. /\ f[q][w[q].dst] = Compute(w[q].op, f[i + 2][w[q].x], f[i + 2][w[q].y])
        /\ \A m \in 0..Fresh(w) : m # w[q].dst => f[q][m] = f[i + 2][m]
    <3>1. Effect(w, f, q)
      BY EnvEffect
    <3> QED
      BY <2>3, <3>1 DEF Effect
  <2>9. f[i + 2][w[q].x] = e[i][ir[j].x] /\ f[i + 2][w[q].y] = e[i][ir[j].y]
    <3>1. ir[j].x \in 0..(n - 1) /\ ir[j].y \in 0..(n - 1)
      BY <1>1, <2>4
    <3> QED
      BY <2>1, <2>5, <3>1
  <2>10. /\ n + 2 \in 0..Fresh(w) /\ n + 2 # ir[j].dst /\ d \in 0..Fresh(ir)
         /\ \A m \in 0..(n - 1) : m \in 0..Fresh(w) /\ m \in 0..Fresh(ir)
    <3>1. ir[j].dst \in 3..(n - 1)
      BY <1>1, <2>4
    <3>2. n \in Nat /\ d \in 3..(n - 1)
      BY <1>1
    <3>3. Fresh(w) \in Nat /\ Fresh(w) > n + 2 /\ n = Fresh(ir)
      BY <1>2
    <3> HIDE DEF d
    <3>4. n + 2 \in 0..Fresh(w) /\ \A z \in 3..(n - 1) : n + 2 # z
      BY <3>2, <3>3
    <3>5. d \in 0..Fresh(ir)
      BY <3>2, <3>3
    <3>6. \A m \in 0..(n - 1) : m \in 0..Fresh(w) /\ m \in 0..Fresh(ir)
      BY <3>2, <3>3
    <3> QED
      BY <3>1, <3>4, <3>5, <3>6
  <2>11. f[q][n + 2] = e[j][d]
    BY <2>1, <2>5, <2>6, <2>7, <2>8, <2>10
  <2>12. ASSUME NEW m \in 0..(n - 1), m # d PROVE f[q][m] = e[j][m]
    <3>1. CASE m = ir[j].dst
      BY <2>5, <2>7, <2>8, <2>9, <3>1
    <3>2. CASE m # ir[j].dst
      BY <2>1, <2>5, <2>7, <2>8, <2>10, <2>12, <3>2
    <3> QED
      BY <3>1, <3>2
  <2>13. f[j + 2][n + 2] = e[j][d] /\ \A m \in 0..(n - 1) : m # d => f[j + 2][m] = e[j][m]
    BY <2>3, <2>11, <2>12
  <2> QED
    BY <2>2, <2>13
<1>5. S \in SUBSET Nat
  OBVIOUS
<1> HIDE DEF S, Same
<1>6. \A j \in Nat : j >= k => j \in S
  BY <1>1, <1>3, <1>4, <1>5, Induction
<1>7. Same(Len(ir))
  BY <1>1, <1>6 DEF S
<1> QED
  BY <1>7 DEF Same, After

LEMMA SplicedValue ==
  ASSUME NEW ir, NEW k, NEW n, NEW w, Rewrites(ir, k, n, w), IsIntAdd(ir[k]),
         NEW a \in Number, NEW b \in Number
  PROVE  Value(w, a, b) = Value(ir, a, b)
<1> DEFINE L == Len(ir)
           d == ir[k].dst
<1>0. PICK e, f : e = Env(ir, a, b) /\ f = Env(w, a, b)
  OBVIOUS
<1>1. Evaluates(ir, a, b, e) /\ Evaluates(w, a, b, f)
  <2>1. w \in Code /\ SSA(w)
    BY SplicedSSA
  <2>2. ir \in Code /\ SSA(ir)
    BY DEF Rewrites
  <2> QED
    BY <1>0, <2>1, <2>2 DEF Evaluates
<1>2. /\ f[L + 2][n + 2] = e[L][d]
      /\ \A m \in 0..(n - 1) : m # d => f[L + 2][m] = e[L][m]
  <2>1. After(ir, k, n, e, f, L)
    BY <1>1, SameToTheEnd
  <2> QED
    BY <2>1 DEF After
<1>3. /\ n \in Nat /\ k \in 1..L /\ L \in Nat /\ k \in Nat
      /\ \A j \in 1..L : ir[j] \in Instruction /\ ir[j].dst \in 3..(n - 1)
  BY Rewritten
<1>4. /\ Len(w) = L + 2 /\ w[k + 2] = Def("sub", n + 2, n + 1, 0)
      /\ \A j \in (k + 1)..L : w[j + 2] = Use(ir[j], d, n + 2)
  <2>1. Parts(ir, k, n, w)
    BY SplicedParts
  <2> QED
    BY <2>1 DEF Parts
<1>5. Value(w, a, b) = f[L + 2][w[L + 2].dst] /\ Value(ir, a, b) = e[L][ir[L].dst]
  BY <1>0, <1>4 DEF Value
<1>6. CASE k = L
  <2>1. w[L + 2].dst = n + 2
    BY <1>4, <1>6 DEF Def
  <2> QED
    BY <1>2, <1>5, <1>6, <2>1
<1>7. CASE k # L
  <2>1. L \in (k + 1)..L /\ L \in 1..L
    BY <1>3, <1>7
  <2>2. w[L + 2].dst = ir[L].dst
    <3>1. ir[L] \in Instruction /\ w[L + 2] = Use(ir[L], d, n + 2)
      BY <1>3, <1>4, <2>1
    <3> QED
      BY <3>1 DEF Use, Instruction
  <2>3. ir[L].dst \in 0..(n - 1) /\ ir[L].dst # d
    <3>1. ir[L].dst # d
      BY <1>3, <1>7, <2>1 DEF Rewrites, SSA
    <3>2. ir[L].dst \in 3..(n - 1)
      BY <1>3, <2>1
    <3>3. \A z \in 3..(n - 1) : z \in 0..(n - 1)
      BY <1>3
    <3> QED
      BY <3>1, <3>2, <3>3
  <2> QED
    BY <1>2, <1>5, <2>2, <2>3
<1> QED
  BY <1>6, <1>7

\* The replacement a + b = a - (~b) - 1, with the uses of the sum renamed, keeps
\* what a function in SSA form computes.
LEMMA SplicedMeaning ==
  ASSUME NEW ir \in Code, SSA(ir), NEW k \in 1..Len(ir), IsIntAdd(ir[k])
  PROVE  LET w == Spliced(ir, k, Fresh(ir))
         IN  w \in Code /\ SSA(w) /\ Meaning(w) = Meaning(ir)
<1> DEFINE n == Fresh(ir)
           w == Spliced(ir, k, n)
<1>1. Rewrites(ir, k, n, w)
  BY DEF Rewrites
<1> HIDE DEF n, w
<1>2. w \in Code /\ SSA(w)
  BY <1>1, SplicedSSA
<1>3. \A a, b \in Number : Value(w, a, b) = Value(ir, a, b)
  BY <1>1, SplicedValue
<1>4. Meaning(w) = Meaning(ir)
  <2>1. \A v \in Number \X Number : Value(w, v[1], v[2]) = Value(ir, v[1], v[2])
    BY <1>3
  <2>2. [v \in Number \X Number |-> Value(w, v[1], v[2])]
          = [v \in Number \X Number |-> Value(ir, v[1], v[2])]
    BY <2>1
  <2> QED
    BY <2>2 DEF Meaning, Number
<1> QED
  BY <1>2, <1>4 DEF n, w
------------------------------------------------------------------------------
(* Types.                                                                    *)

Entry == [id : Nat, hash : Code, size : Nat]
Array == [id : Nat, data : Code]

PassTypeOK ==
  /\ marked \in BOOLEAN /\ it \in Nat /\ it > 0
  /\ base_ir \in Code /\ mutated_ir \in Code

PoolTypeOK ==
  /\ pc \in {"exited", "loop", "opt", "alive", "compile", "record", "package", "done"}
  /\ valid_count \in Nat
  /\ manifest \in Seq(Entry)
  /\ bin \in [Ids -> Code]
  /\ header \in [arrays : Seq(Array), records : Seq(Entry), closed : BOOLEAN]

TypeOK == PassTypeOK /\ PoolTypeOK

\* How far the script is, and what it holds there.
Progress ==
  /\ Len(manifest) = valid_count /\ valid_count <= VARIANTS_COUNT
  /\ pc \in {"opt", "alive", "compile", "record"} => valid_count < VARIANTS_COUNT
  /\ pc \in {"compile", "record"} => mutated_ir \in accepted
  /\ pc = "record" => bin[valid_count] = mutated_ir
  /\ pc \in {"package", "done"} => valid_count = VARIANTS_COUNT

\* An entry of the manifest describes the file of its number, verified in
\* this run: no later step of the run writes that file again.
Described ==
  \A k \in 1..Len(manifest) :
    /\ manifest[k].id = k - 1
    /\ manifest[k].hash = bin[k - 1] /\ manifest[k].size = Len(bin[k - 1])
    /\ bin[k - 1] \in accepted

\* The header while it is being written.
Partial ==
  pc = "package" =>
    /\ ~header.closed
    /\ Len(header.arrays) <= Len(manifest)
    /\ \A k \in 1..Len(header.arrays) : /\ header.arrays[k].id = k - 1
                                        /\ header.arrays[k].data = bin[k - 1]

\* The pass while it runs: no addition is left behind the iterator.
Passed ==
  pc \in {"opt", "alive"} =>
    /\ marked => \A k \in 1..(it - 1) : k \in 1..Len(mutated_ir)
                                          => ~IsIntAdd(mutated_ir[k])
    /\ ~marked => mutated_ir = base_ir
    /\ pc = "alive" => PassDone

\* The function is in SSA form all along, and means what it meant.
Sound ==
  /\ pc # "exited" => SSA(base_ir)
  /\ pc \in {"opt", "alive"} => SSA(mutated_ir) /\ Meaning(mutated_ir) = Meaning(base_ir)

IInv == /\ TypeOK /\ Progress /\ Described /\ Partial /\ Passed /\ Sound
        /\ HeaderSound
------------------------------------------------------------------------------
(* The steps of the pass.                                                    *)

LEMMA RewriteStep ==
  ASSUME PassTypeOK, Rewrite
  PROVE  /\ marked /\ it \in 1..Len(mutated_ir) /\ IsIntAdd(mutated_ir[it])
         /\ mutated_ir' = Spliced(mutated_ir, it, Fresh(mutated_ir))
         /\ it' = it + 3
         /\ UNCHANGED <<marked, base_ir>>
<1>1. Len(mutated_ir) \in Nat
  BY Instructions DEF PassTypeOK
<1>2. marked /\ it <= Len(mutated_ir)
  BY <1>1 DEF Rewrite, PassDone, PassTypeOK
<1>3. it \in 1..Len(mutated_ir)
  BY <1>1, <1>2 DEF PassTypeOK
<1> QED
  BY <1>2, <1>3 DEF Rewrite, Spliced

LEMMA VisitStep ==
  ASSUME PassTypeOK, Visit
  PROVE  /\ marked /\ it \in 1..Len(mutated_ir) /\ ~IsIntAdd(mutated_ir[it])
         /\ it' = it + 1
         /\ UNCHANGED <<marked, base_ir, mutated_ir>>
<1>1. Len(mutated_ir) \in Nat
  BY Instructions DEF PassTypeOK
<1>2. marked /\ it <= Len(mutated_ir)
  BY <1>1 DEF Visit, PassDone, PassTypeOK
<1>3. it \in 1..Len(mutated_ir)
  BY <1>1, <1>2 DEF PassTypeOK
<1> QED
  BY <1>2, <1>3 DEF Visit

LEMMA OptType ==
  ASSUME PassTypeOK, Visit \/ Rewrite
  PROVE  PassTypeOK'
<1>1. CASE Visit
  BY <1>1, VisitStep DEF PassTypeOK
<1>2. CASE Rewrite
  <2>1. /\ it \in 1..Len(mutated_ir) /\ it' = it + 3
        /\ mutated_ir' = Spliced(mutated_ir, it, Fresh(mutated_ir))
        /\ UNCHANGED <<marked, base_ir>>
    BY <1>2, RewriteStep
  <2>2. mutated_ir \in Code /\ Fresh(mutated_ir) \in Nat
    BY FreshName DEF PassTypeOK
  <2>3. mutated_ir' \in Code
    <3>1. Splices(mutated_ir, it, Fresh(mutated_ir), mutated_ir')
      BY <2>1, <2>2, SplicedCode
    <3> QED
      BY <3>1 DEF Splices
  <2> QED
    BY <2>1, <2>3 DEF PassTypeOK
<1> QED
  BY <1>1, <1>2

\* The iterator leaves no addition behind.
LEMMA OptPassed ==
  ASSUME PassTypeOK, marked,
         \A k \in 1..(it - 1) : k \in 1..Len(mutated_ir) => ~IsIntAdd(mutated_ir[k]),
         Visit \/ Rewrite
  PROVE  (\A k \in 1..(it - 1) : k \in 1..Len(mutated_ir) => ~IsIntAdd(mutated_ir[k]))'
<1>1. CASE Visit
  BY <1>1, VisitStep DEF PassTypeOK
<1>2. CASE Rewrite
  <2> DEFINE n == Fresh(mutated_ir)
  <2>1. /\ it \in 1..Len(mutated_ir) /\ it' = it + 3
        /\ mutated_ir' = Spliced(mutated_ir, it, n)
    BY <1>2, RewriteStep
  <2>2. mutated_ir \in Code /\ n \in Nat
    BY FreshName DEF PassTypeOK
  <2> HIDE DEF n
  <2>3. /\ \A j \in 1..(it - 1) : mutated_ir'[j] = mutated_ir[j]
        /\ mutated_ir'[it] = Def("not", n, mutated_ir[it].y, 0)
        /\ mutated_ir'[it + 1] = Def("sub", n + 1, mutated_ir[it].x, n)
        /\ mutated_ir'[it + 2] = Def("sub", n + 2, n + 1, 0)
    <3>1. Splices(mutated_ir, it, n, mutated_ir')
      BY <2>1, <2>2, SplicedCode
    <3> QED
      BY <3>1 DEF Splices
  <2>4. /\ ~IsIntAdd(mutated_ir'[it]) /\ ~IsIntAdd(mutated_ir'[it + 1])
        /\ ~IsIntAdd(mutated_ir'[it + 2])
    <3>1. mutated_ir'[it].op = "not"
      BY <2>3, DefFields
    <3>2. mutated_ir'[it + 1].op = "sub"
      BY <2>3, DefFields
    <3>3. mutated_ir'[it + 2].op = "sub"
      BY <2>3, DefFields
    <3> QED
      BY <3>1, <3>2, <3>3 DEF IsIntAdd
  <2>5. Len(mutated_ir) \in Nat /\ it \in Nat
    BY <2>2, Instructions DEF PassTypeOK
  <2>6. ASSUME NEW k \in 1..(it' - 1) PROVE ~IsIntAdd(mutated_ir'[k])
    <3>1. k \in 1..(it - 1) \/ k = it \/ k = it + 1 \/ k = it + 2
      BY <2>1, <2>5
    <3>2. CASE k \in 1..(it - 1)
      <4>1. k \in 1..Len(mutated_ir) /\ mutated_ir'[k] = mutated_ir[k]
        BY <2>1, <2>3, <2>5, <3>2
      <4> QED
        BY <3>2, <4>1
    <3> QED
      BY <2>4, <3>1, <3>2
  <2> QED
    BY <2>6
<1> QED
  BY <1>1, <1>2
------------------------------------------------------------------------------
(* The steps of the script.                                                  *)

\* The number of the variant at hand is the number of a file.
LEMMA FileNumber ==
  ASSUME TypeOK, Progress, pc \in {"opt", "alive", "compile", "record"}
  PROVE  valid_count \in Ids /\ bin[valid_count] \in Code
<1>1. valid_count \in Ids
  BY PoolAssumption DEF TypeOK, PoolTypeOK, Progress, Ids
<1> QED
  BY <1>1 DEF TypeOK, PoolTypeOK

\* So is every number in the manifest.
LEMMA Files ==
  ASSUME TypeOK, Progress, NEW k \in 1..Len(manifest)
  PROVE  /\ k \in Nat /\ k - 1 \in Ids /\ bin[k - 1] \in Code
         /\ Len(manifest) \in Nat /\ manifest[k] \in Entry
<1>0. manifest \in Seq(Entry) /\ bin \in [Ids -> Code]
  BY DEF TypeOK, PoolTypeOK
<1>1. Len(manifest) \in Nat /\ manifest[k] \in Entry
  BY <1>0
<1>2. k - 1 \in Ids
  BY <1>1, PoolAssumption DEF Progress, Ids
<1> QED
  BY <1>0, <1>1, <1>2

LEMMA TypeInit == Init => TypeOK
<1> SUFFICES ASSUME Init PROVE TypeOK
  OBVIOUS
<1>1. <<>> \in Code /\ <<>> \in Seq(Entry) /\ <<>> \in Seq(Array)
  BY DEF Code
<1>2. header \in [arrays : Seq(Array), records : Seq(Entry), closed : BOOLEAN]
  BY <1>1 DEF Init, NoHeader
<1>3. bin \in [Ids -> Code]
  BY <1>1 DEF Init
<1>4. base_ir \in Code /\ mutated_ir \in Code /\ manifest \in Seq(Entry)
  BY <1>1 DEF Init
<1>5. marked \in BOOLEAN /\ pc = "exited"
  BY Zenon DEF Init
<1>6. it \in Nat /\ it > 0 /\ valid_count \in Nat
  <2>1. it = 1 /\ valid_count = 0
    BY Zenon DEF Init
  <2> QED
    BY <2>1
<1> QED
  BY <1>2, <1>3, <1>4, <1>5, <1>6 DEF TypeOK, PassTypeOK, PoolTypeOK

LEMMA TypeNext ==
  ASSUME TypeOK, Progress, Described, [Next]_vars
  PROVE  TypeOK'
<1>0. PassTypeOK /\ PoolTypeOK
  BY DEF TypeOK
<1>1. CASE Start
  <2>1. base_ir' \in Code /\ marked' \in BOOLEAN
    BY <1>1, PoolAssumption DEF Start
  <2> QED
    BY <1>0, <1>1, <2>1 DEF Start, TypeOK, PassTypeOK, PoolTypeOK
<1>2. CASE Attempt
  BY <1>0, <1>2 DEF Attempt, StartPass, TypeOK, PassTypeOK, PoolTypeOK
<1>3. CASE OpenHeader
  <2>1. NoHeader \in [arrays : Seq(Array), records : Seq(Entry), closed : BOOLEAN]
    BY DEF NoHeader
  <2> QED
    BY <1>0, <1>3, <2>1 DEF OpenHeader, passVars, TypeOK, PassTypeOK, PoolTypeOK
<1>4. CASE OptStep
  <2>1. PassTypeOK'
    BY <1>0, <1>4, OptType DEF OptStep
  <2> QED
    BY <1>0, <1>4, <2>1 DEF OptStep, TypeOK, PoolTypeOK
<1>5. CASE OptDone \/ AliveRejects \/ AliveAccepts \/ Stop
  BY <1>0, <1>5 DEF OptDone, AliveRejects, AliveAccepts, Stop, passVars, TypeOK,
                    PassTypeOK, PoolTypeOK
<1>6. CASE Compile
  BY <1>0, <1>6 DEF Compile, passVars, TypeOK, PassTypeOK, PoolTypeOK
<1>7. CASE Record
  <2>1. bin[valid_count] \in Code /\ Len(bin[valid_count]) \in Nat
    BY <1>7, FileNumber, Instructions DEF Record
  <2>2. [id |-> valid_count, hash |-> bin[valid_count],
         size |-> Len(bin[valid_count])] \in Entry
    BY <1>0, <2>1 DEF Entry, PoolTypeOK
  <2>3. manifest' \in Seq(Entry)
    BY <1>0, <1>7, <2>2 DEF Record, PoolTypeOK
  <2> QED
    BY <1>0, <1>7, <2>3 DEF Record, passVars, TypeOK, PassTypeOK, PoolTypeOK
<1>8. CASE WriteArray
  <2> DEFINE k == Len(header.arrays) + 1
             a == [id |-> manifest[k].id, data |-> bin[manifest[k].id]]
  <2>1. header.arrays \in Seq(Array) /\ Len(header.arrays) \in Nat
    BY <1>0 DEF PoolTypeOK
  <2>2. k \in 1..Len(manifest)
    BY <1>0, <1>8, <2>1 DEF WriteArray, PoolTypeOK
  <2> HIDE DEF k
  <2>3. manifest[k].id = k - 1 /\ bin[k - 1] \in Code /\ k - 1 \in Nat
    BY <2>2, Files DEF Described, Ids
  <2>4. a \in Array
    BY <2>3 DEF Array
  <2>5. header' = [header EXCEPT !.arrays = Append(@, a)]
    BY <1>8 DEF WriteArray, k
  <2> HIDE DEF a
  <2>6. Append(header.arrays, a) \in Seq(Array)
    BY <2>1, <2>4
  <2>7. header' \in [arrays : Seq(Array), records : Seq(Entry), closed : BOOLEAN]
    BY <1>0, <2>5, <2>6 DEF PoolTypeOK
  <2> QED
    BY <1>0, <1>8, <2>7 DEF WriteArray, passVars, TypeOK, PassTypeOK, PoolTypeOK
<1>9. CASE WriteTable
  BY <1>0, <1>9 DEF WriteTable, passVars, TypeOK, PassTypeOK, PoolTypeOK
<1>10. CASE UNCHANGED vars
  BY <1>0, <1>10 DEF vars, passVars, TypeOK, PassTypeOK, PoolTypeOK
<1> QED
  BY <1>1, <1>2, <1>3, <1>4, <1>5, <1>6, <1>7, <1>8, <1>9, <1>10 DEF Next, Pipeline

LEMMA ProgressNext ==
  ASSUME TypeOK, Progress, [Next]_vars
  PROVE  Progress'
<1>0. /\ VARIANTS_COUNT \in Nat /\ valid_count \in Nat
      /\ manifest \in Seq(Entry) /\ bin \in [Ids -> Code]
  BY PoolAssumption DEF TypeOK, PoolTypeOK
<1>1. CASE Start
  BY <1>0, <1>1 DEF Start, Progress
<1>2. CASE Attempt \/ OpenHeader
  BY <1>0, <1>2 DEF Attempt, OpenHeader, Progress
<1>3. CASE OptStep \/ OptDone \/ AliveRejects
  BY <1>0, <1>3 DEF OptStep, OptDone, AliveRejects, passVars, Progress
<1>4. CASE AliveAccepts
  BY <1>0, <1>4 DEF AliveAccepts, passVars, Progress
<1>5. CASE Compile
  <2>1. valid_count \in Ids
    BY <1>5, FileNumber DEF Compile
  <2>2. bin'[valid_count] = mutated_ir
    BY <1>0, <1>5, <2>1 DEF Compile
  <2> QED
    BY <1>0, <1>5, <2>2 DEF Compile, passVars, Progress
<1>6. CASE Record
  <2>1. Len(manifest') = Len(manifest) + 1
    BY <1>0, <1>6 DEF Record
  <2>2. valid_count < VARIANTS_COUNT /\ Len(manifest) = valid_count
    BY <1>6 DEF Record, Progress
  <2> QED
    BY <1>0, <1>6, <2>1, <2>2 DEF Record, Progress
<1>7. CASE WriteArray \/ WriteTable \/ Stop
  BY <1>0, <1>7 DEF WriteArray, WriteTable, Stop, passVars, Progress
<1>8. CASE UNCHANGED vars
  BY <1>8 DEF vars, passVars, Progress
<1> QED
  BY <1>1, <1>2, <1>3, <1>4, <1>5, <1>6, <1>7, <1>8 DEF Next, Pipeline

LEMMA DescribedNext ==
  ASSUME TypeOK, Progress, Described, [Next]_vars
  PROVE  Described'
<1>0. /\ VARIANTS_COUNT \in Nat /\ valid_count \in Nat /\ Len(manifest) = valid_count
      /\ manifest \in Seq(Entry) /\ bin \in [Ids -> Code]
  BY PoolAssumption DEF TypeOK, PoolTypeOK, Progress
<1>1. CASE Start
  BY <1>1 DEF Start, Described
<1>2. CASE \/ Attempt \/ OpenHeader \/ OptStep \/ OptDone \/ AliveRejects
           \/ WriteArray \/ WriteTable \/ Stop
  BY <1>2 DEF Attempt, OpenHeader, OptStep, OptDone, AliveRejects, WriteArray,
              WriteTable, Stop, Described
<1>3. CASE AliveAccepts
  BY <1>3 DEF AliveAccepts, Described
<1>4. CASE Compile
  <2>1. ASSUME NEW k \in 1..Len(manifest)
        PROVE  bin'[k - 1] = bin[k - 1]
    <3>1. k - 1 \in Ids /\ k - 1 # valid_count
      <4>1. k - 1 \in Ids /\ k \in Nat
        BY Files
      <4> QED
        BY <1>0, <4>1
    <3> QED
      BY <1>0, <1>4, <3>1 DEF Compile
  <2> QED
    BY <1>4, <2>1 DEF Compile, Described
<1>5. CASE Record
  <2> DEFINE e == [id |-> valid_count, hash |-> bin[valid_count],
                   size |-> Len(bin[valid_count])]
  <2>1. manifest' = Append(manifest, e) /\ UNCHANGED <<bin, accepted>>
    BY <1>5 DEF Record
  <2>2. bin[valid_count] \in accepted
    BY <1>5 DEF Record, Progress
  <2>3. /\ e.id = valid_count /\ e.hash = bin[valid_count]
        /\ e.size = Len(bin[valid_count])
    OBVIOUS
  <2> HIDE DEF e
  <2>4. e \in Entry
    <3>1. bin[valid_count] \in Code /\ Len(bin[valid_count]) \in Nat
      BY <1>5, FileNumber, Instructions DEF Record
    <3> QED
      BY <1>0, <3>1 DEF Entry, e
  <2>5. /\ Len(manifest') = valid_count + 1 /\ manifest'[valid_count + 1] = e
        /\ \A k \in 1..Len(manifest) : manifest'[k] = manifest[k]
    BY <1>0, <2>1, <2>4
  <2>6. \A k \in 1..Len(manifest') : k \in 1..Len(manifest) \/ k = valid_count + 1
    BY <1>0, <2>5
  <2>7. valid_count + 1 - 1 = valid_count
    BY <1>0
  <2> SUFFICES ASSUME NEW k \in 1..Len(manifest')
               PROVE  /\ manifest'[k].id = k - 1
                      /\ manifest'[k].hash = bin[k - 1]
                      /\ manifest'[k].size = Len(bin[k - 1])
                      /\ bin[k - 1] \in accepted
    BY <2>1 DEF Described
  <2>8. CASE k \in 1..Len(manifest)
    BY <2>5, <2>8 DEF Described
  <2>9. CASE k = valid_count + 1
    <3>1. k - 1 = valid_count /\ manifest'[k] = e
      BY <1>0, <2>5, <2>7, <2>9
    <3> QED
      BY <2>2, <2>3, <3>1, Zenon
  <2>10. k \in 1..Len(manifest) \/ k = valid_count + 1
    BY <2>6
  <2> QED
    BY <2>8, <2>9, <2>10
<1>6. CASE UNCHANGED vars
  BY <1>6 DEF vars, Described
<1> QED
  BY <1>1, <1>2, <1>3, <1>4, <1>5, <1>6 DEF Next, Pipeline

LEMMA PartialNext ==
  ASSUME TypeOK, Progress, Described, Partial, [Next]_vars
  PROVE  Partial'
<1>0. /\ header \in [arrays : Seq(Array), records : Seq(Entry), closed : BOOLEAN]
      /\ manifest \in Seq(Entry)
  BY DEF TypeOK, PoolTypeOK
<1>1. CASE pc' # "package"
  BY <1>1 DEF Partial
<1>2. CASE OpenHeader
  <2>1. header'.closed = FALSE /\ header'.arrays = <<>> /\ manifest' = manifest
    BY <1>2 DEF OpenHeader, NoHeader
  <2> QED
    BY <1>0, <2>1 DEF Partial
<1>3. CASE WriteArray
  <2> DEFINE n == Len(header.arrays)
             a == [id |-> manifest[n + 1].id, data |-> bin[manifest[n + 1].id]]
  <2>1. header.arrays \in Seq(Array) /\ n \in Nat /\ Len(manifest) \in Nat
    BY <1>0
  <2>2. n + 1 \in 1..Len(manifest) /\ UNCHANGED <<pc, manifest, bin>>
    BY <1>3, <2>1 DEF WriteArray
  <2>3. header' = [header EXCEPT !.arrays = Append(@, a)]
    BY <1>3 DEF WriteArray
  <2> HIDE DEF n
  <2>4. a.id = n /\ a.data = bin[n] /\ bin[n] \in Code
    <3>0. PICK k \in 1..Len(manifest) : k = n + 1
      BY <2>2
    <3>1. manifest[k].id = k - 1 /\ k - 1 = n
      BY <2>1, <3>0 DEF Described
    <3>2. bin[k - 1] \in Code
      BY Files
    <3>3. manifest[n + 1].id = n /\ bin[n] \in Code
      BY <3>0, <3>1, <3>2
    <3>4. a.id = manifest[n + 1].id /\ a.data = bin[manifest[n + 1].id]
      OBVIOUS
    <3> HIDE DEF a
    <3> QED
      BY <3>3, <3>4
  <2>5. a \in Array
    BY <2>1, <2>4 DEF Array
  <2> HIDE DEF a
  <2>6. header'.arrays = Append(header.arrays, a) /\ header'.closed = header.closed
    BY <1>0, <2>3
  <2>7. /\ Len(header'.arrays) = n + 1 /\ header'.arrays[n + 1] = a
        /\ \A k \in 1..n : header'.arrays[k] = header.arrays[k]
    BY <2>1, <2>5, <2>6 DEF n
  <2>8. /\ ~header.closed
        /\ \A k \in 1..n : /\ header.arrays[k].id = k - 1
                           /\ header.arrays[k].data = bin[k - 1]
    BY <1>3 DEF WriteArray, Partial, n
  <2>9. ASSUME NEW k \in 1..(n + 1)
        PROVE  header'.arrays[k].id = k - 1 /\ header'.arrays[k].data = bin[k - 1]
    <3>1. CASE k \in 1..n
      BY <2>7, <2>8, <3>1
    <3>2. CASE k = n + 1
      <4>1. k - 1 = n
        BY <2>1, <3>2
      <4> QED
        BY <2>4, <2>7, <3>2, <4>1
    <3>3. k \in 1..n \/ k = n + 1
      BY <2>1
    <3> QED
      BY <3>1, <3>2, <3>3
  <2>10. Len(header'.arrays) <= Len(manifest) /\ ~header'.closed
    BY <2>1, <2>2, <2>6, <2>7, <2>8
  <2> QED
    BY <2>2, <2>7, <2>9, <2>10 DEF Partial
<1>4. CASE UNCHANGED vars
  BY <1>4 DEF vars, Partial
<1>5. \/ pc' # "package" \/ OpenHeader \/ WriteArray \/ UNCHANGED vars
  BY DEF Next, Pipeline, Start, Attempt, OptStep, OptDone, AliveRejects, AliveAccepts,
         Compile, Record, WriteTable, Stop
<1> QED
  BY <1>1, <1>2, <1>3, <1>4, <1>5

LEMMA PassedNext ==
  ASSUME TypeOK, Passed, [Next]_vars
  PROVE  Passed'
<1>1. CASE pc' \notin {"opt", "alive"}
  BY <1>1 DEF Passed
<1>2. CASE Attempt
  BY <1>2 DEF Attempt, StartPass, Passed
<1>3. CASE OptStep
  <2>1. PassTypeOK /\ (Visit \/ Rewrite) /\ pc = "opt" /\ pc' = "opt"
    BY <1>3 DEF OptStep, TypeOK
  <2>2. marked /\ marked' = marked
    BY <2>1, VisitStep, RewriteStep
  <2>3. \A k \in 1..(it - 1) : k \in 1..Len(mutated_ir) => ~IsIntAdd(mutated_ir[k])
    BY <2>1, <2>2 DEF Passed
  <2>4. (\A k \in 1..(it - 1) : k \in 1..Len(mutated_ir) => ~IsIntAdd(mutated_ir[k]))'
    BY <2>1, <2>2, <2>3, OptPassed
  <2> QED
    BY <2>1, <2>2, <2>4 DEF Passed
<1>4. CASE OptDone
  BY <1>4 DEF OptDone, passVars, PassDone, Passed
<1>5. CASE UNCHANGED vars
  BY <1>5 DEF vars, passVars, PassDone, Passed
<1>6. \/ pc' \notin {"opt", "alive"} \/ Attempt \/ OptStep \/ OptDone \/ UNCHANGED vars
  BY DEF Next, Pipeline, Start, OpenHeader, AliveRejects, AliveAccepts, Compile,
         Record, WriteArray, WriteTable, Stop
<1> QED
  BY <1>1, <1>2, <1>3, <1>4, <1>5, <1>6

LEMMA SoundNext ==
  ASSUME TypeOK, Sound, [Next]_vars
  PROVE  Sound'
<1>1. CASE Start
  <2>1. SSA(base_ir')
    BY <1>1, PoolAssumption DEF Start
  <2> QED
    BY <1>1, <2>1 DEF Start, Sound
<1>2. CASE Attempt
  BY <1>2 DEF Attempt, StartPass, Sound
<1>3. CASE OptStep
  <2>0. PassTypeOK /\ pc = "opt" /\ pc' = "opt" /\ (Visit \/ Rewrite)
    BY <1>3 DEF OptStep, TypeOK
  <2>1. SSA(base_ir) /\ SSA(mutated_ir) /\ Meaning(mutated_ir) = Meaning(base_ir)
    BY <2>0 DEF Sound
  <2>2. CASE Visit
    <3>1. UNCHANGED <<base_ir, mutated_ir>>
      BY <2>2 DEF Visit
    <3> QED
      BY <2>0, <2>1, <3>1 DEF Sound
  <2>3. CASE Rewrite
    <3>1. /\ it \in 1..Len(mutated_ir) /\ IsIntAdd(mutated_ir[it])
          /\ mutated_ir' = Spliced(mutated_ir, it, Fresh(mutated_ir))
          /\ base_ir' = base_ir
      BY <2>0, <2>3, RewriteStep
    <3>2. mutated_ir \in Code
      BY <2>0 DEF PassTypeOK
    <3>3. SSA(mutated_ir') /\ Meaning(mutated_ir') = Meaning(mutated_ir)
      BY <2>1, <3>1, <3>2, SplicedMeaning
    <3> QED
      BY <2>0, <2>1, <3>1, <3>3 DEF Sound
  <2> QED
    BY <2>0, <2>2, <2>3
<1>4. CASE OptDone
  BY <1>4 DEF OptDone, passVars, Sound
<1>5. CASE UNCHANGED vars
  BY <1>5 DEF vars, passVars, Sound
<1>6. CASE \/ OpenHeader \/ AliveRejects \/ AliveAccepts \/ Compile \/ Record
           \/ WriteArray \/ WriteTable \/ Stop
  BY <1>6 DEF OpenHeader, AliveRejects, AliveAccepts, Compile, Record, WriteArray,
              WriteTable, Stop, Running, passVars, Sound
<1> QED
  BY <1>1, <1>2, <1>3, <1>4, <1>5, <1>6 DEF Next, Pipeline

LEMMA HeaderNext ==
  ASSUME TypeOK, Progress, Described, Partial, HeaderSound, [Next]_vars
  PROVE  HeaderSound'
<1>0. /\ header \in [arrays : Seq(Array), records : Seq(Entry), closed : BOOLEAN]
      /\ VARIANTS_COUNT \in Nat /\ manifest \in Seq(Entry)
  BY PoolAssumption DEF TypeOK, PoolTypeOK
<1>1. CASE header' = header /\ pc' # "done"
  BY <1>1 DEF HeaderSound
<1>2. CASE OpenHeader
  <2>1. header'.closed = FALSE
    BY <1>2 DEF OpenHeader, NoHeader
  <2> QED
    BY <2>1 DEF HeaderSound
<1>3. CASE WriteArray
  <2>1. header'.closed = header.closed
    BY <1>0, <1>3 DEF WriteArray
  <2>2. ~header.closed
    BY <1>3 DEF WriteArray, Partial
  <2> QED
    BY <2>1, <2>2 DEF HeaderSound
<1>4. CASE WriteTable
  <2>1. /\ Len(header.arrays) = Len(manifest) /\ UNCHANGED accepted
        /\ header'.arrays = header.arrays /\ header'.records = manifest
    BY <1>0, <1>4 DEF WriteTable
  <2>2. Len(manifest) = VARIANTS_COUNT
    BY <1>4 DEF WriteTable, Progress
  <2>3. \A k \in 1..VARIANTS_COUNT : /\ header.arrays[k].id = k - 1
                                     /\ header.arrays[k].data = bin[k - 1]
    BY <1>4, <2>1, <2>2 DEF WriteTable, Partial
  <2>4. \A k \in 1..VARIANTS_COUNT :
          /\ manifest[k].id = k - 1
          /\ manifest[k].hash = bin[k - 1] /\ manifest[k].size = Len(bin[k - 1])
          /\ bin[k - 1] \in accepted
    BY <2>2 DEF Described
  <2>5. \A k \in 1..VARIANTS_COUNT :
          /\ header'.records[k].id = k - 1 /\ header'.arrays[k].id = k - 1
          /\ header'.records[k].hash = header'.arrays[k].data
          /\ header'.records[k].size = Len(header'.arrays[k].data)
          /\ header'.arrays[k].data \in accepted'
    BY <2>1, <2>3, <2>4
  <2> QED
    BY <2>1, <2>2, <2>5 DEF HeaderSound
<1>5. CASE UNCHANGED vars
  BY <1>5 DEF vars, HeaderSound
<1>6. \/ header' = header /\ pc' # "done"
      \/ OpenHeader \/ WriteArray \/ WriteTable
      \/ UNCHANGED vars
  BY DEF Next, Pipeline, Start, Attempt, OptStep, OptDone, AliveRejects, AliveAccepts,
         Compile, Record, Stop
<1> QED
  BY <1>1, <1>2, <1>3, <1>4, <1>5, <1>6

LEMMA InvInit == Init => IInv
<1> SUFFICES ASSUME Init PROVE IInv
  OBVIOUS
<1>1. TypeOK
  BY TypeInit
<1>2. /\ manifest = <<>> /\ valid_count = 0 /\ pc = "exited" /\ ~header.closed
  BY DEF Init, NoHeader
<1>3. Progress
  BY <1>2, PoolAssumption DEF Progress
<1>4. Described /\ Partial
  BY <1>2 DEF Described, Partial
<1>5. Passed /\ Sound
  BY <1>2 DEF Passed, Sound
<1>6. HeaderSound
  BY <1>2 DEF HeaderSound
<1> QED
  BY <1>1, <1>3, <1>4, <1>5, <1>6 DEF IInv

LEMMA InvNext == IInv /\ [Next]_vars => IInv'
BY TypeNext, ProgressNext, DescribedNext, PartialNext, PassedNext, SoundNext, HeaderNext
   DEF IInv

LEMMA Invariant == Spec => []IInv
BY InvInit, InvNext, PTL DEF Spec

\* A header that was written to its end describes the variants verified in the
\* run that wrote it, for any number of variants, any sources, and any history of
\* interrupted runs (generate_pool.py).
THEOREM HeaderCorrect == Spec => []HeaderSound
<1>1. IInv => HeaderSound
  BY DEF IInv
<1> QED
  BY <1>1, Invariant, PTL

\* The pass leaves no integer addition in a marked function, and an unmarked
\* one as it was, for functions of any length (MutatorPass.cpp).
THEOREM PassCorrect == Spec => []PassComplete
<1>1. IInv => PassComplete
  <2> SUFFICES ASSUME IInv, pc = "alive" PROVE PassComplete
    BY DEF PassComplete
  <2>1. PassTypeOK /\ Passed
    BY DEF IInv, TypeOK
  <2>2. CASE ~marked
    BY <2>1, <2>2 DEF Passed, PassComplete
  <2>3. CASE marked
    <3>1. it > Len(mutated_ir)
      BY <2>1, <2>3 DEF Passed, PassDone
    <3>2. DOMAIN mutated_ir = 1..Len(mutated_ir) /\ Len(mutated_ir) \in Nat
      BY <2>1, Instructions DEF PassTypeOK
    <3>3. \A k \in 1..Len(mutated_ir) : k \in 1..(it - 1)
      BY <2>1, <3>1, <3>2 DEF PassTypeOK
    <3> QED
      BY <2>1, <2>3, <3>2, <3>3 DEF Passed, PassComplete
  <2> QED
    BY <2>2, <2>3
<1> QED
  BY <1>1, Invariant, PTL

\* Between any two steps of the pass the function computes what it did before, for
\* all arguments: for every function in SSA form and every width of the integers
\* (MutatorPass.cpp).
THEOREM MeaningCorrect == Spec => []PassPreservesMeaning
<1>1. IInv => PassPreservesMeaning
  BY DEF IInv, Sound, PassPreservesMeaning
<1> QED
  BY <1>1, Invariant, PTL
==============================================================================

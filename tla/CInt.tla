-------------------------------- MODULE CInt --------------------------------
(* C integers of a parametric width: int is -IntMax-1 .. IntMax, uint32_t   *)
(* has the same number of values.                                          *)
EXTENDS Integers

CONSTANT IntMax   \* INT_MAX

ASSUME IntMaxAssumption == IntMax \in Nat \ {0}

WordSize    == 2 * (IntMax + 1)
IntRange    == (-IntMax - 1)..IntMax
Uint32Range == 0..(WordSize - 1)

\* Mutant: the count is wider than an int.
WrapNone(i) == i

\* The successor of an int wraps (the build's add instruction).
Wrap(i) == IF i > IntMax THEN i - WordSize ELSE i

\* (uint32_t)i.
ToUint32(i) == IF i < 0 THEN i + WordSize ELSE i

\* Mutant: an unsigned value is compared with an int as it is.
ToIntNone(u) == u

\* (int)u.
ToInt(u) == IF u > IntMax THEN u - WordSize ELSE u

\* The sum of two uint32_t.
AddUint32(u, v) == IF u + v >= WordSize THEN u + v - WordSize ELSE u + v
==============================================================================

-------------------------------- MODULE Arrays ---------------------------------
(* What the sources do with arrays and no library operator does. *)
EXTENDS Integers, FiniteSets, FiniteSetsExt

\* Array.prototype.sort, of a set whose members `before` orders strictly: the k-th of
\* them has k - 1 before it.
Sorted(S, before(_, _)) ==
  [k \in 1..Cardinality(S) |-> CHOOSE x \in S : Cardinality({y \in S : before(y, x)}) = k - 1]

\* Array.prototype.filter: the elements that pass the test, in their order.
Filter(s, Test(_)) ==
  LET at == Sorted({k \in DOMAIN s : Test(s[k])}, <) IN [k \in DOMAIN at |-> s[at[k]]]

\* Array.prototype.reduce with +: the sum of the values under some keys.
SumOver(S, value) == FoldSet(LAMBDA x, sum : sum + value[x], 0, S)
TotalOf(value) == SumOver(DOMAIN value, value)
=============================================================================

------------------------------ MODULE DataLemmas ------------------------------
(***************************************************************************)
(* Facts about data that the proofs share: numbers, folds, sorted lists    *)
(* and sums.                                                               *)
(***************************************************************************)
EXTENDS Integers, Sequences, FiniteSets, SequencesExt, FiniteSetsExt, SequenceTheorems,
        FiniteSetTheorems, WellFoundedInduction, Arrays, TLAPS

-----------------------------------------------------------------------------
(* Numbers: a set of them has a least, and what holds of 0 and goes on holds *)
(* of all.                                                                   *)
LEMMA Least ==
  ASSUME NEW S \in SUBSET Nat, S # {}
  PROVE  \E x \in S : \A y \in S : x <= y
<1>1. PICK R : IsWellFoundedOn(R, Nat) /\ \A x, y \in Nat : y < x => <<y, x>> \in R
  <2> DEFINE Q == {p \in Nat \X Nat : p[1] < p[2]}
  <2>1. Q = OpToRel(<, Nat) BY Zenon DEF OpToRel
  <2>2. IsWellFoundedOn(Q, Nat) BY Zenon, <2>1, NatLessThanWellFounded
  <2>3. \A x, y \in Nat : y < x => <<y, x>> \in Q OBVIOUS
  <2> HIDE DEF Q
  <2> QED BY <2>2, <2>3
<1>2. PICK x \in S : \A y \in S : ~ (<<y, x>> \in R)
  BY <1>1, WFMin
<1>3. ASSUME NEW y \in S PROVE x <= y
  <2>1. x \in Nat /\ y \in Nat OBVIOUS
  <2>2. ~ (y < x) BY <1>1, <1>2, <2>1
  <2> QED BY <2>1, <2>2
<1> QED BY <1>3

LEMMA AllNumbers ==
  ASSUME NEW S, 0 \in S, \A n \in Nat : n \in S => n + 1 \in S
  PROVE  Nat \subseteq S
<1> SUFFICES ASSUME Nat \ S # {} PROVE FALSE
  OBVIOUS
<1>1. PICK x \in Nat \ S : \A y \in Nat \ S : x <= y
  BY Least
<1>2. x # 0 BY <1>1
<1>3. x - 1 \in Nat /\ x - 1 \in S BY <1>1, <1>2
<1> QED BY <1>1, <1>3

\* The greatest of 1 to k.
LEMMA Greatest ==
  ASSUME NEW k \in Nat \ {0}
  PROVE  /\ Max(1..k) = k /\ (1..k) \ {k} = 1..(k - 1)
BY DEF Max

LEMMA FewAreFinite ==
  ASSUME NEW a, NEW b, NEW c, NEW e, NEW f, NEW g
  PROVE  IsFiniteSet({a, b, c, e, f, g})
<1>1. IsFiniteSet({a}) BY FS_Singleton
<1>2. IsFiniteSet({a} \cup {b}) BY <1>1, FS_AddElement
<1>3. IsFiniteSet(({a} \cup {b}) \cup {c}) BY <1>2, FS_AddElement
<1>4. IsFiniteSet((({a} \cup {b}) \cup {c}) \cup {e}) BY <1>3, FS_AddElement
<1>5. IsFiniteSet(((({a} \cup {b}) \cup {c}) \cup {e}) \cup {f}) BY <1>4, FS_AddElement
<1>6. IsFiniteSet((((({a} \cup {b}) \cup {c}) \cup {e}) \cup {f}) \cup {g}) BY <1>5, FS_AddElement
<1>7. {a, b, c, e, f, g} = (((({a} \cup {b}) \cup {c}) \cup {e}) \cup {f}) \cup {g} OBVIOUS
<1> QED BY <1>6, <1>7

-----------------------------------------------------------------------------
(* Folds: the function that a fold applies exists, for any way to pick the  *)
(* next element.                                                            *)
IsFold(h, D, base, pick, step) ==
  h = [T \in SUBSET D |-> IF T = {} THEN base ELSE step[<<pick[T], h[T \ {pick[T]}]>>]]

LEMMA Folding ==
  ASSUME NEW D, IsFiniteSet(D), NEW V, NEW base \in V,
         NEW pick, \A T \in SUBSET D : T # {} => pick[T] \in T,
         NEW step \in [D \X V -> V]
  PROVE  \E h \in [SUBSET D -> V] : IsFold(h, D, base, pick, step)
<1> DEFINE E(h, T) == IF T = {} THEN base ELSE step[<<pick[T], h[T \ {pick[T]}]>>]
           Upto(h, n) == \A T \in SUBSET D : Cardinality(T) <= n => h[T] = E(h, T)
           N == {n \in Nat : \E h \in [SUBSET D -> V] : Upto(h, n)}
<1>1. \A T \in SUBSET D : IsFiniteSet(T) /\ Cardinality(T) \in Nat
  BY FS_Subset, FS_CardinalityType
<1>2. \A h \in [SUBSET D -> V], T \in SUBSET D : E(h, T) \in V
  OBVIOUS
<1>3. 0 \in N
  <2> DEFINE h == [T \in SUBSET D |-> base]
  <2>1. h \in [SUBSET D -> V] OBVIOUS
  <2>2. \A T \in SUBSET D : Cardinality(T) <= 0 => T = {} BY <1>1, FS_EmptySet
  <2>3. Upto(h, 0) BY <2>2
  <2> QED BY <2>1, <2>3
<1>4. ASSUME NEW n \in Nat, n \in N PROVE n + 1 \in N
  <2>1. PICK h \in [SUBSET D -> V] : Upto(h, n) BY <1>4
  <2> DEFINE g == [T \in SUBSET D |-> IF Cardinality(T) <= n THEN h[T] ELSE E(h, T)]
  <2>2. g \in [SUBSET D -> V] BY <1>2
  <2>3. ASSUME NEW T \in SUBSET D, Cardinality(T) <= n + 1 PROVE g[T] = E(g, T)
    <3>1. g[T] = E(h, T) BY <2>1
    <3>2. CASE T = {} BY <3>1, <3>2
    <3>3. CASE T # {}
      <4> DEFINE U == T \ {pick[T]}
      <4>1. U \in SUBSET D /\ Cardinality(U) = Cardinality(T) - 1
        BY <1>1, <3>3, FS_RemoveElement
      <4>2. Cardinality(U) <= n BY <1>1, <2>3, <4>1
      <4>3. g[U] = h[U] BY <4>1, <4>2
      <4> QED BY <3>1, <3>3, <4>3
    <3> QED BY <3>2, <3>3
  <2> HIDE DEF g
  <2>4. Upto(g, n + 1) BY <2>3
  <2> HIDE DEF Upto
  <2>5. \E f \in [SUBSET D -> V] : Upto(f, n + 1) BY Zenon, <2>2, <2>4
  <2> QED BY <2>5
<1>5. Cardinality(D) \in N
  <2>1. Cardinality(D) \in Nat BY FS_CardinalityType
  <2> HIDE DEF N
  <2>2. Nat \subseteq N BY <1>3, <1>4, AllNumbers
  <2> QED BY <2>1, <2>2
<1>6. PICK h \in [SUBSET D -> V] : Upto(h, Cardinality(D)) BY <1>5
<1>7. \A T \in SUBSET D : Cardinality(T) <= Cardinality(D) BY FS_Subset
<1>8. \A T \in SUBSET D : h[T] = E(h, T) BY <1>6, <1>7
<1>9. IsFold(h, D, base, pick, step) BY <1>8 DEF IsFold
<1> QED BY <1>9

LEMMA GreatestOf ==
  ASSUME NEW n \in Nat, NEW T \in SUBSET (1..n), T # {}
  PROVE  Max(T) \in T /\ \A t \in T : t <= Max(T)
<1> DEFINE U == {n - t : t \in T}
<1>1. U \in SUBSET Nat /\ U # {}
  <2>1. \A t \in T : t \in 1..n OBVIOUS
  <2>2. \A t \in T : n - t \in Nat BY <2>1
  <2> QED BY <2>2
<1> HIDE DEF U
<1>2. PICK u \in U : \A v \in U : u <= v BY <1>1, Least
<1>3. PICK t \in T : u = n - t BY DEF U
<1>4. \A v \in T : n - t <= n - v BY <1>2, <1>3 DEF U
<1>5. \A v \in T : t >= v BY <1>4
<1> QED BY <1>5 DEF Max

\* A fold over a list: one step per element, first to last.
IsListFold(h, n, base, step) ==
  h = [T \in SUBSET (1..n) |-> IF T = {} THEN base ELSE step[<<Max(T), h[T \ {Max(T)}]>>]]

LEMMA FoldingList ==
  ASSUME NEW n \in Nat, NEW V, NEW base \in V, NEW step \in [(1..n) \X V -> V]
  PROVE  \E h \in [SUBSET (1..n) -> V] : IsListFold(h, n, base, step)
<1>1. IsFiniteSet(1..n) BY FS_Interval
<1>2. \A T \in SUBSET (1..n) : T # {} => Max(T) \in T BY GreatestOf
<1> DEFINE pick == [T \in SUBSET (1..n) |-> Max(T)]
<1>3. \A T \in SUBSET (1..n) : pick[T] = Max(T) OBVIOUS
<1>4. \A T \in SUBSET (1..n) : T # {} => pick[T] \in T BY <1>2
<1> HIDE DEF pick
<1>5. \E h \in [SUBSET (1..n) -> V] :
        h = [T \in SUBSET (1..n) |-> IF T = {} THEN base ELSE step[<<pick[T], h[T \ {pick[T]}]>>]]
  <2> DEFINE D == 1..n
  <2>1. IsFiniteSet(D) /\ (\A T \in SUBSET D : T # {} => pick[T] \in T) /\ step \in [D \X V -> V]
    BY <1>1, <1>4
  <2> HIDE DEF D
  <2>2. \E h \in [SUBSET D -> V] : IsFold(h, D, base, pick, step)
    BY <2>1, Folding
  <2> QED BY <2>2 DEF D, IsFold
<1> QED BY <1>3, <1>5 DEF IsListFold

\* The sum of a list is reached by adding one element after the other.
Sum(s) == FoldLeft(LAMBDA a, b : a + b, 0, s)

LEMMA Summing ==
  ASSUME NEW n \in Nat, NEW s, DOMAIN s = 1..n, \A k \in 1..n : s[k] \in Int
  PROVE  \E P \in [0..n -> Int] : /\ P[0] = 0 /\ \A k \in 1..n : P[k] = P[k - 1] + s[k]
                                  /\ Sum(s) = P[n]
<1> DEFINE step == [x \in (1..n) \X Int |-> x[2] + s[x[1]]]
<1>1. step \in [(1..n) \X Int -> Int] OBVIOUS
<1>2. PICK h \in [SUBSET (1..n) -> Int] : IsListFold(h, n, 0, step)
  <2> HIDE DEF step
  <2>1. 0 \in Int OBVIOUS
  <2> QED BY Zenon, <1>1, <2>1, FoldingList
<1>3. h = [T \in SUBSET (1..n) |-> IF T = {} THEN 0 ELSE h[T \ {Max(T)}] + s[Max(T)]]
  <2>1. ASSUME NEW T \in SUBSET (1..n), T # {}
        PROVE  step[<<Max(T), h[T \ {Max(T)}]>>] = h[T \ {Max(T)}] + s[Max(T)]
    <3>1. Max(T) \in 1..n /\ h[T \ {Max(T)}] \in Int BY <1>2, <2>1, GreatestOf
    <3> QED BY <3>1
  <2> DEFINE e(T) == IF T = {} THEN 0 ELSE step[<<Max(T), h[T \ {Max(T)}]>>]
             f(T) == IF T = {} THEN 0 ELSE h[T \ {Max(T)}] + s[Max(T)]
  <2> HIDE DEF step
  <2>2. \A T \in SUBSET (1..n) : e(T) = f(T) BY <2>1
  <2>3. h = [T \in SUBSET (1..n) |-> e(T)] BY <1>2 DEF IsListFold
  <2> HIDE DEF e, f
  <2>4. h = [T \in SUBSET (1..n) |-> f(T)] BY <2>2, <2>3
  <2> QED BY <2>4 DEF f
<1> HIDE DEF step
<1> DEFINE iter == CHOOSE g :
             g = [T \in SUBSET (1..n) |-> IF T = {} THEN 0 ELSE g[T \ {Max(T)}] + s[Max(T)]]
<1>4. iter = [T \in SUBSET (1..n) |-> IF T = {} THEN 0 ELSE iter[T \ {Max(T)}] + s[Max(T)]]
  BY <1>3
<1>5. Sum(s) = iter[1..n] BY Zenon DEF Sum, FoldLeft, MapThenFoldSet
<1> HIDE DEF iter
<1> DEFINE P == [k \in 0..n |-> iter[1..k]]
<1>6. P[0] = 0 BY <1>4
<1>7. ASSUME NEW k \in 1..n PROVE P[k] = P[k - 1] + s[k]
  <2>1. 1..k \in SUBSET (1..n) /\ 1..k # {} OBVIOUS
  <2>2. iter[1..k] = iter[(1..k) \ {Max(1..k)}] + s[Max(1..k)] BY <1>4, <2>1
  <2>3. Max(1..k) = k /\ (1..k) \ {Max(1..k)} = 1..(k - 1) BY Greatest
  <2>4. iter[1..k] = iter[1..(k - 1)] + s[k] BY <2>2, <2>3
  <2>5. k \in 0..n /\ k - 1 \in 0..n OBVIOUS
  <2> QED BY <2>4, <2>5
<1>8. P = [k \in 0..n |-> P[k]] /\ Sum(s) = P[n] BY <1>5
<1> HIDE DEF P
<1> DEFINE N == {k \in Nat : k <= n => P[k] \in Int}
<1>9. 0 \in N BY <1>6
<1>10. ASSUME NEW k \in Nat, k \in N PROVE k + 1 \in N
  <2>1. ASSUME k + 1 <= n PROVE P[k + 1] \in Int
    <3>1. k + 1 \in 1..n /\ (k + 1) - 1 = k /\ P[k] \in Int BY <1>10, <2>1
    <3> QED BY <1>7, <3>1
  <2> QED BY <2>1
<1> HIDE DEF N
<1>11. Nat \subseteq N BY <1>9, <1>10, AllNumbers
<1>12. \A k \in 0..n : P[k] \in Int BY <1>11 DEF N
<1>13. P \in [0..n -> Int] BY <1>8, <1>12
<1> QED BY <1>6, <1>7, <1>8, <1>13

-----------------------------------------------------------------------------
(* Sorted lists, of a set by a strict total order R.                        *)
StrictOrder(R, S) ==
  /\ \A x \in S : <<x, x>> \notin R
  /\ \A x, y \in S : x # y => <<x, y>> \in R \/ <<y, x>> \in R
  /\ \A x, y, z \in S : <<x, y>> \in R /\ <<y, z>> \in R => <<x, z>> \in R
SortedBy(L, S, R) ==
  L = [k \in 1..Cardinality(S) |-> CHOOSE x \in S : Cardinality({y \in S : <<y, x>> \in R}) = k - 1]

LEMMA SortedList ==
  ASSUME NEW S, IsFiniteSet(S), NEW R, StrictOrder(R, S), NEW L, SortedBy(L, S, R)
  PROVE  /\ Cardinality(S) \in Nat /\ L \in [1..Cardinality(S) -> S]
         /\ \A i, j \in 1..Cardinality(S) : i < j => <<L[i], L[j]>> \in R
         /\ \A i, j \in 1..Cardinality(S) : i # j => L[i] # L[j]
         /\ \A x \in S : \E k \in 1..Cardinality(S) : L[k] = x
<1> DEFINE n == Cardinality(S)
           ahead(x) == {y \in S : <<y, x>> \in R}
<1>1. n \in Nat BY FS_CardinalityType
<1>2. ASSUME NEW x \in S PROVE IsFiniteSet(ahead(x)) /\ Cardinality(ahead(x)) \in 0..(n - 1)
  <2> DEFINE rest == S \ {x}
             a == ahead(x)
  <2>1. IsFiniteSet(rest) /\ Cardinality(rest) = n - 1 BY FS_RemoveElement
  <2>2. a \in SUBSET rest BY DEF StrictOrder
  <2> HIDE DEF rest, a
  <2>3. IsFiniteSet(a) /\ Cardinality(a) <= Cardinality(rest) BY <2>1, <2>2, FS_Subset
  <2>4. Cardinality(a) \in Nat BY <2>3, FS_CardinalityType
  <2> HIDE DEF n
  <2>5. Cardinality(a) \in 0..(n - 1) BY <1>1, <2>1, <2>3, <2>4
  <2> QED BY <2>3, <2>5 DEF a
<1>3. ASSUME NEW x \in S, NEW y \in S, <<x, y>> \in R
      PROVE  Cardinality(ahead(x)) < Cardinality(ahead(y))
  <2> DEFINE a == ahead(x)
             b == ahead(y)
  <2>1. x \in b /\ x \notin a BY <1>3 DEF StrictOrder
  <2>2. a \subseteq b BY <1>3 DEF StrictOrder
  <2>3. /\ IsFiniteSet(a) /\ IsFiniteSet(b)
        /\ Cardinality(a) \in 0..(n - 1) /\ Cardinality(b) \in 0..(n - 1)
    BY <1>2
  <2> HIDE DEF a, b, n
  <2>4. Cardinality(a) <= Cardinality(b) /\ Cardinality(a) # Cardinality(b)
    BY <2>1, <2>2, <2>3, FS_Subset
  <2>5. Cardinality(a) < Cardinality(b) BY <1>1, <2>3, <2>4
  <2> QED BY <2>5 DEF a, b
<1> DEFINE place(x) == Cardinality(ahead(x)) + 1
<1>4. \A x \in S : place(x) \in 1..n
  <2> SUFFICES ASSUME NEW x \in S PROVE place(x) \in 1..n
    OBVIOUS
  <2>1. Cardinality(ahead(x)) \in 0..(n - 1) BY <1>2
  <2> HIDE DEF n, ahead
  <2> QED BY <1>1, <2>1
<1>5. \A x, y \in S : <<x, y>> \in R => place(x) < place(y)
  <2> SUFFICES ASSUME NEW x \in S, NEW y \in S, <<x, y>> \in R PROVE place(x) < place(y)
    OBVIOUS
  <2>1. Cardinality(ahead(x)) \in 0..(n - 1) /\ Cardinality(ahead(y)) \in 0..(n - 1) BY <1>2
  <2>2. Cardinality(ahead(x)) < Cardinality(ahead(y)) BY <1>3
  <2> HIDE DEF n, ahead
  <2> QED BY <1>1, <2>1, <2>2
<1>6. \A x \in S, k \in Int : Cardinality({y \in S : <<y, x>> \in R}) = k - 1 <=> place(x) = k
  <2> SUFFICES ASSUME NEW x \in S, NEW k \in Int
               PROVE  Cardinality(ahead(x)) = k - 1 <=> place(x) = k
    OBVIOUS
  <2>1. Cardinality(ahead(x)) \in 0..(n - 1) BY <1>2
  <2> HIDE DEF n, ahead
  <2> QED BY <1>1, <2>1
<1> DEFINE p == [x \in S |-> place(x)]
<1>7. /\ p \in [S -> 1..n]
      /\ \A x, y \in S : <<x, y>> \in R => p[x] < p[y]
      /\ \A x \in S, k \in Int : Cardinality({y \in S : <<y, x>> \in R}) = k - 1 <=> p[x] = k
  BY <1>4, <1>5, <1>6
<1> HIDE DEF n, place, ahead, p
<1>8. \A x, y \in S : x # y => p[x] < p[y] \/ p[y] < p[x] BY <1>7 DEF StrictOrder
<1>9. \A x, y \in S : p[x] = p[y] => x = y BY <1>1, <1>7, <1>8
<1>10. \A x, y \in S : p[x] < p[y] => <<x, y>> \in R
  <2> SUFFICES ASSUME NEW x \in S, NEW y \in S, p[x] < p[y] PROVE <<x, y>> \in R
    OBVIOUS
  <2>1. p[x] \in 1..n /\ p[y] \in 1..n BY <1>7
  <2>2. ~(<<y, x>> \in R) BY <1>1, <1>7, <2>1
  <2>3. x # y BY <1>1, <2>1
  <2> QED BY <2>2, <2>3 DEF StrictOrder
<1>11. ASSUME NEW k \in 1..n PROVE \E x \in S : p[x] = k
  <2>1. p \in Injection(S, 1..n) BY <1>7, <1>9 DEF Injection, IsInjective
  <2>2. IsFiniteSet(1..n) /\ Cardinality(1..n) = n
    <3>1. IsFiniteSet(1..n) /\ Cardinality(1..n) = IF 1 > n THEN 0 ELSE n - 1 + 1 BY <1>1, FS_Interval
    <3> QED BY <1>1, <3>1
  <2>3. Cardinality(S) = Cardinality(1..n) BY <2>2 DEF n
  <2>4. p \in Surjection(S, 1..n) BY <2>1, <2>2, <2>3, FS_Injection
  <2> QED BY <2>4 DEF Surjection
<1>12. \A k \in 1..n : L[k] \in S /\ p[L[k]] = k
  <2> SUFFICES ASSUME NEW k \in 1..n PROVE L[k] \in S /\ p[L[k]] = k
    OBVIOUS
  <2>1. L[k] = CHOOSE x \in S : Cardinality({y \in S : <<y, x>> \in R}) = k - 1 BY DEF n, SortedBy
  <2>2. k \in Int BY <1>1
  <2>3. \E x \in S : Cardinality({y \in S : <<y, x>> \in R}) = k - 1 BY <1>7, <1>11, <2>2
  <2>4. L[k] \in S /\ Cardinality({y \in S : <<y, L[k]>> \in R}) = k - 1 BY <2>1, <2>3
  <2> QED BY <1>7, <2>2, <2>4
<1>13. L \in [1..n -> S]
  <2> DEFINE e(k) == CHOOSE x \in S : Cardinality({y \in S : <<y, x>> \in R}) = k - 1
  <2>1. L = [k \in 1..n |-> e(k)] BY Zenon DEF n, SortedBy
  <2> HIDE DEF e
  <2>2. L = [k \in 1..n |-> L[k]] BY <2>1
  <2> QED BY <1>12, <2>2
<1>15. \A i, j \in 1..n : i < j => <<L[i], L[j]>> \in R BY <1>10, <1>12
<1>16. \A i, j \in 1..n : i # j => L[i] # L[j] BY <1>12
<1>17. \A x \in S : \E k \in 1..n : L[k] = x
  <2> SUFFICES ASSUME NEW x \in S PROVE \E k \in 1..n : L[k] = x
    OBVIOUS
  <2>1. p[x] \in 1..n BY <1>7
  <2>2. L[p[x]] \in S /\ p[L[p[x]]] = p[x] BY <1>12, <2>1
  <2>3. L[p[x]] = x BY <1>9, <2>2
  <2> QED BY <2>1, <2>3
<1> QED BY <1>1, <1>13, <1>15, <1>16, <1>17 DEF n

\* A finite set that is not empty has a first under a strict order.
LEMMA FirstOf ==
  ASSUME NEW S, IsFiniteSet(S), S # {}, NEW R, StrictOrder(R, S)
  PROVE  \E x \in S : \A y \in S \ {x} : <<x, y>> \in R
<1> DEFINE L == [k \in 1..Cardinality(S) |->
                  CHOOSE x \in S : Cardinality({y \in S : <<y, x>> \in R}) = k - 1]
<1>1. SortedBy(L, S, R) BY DEF SortedBy
<1> HIDE DEF L
<1>2. /\ Cardinality(S) \in Nat /\ L \in [1..Cardinality(S) -> S]
      /\ \A i, j \in 1..Cardinality(S) : i < j => <<L[i], L[j]>> \in R
      /\ \A x \in S : \E k \in 1..Cardinality(S) : L[k] = x
  BY <1>1, SortedList
<1>3. Cardinality(S) # 0 BY FS_EmptySet
<1> DEFINE n == Cardinality(S)
<1> HIDE DEF n
<1>4. 1 \in 1..n BY <1>2, <1>3 DEF n
<1>5. L[1] \in S BY <1>2, <1>4 DEF n
<1>6. ASSUME NEW y \in S \ {L[1]} PROVE <<L[1], y>> \in R
  <2>1. PICK k \in 1..n : L[k] = y BY <1>2 DEF n
  <2>2. k # 1 BY <2>1
  <2>3. 1 < k BY <2>1, <2>2
  <2> QED BY <1>2, <1>4, <2>1, <2>3 DEF n
<1> QED BY <1>5, <1>6

\* Ordered by one number, then by a second, then by a third that is nobody else's.
LexOrder(S, a, b, c) ==
  {p \in S \X S : \/ a[p[1]] < a[p[2]]
                  \/ a[p[1]] = a[p[2]] /\ b[p[1]] < b[p[2]]
                  \/ a[p[1]] = a[p[2]] /\ b[p[1]] = b[p[2]] /\ c[p[1]] < c[p[2]]}

LEMMA Lexicographic ==
  ASSUME NEW S, NEW a \in [S -> Int], NEW b \in [S -> Int], NEW c \in [S -> Int],
         \A x, y \in S : c[x] = c[y] => x = y
  PROVE  StrictOrder(LexOrder(S, a, b, c), S)
<1> DEFINE R == LexOrder(S, a, b, c)
<1>1. \A x \in S : a[x] \in Int /\ b[x] \in Int /\ c[x] \in Int OBVIOUS
<1>2. ASSUME NEW x \in S, NEW y \in S
      PROVE  <<x, y>> \in R <=> \/ a[x] < a[y]
                                \/ a[x] = a[y] /\ b[x] < b[y]
                                \/ a[x] = a[y] /\ b[x] = b[y] /\ c[x] < c[y]
  BY DEF LexOrder
<1> HIDE DEF R
<1>3. \A x \in S : <<x, x>> \notin R BY <1>1, <1>2
<1>4. ASSUME NEW x \in S, NEW y \in S, x # y PROVE <<x, y>> \in R \/ <<y, x>> \in R
  <2>1. c[x] # c[y] BY <1>4
  <2> QED BY <1>1, <1>2, <2>1
<1>5. ASSUME NEW x \in S, NEW y \in S, NEW z \in S, <<x, y>> \in R, <<y, z>> \in R
      PROVE  <<x, z>> \in R
  BY <1>1, <1>2, <1>5
<1> QED BY <1>3, <1>4, <1>5 DEF StrictOrder, R

-----------------------------------------------------------------------------
(* Sums over finite sets of keys, in whatever order they are taken.         *)

\* What holds of no element and of one more element holds of a finite set.
LEMMA BuiltUp ==
  ASSUME NEW D, IsFiniteSet(D), NEW G, {} \in G,
         \A T \in SUBSET D : \A x \in D \ T : T \in G => T \cup {x} \in G
  PROVE  \A T \in SUBSET D : T \in G
<1> DEFINE N == {n \in Nat : \A T \in SUBSET D : Cardinality(T) = n => T \in G}
<1>1. \A T \in SUBSET D : IsFiniteSet(T) /\ Cardinality(T) \in Nat BY FS_Subset, FS_CardinalityType
<1>2. 0 \in N
  <2>1. \A T \in SUBSET D : Cardinality(T) = 0 => T = {} BY <1>1, FS_EmptySet
  <2> QED BY <2>1
<1>3. ASSUME NEW n \in Nat, n \in N PROVE n + 1 \in N
  <2> SUFFICES ASSUME NEW T \in SUBSET D, Cardinality(T) = n + 1 PROVE T \in G
    OBVIOUS
  <2>1. T # {}
    <3> HIDE DEF N
    <3>1. Cardinality({}) = 0 BY FS_EmptySet
    <3>2. Cardinality(T) # 0 OBVIOUS
    <3> QED BY Zenon, <3>1, <3>2
  <2>0. \A U \in SUBSET D : Cardinality(U) = n => U \in G BY <1>3
  <2> HIDE DEF N
  <2>2. PICK x \in T : TRUE BY <2>1
  <2> DEFINE U == T \ {x}
  <2>3. U \in SUBSET D /\ x \in D \ U /\ T = U \cup {x} BY <2>2
  <2>4. Cardinality(U) = n
    <3>1. IsFiniteSet(T) BY <1>1
    <3>2. Cardinality(U) = Cardinality(T) - 1 BY <2>2, <3>1, FS_RemoveElement
    <3> QED BY <3>2
  <2> HIDE DEF U
  <2>5. U \in G BY <2>0, <2>3, <2>4
  <2> QED BY <2>3, <2>5
<1> HIDE DEF N
<1>4. Nat \subseteq N BY <1>2, <1>3, AllNumbers
<1> QED BY <1>1, <1>4 DEF N

\* The sum over a finite set, as the function that the fold applies.
IsSum(h, S, v) ==
  h = [T \in SUBSET S |->
        IF T = {} THEN 0 ELSE h[T \ {CHOOSE x \in T : TRUE}] + v[CHOOSE x \in T : TRUE]]

LEMMA SumExists ==
  ASSUME NEW S, IsFiniteSet(S), NEW v, \A x \in S : v[x] \in Int
  PROVE  \E h \in [SUBSET S -> Int] : IsSum(h, S, v) /\ SumOver(S, v) = h[S]
<1> DEFINE pick == [T \in SUBSET S |-> CHOOSE x \in T : TRUE]
           step == [x \in S \X Int |-> x[2] + v[x[1]]]
<1>1. \A T \in SUBSET S : T # {} => pick[T] \in T OBVIOUS
<1>2. step \in [S \X Int -> Int] OBVIOUS
<1> HIDE DEF pick
<1>3. PICK h \in [SUBSET S -> Int] : IsFold(h, S, 0, pick, step)
  <2> HIDE DEF step
  <2>1. 0 \in Int OBVIOUS
  <2> QED BY <1>1, <1>2, <2>1, Folding
<1>4. \E g : IsSum(g, S, v)
  <2>1. ASSUME NEW T \in SUBSET S, T # {}
        PROVE  step[<<pick[T], h[T \ {pick[T]}]>>]
                 = h[T \ {CHOOSE x \in T : TRUE}] + v[CHOOSE x \in T : TRUE]
    <3>1. pick[T] \in S /\ h[T \ {pick[T]}] \in Int BY <1>1, <1>3, <2>1
    <3>2. pick[T] = CHOOSE x \in T : TRUE BY DEF pick
    <3> QED BY <3>1, <3>2
  <2> HIDE DEF step
  <2>2. IsSum(h, S, v) BY <1>3, <2>1 DEF IsFold, IsSum
  <2> QED BY <2>2
<1> DEFINE iter == CHOOSE g :
             g = [T \in SUBSET S |->
                   IF T = {} THEN 0 ELSE g[T \ {CHOOSE x \in T : TRUE}] + v[CHOOSE x \in T : TRUE]]
<1>5. IsSum(iter, S, v) BY <1>4 DEF IsSum
<1>6. SumOver(S, v) = iter[S] BY Zenon DEF SumOver, FoldSet, MapThenFoldSet
<1> HIDE DEF iter
<1> DEFINE N == {n \in Nat : \A T \in SUBSET S : Cardinality(T) = n => iter[T] \in Int}
<1>7. \A T \in SUBSET S : IsFiniteSet(T) /\ Cardinality(T) \in Nat BY FS_Subset, FS_CardinalityType
<1>8. 0 \in N
  <2> SUFFICES ASSUME NEW T \in SUBSET S, Cardinality(T) = 0 PROVE iter[T] \in Int
    OBVIOUS
  <2> HIDE DEF N
  <2>1. T = {} BY <1>7, FS_EmptySet
  <2>2. iter[{}] = 0 BY <1>5 DEF IsSum
  <2> QED BY <2>1, <2>2
<1>9. ASSUME NEW n \in Nat, n \in N PROVE n + 1 \in N
  <2> SUFFICES ASSUME NEW T \in SUBSET S, Cardinality(T) = n + 1 PROVE iter[T] \in Int
    OBVIOUS
  <2>1. T # {}
    <3> HIDE DEF N
    <3>1. Cardinality({}) = 0 BY FS_EmptySet
    <3>2. Cardinality(T) # 0 OBVIOUS
    <3> QED BY Zenon, <3>1, <3>2
  <2>0. \A U \in SUBSET S : Cardinality(U) = n => iter[U] \in Int BY <1>9
  <2> HIDE DEF N
  <2> DEFINE x == CHOOSE x \in T : TRUE
  <2>2. x \in T BY <2>1
  <2>3. iter[T] = iter[T \ {x}] + v[x] BY <1>5, <2>1 DEF IsSum
  <2> HIDE DEF x
  <2>4. Cardinality(T \ {x}) = n
    <3>1. IsFiniteSet(T) BY <1>7
    <3>2. Cardinality(T \ {x}) = Cardinality(T) - 1 BY <2>2, <3>1, FS_RemoveElement
    <3> QED BY <3>2
  <2>5. iter[T \ {x}] \in Int BY <2>0, <2>4
  <2> QED BY <2>2, <2>3, <2>5
<1> HIDE DEF N
<1>10. Nat \subseteq N BY <1>8, <1>9, AllNumbers
<1>11. \A T \in SUBSET S : iter[T] \in Int BY <1>7, <1>10 DEF N
<1>12. iter \in [SUBSET S -> Int]
  <2>1. iter = [T \in SUBSET S |->
                 IF T = {} THEN 0 ELSE iter[T \ {CHOOSE x \in T : TRUE}] + v[CHOOSE x \in T : TRUE]]
    BY <1>5 DEF IsSum
  <2> DEFINE e(T) == IF T = {} THEN 0 ELSE iter[T \ {CHOOSE x \in T : TRUE}] + v[CHOOSE x \in T : TRUE]
  <2>2. iter = [T \in SUBSET S |-> e(T)] BY <2>1
  <2> HIDE DEF e
  <2>3. iter = [T \in SUBSET S |-> iter[T]] BY <2>2
  <2> QED BY <1>11, <2>3
<1> QED BY <1>5, <1>6, <1>12

\* The functions of two sets agree where both are defined.
LEMMA SumsAgree ==
  ASSUME NEW S, IsFiniteSet(S), NEW R \in SUBSET S, NEW v, NEW w, \A x \in R : v[x] = w[x],
         NEW h, IsSum(h, S, v), NEW g, IsSum(g, R, w)
  PROVE  \A T \in SUBSET R : h[T] = g[T]
<1> DEFINE N == {n \in Nat : \A T \in SUBSET R : Cardinality(T) = n => h[T] = g[T]}
<1>1. \A T \in SUBSET R : T \in SUBSET S /\ IsFiniteSet(T) /\ Cardinality(T) \in Nat
  BY FS_Subset, FS_CardinalityType
<1>2. 0 \in N
  <2> SUFFICES ASSUME NEW T \in SUBSET R, Cardinality(T) = 0 PROVE h[T] = g[T]
    OBVIOUS
  <2> HIDE DEF N
  <2>1. T = {} BY <1>1, FS_EmptySet
  <2> QED BY <2>1 DEF IsSum
<1>3. ASSUME NEW n \in Nat, n \in N PROVE n + 1 \in N
  <2> SUFFICES ASSUME NEW T \in SUBSET R, Cardinality(T) = n + 1 PROVE h[T] = g[T]
    OBVIOUS
  <2>1. T # {}
    <3> HIDE DEF N
    <3>1. Cardinality({}) = 0 BY FS_EmptySet
    <3>2. Cardinality(T) # 0 OBVIOUS
    <3> QED BY Zenon, <3>1, <3>2
  <2>2. \A U \in SUBSET R : Cardinality(U) = n => h[U] = g[U] BY <1>3
  <2> HIDE DEF N
  <2> DEFINE x == CHOOSE x \in T : TRUE
  <2>3. x \in T BY <2>1
  <2>4. h[T] = h[T \ {x}] + v[x] /\ g[T] = g[T \ {x}] + w[x] BY <1>1, <2>1 DEF IsSum
  <2> HIDE DEF x
  <2>5. Cardinality(T \ {x}) = n
    <3>1. IsFiniteSet(T) BY <1>1
    <3>2. Cardinality(T \ {x}) = Cardinality(T) - 1 BY <2>3, <3>1, FS_RemoveElement
    <3> QED BY <3>2
  <2>6. h[T \ {x}] = g[T \ {x}] BY <2>2, <2>5
  <2>7. v[x] = w[x] BY <2>3
  <2> QED BY <2>4, <2>6, <2>7
<1> HIDE DEF N
<1>4. Nat \subseteq N BY <1>2, <1>3, AllNumbers
<1> QED BY <1>1, <1>4 DEF N

\* Sums of equal values are equal.
LEMMA SameSum ==
  ASSUME NEW S, IsFiniteSet(S), NEW v, NEW w, \A x \in S : v[x] \in Int /\ v[x] = w[x]
  PROVE  SumOver(S, v) = SumOver(S, w)
<1>1. PICK h \in [SUBSET S -> Int] : IsSum(h, S, v) /\ SumOver(S, v) = h[S] BY SumExists
<1>2. PICK g \in [SUBSET S -> Int] : IsSum(g, S, w) /\ SumOver(S, w) = g[S]
  <2>1. \A x \in S : w[x] \in Int OBVIOUS
  <2> QED BY <2>1, SumExists
<1>3. S \in SUBSET S OBVIOUS
<1>4. \A T \in SUBSET S : h[T] = g[T]
  <2>1. IsSum(h, S, v) /\ IsSum(g, S, w) BY <1>1, <1>2
  <2>2. \A x \in S : v[x] = w[x] OBVIOUS
  <2> QED BY <1>3, <2>1, <2>2, SumsAgree
<1> QED BY <1>1, <1>2, <1>3, <1>4

\* A sum of numbers is a number, and any key may be the last that is added.
LEMMA SumByKey ==
  ASSUME NEW S, IsFiniteSet(S), NEW v, \A x \in S : v[x] \in Int
  PROVE  /\ SumOver(S, v) \in Int
         /\ S = {} => SumOver(S, v) = 0
         /\ \A x \in S : SumOver(S, v) = SumOver(S \ {x}, v) + v[x]
<1>1. PICK h \in [SUBSET S -> Int] : IsSum(h, S, v) /\ SumOver(S, v) = h[S] BY SumExists
<1>2. \A T \in SUBSET S : IsFiniteSet(T) /\ Cardinality(T) \in Nat BY FS_Subset, FS_CardinalityType
<1>3. ASSUME NEW T \in SUBSET S PROVE SumOver(T, v) = h[T]
  <2>1. PICK g \in [SUBSET T -> Int] : IsSum(g, T, v) /\ SumOver(T, v) = g[T] BY <1>2, SumExists
  <2>2. \A x \in T : v[x] = v[x] OBVIOUS
  <2>3. IsSum(h, S, v) /\ IsSum(g, T, v) BY <1>1, <2>1
  <2>4. \A U \in SUBSET T : h[U] = g[U] BY <2>2, <2>3, SumsAgree
  <2>5. T \in SUBSET T OBVIOUS
  <2> QED BY <2>1, <2>4, <2>5
<1> DEFINE AnyLast(T) == \A x \in T : h[T] = h[T \ {x}] + v[x]
           N == {n \in Nat : \A T \in SUBSET S : Cardinality(T) = n => AnyLast(T)}
<1>4. 0 \in N
  <2> SUFFICES ASSUME NEW T \in SUBSET S, Cardinality(T) = 0 PROVE AnyLast(T)
    OBVIOUS
  <2> HIDE DEF N
  <2>1. T = {} BY <1>2, FS_EmptySet
  <2> QED BY <2>1
<1>5. ASSUME NEW n \in Nat, n \in N PROVE n + 1 \in N
  <2> SUFFICES ASSUME NEW T \in SUBSET S, Cardinality(T) = n + 1, NEW x \in T
               PROVE  h[T] = h[T \ {x}] + v[x]
    OBVIOUS
  <2>1. \A U \in SUBSET S : Cardinality(U) = n => AnyLast(U) BY <1>5
  <2> HIDE DEF N, AnyLast
  <2> DEFINE p == CHOOSE y \in T : TRUE
  <2>2. p \in T OBVIOUS
  <2>3. h[T] = h[T \ {p}] + v[p] BY <1>1 DEF IsSum
  <2> HIDE DEF p
  <2>4. CASE x = p BY <2>3, <2>4
  <2>5. CASE x # p
    <3> DEFINE A == T \ {p}
               B == T \ {x}
               C == T \ {p, x}
    <3>1. Cardinality(A) = n /\ Cardinality(B) = n
      <4>1. IsFiniteSet(T) BY <1>2
      <4>2. Cardinality(A) = Cardinality(T) - 1 BY <2>2, <4>1, FS_RemoveElement
      <4>3. Cardinality(B) = Cardinality(T) - 1 BY <4>1, FS_RemoveElement
      <4> QED BY <4>2, <4>3
    <3>2. A \in SUBSET S /\ B \in SUBSET S /\ C \in SUBSET S OBVIOUS
    <3>3. x \in A /\ p \in B /\ A \ {x} = C /\ B \ {p} = C BY <2>2, <2>5
    <3>4. h[A] = h[C] + v[x] /\ h[B] = h[C] + v[p] BY <2>1, <3>1, <3>2, <3>3 DEF AnyLast
    <3>5. h[C] \in Int /\ v[x] \in Int /\ v[p] \in Int BY <1>1, <2>2, <3>2
    <3> QED BY <2>3, <3>4, <3>5
  <2> QED BY <2>4, <2>5
<1> HIDE DEF N, AnyLast
<1>6. Nat \subseteq N BY <1>4, <1>5, AllNumbers
<1>7. AnyLast(S) BY <1>2, <1>6 DEF N
<1>8. S = {} => h[S] = 0 BY <1>1 DEF IsSum
<1>9. S \in SUBSET S /\ \A x \in S : S \ {x} \in SUBSET S OBVIOUS
<1> QED BY <1>1, <1>3, <1>7, <1>8, <1>9 DEF AnyLast

\* One more key.
LEMMA SumGrows ==
  ASSUME NEW S, IsFiniteSet(S), NEW v, NEW x, x \notin S, \A y \in S \cup {x} : v[y] \in Int
  PROVE  SumOver(S \cup {x}, v) = SumOver(S, v) + v[x]
<1> DEFINE T == S \cup {x}
<1>1. IsFiniteSet(T) BY FS_AddElement
<1>2. x \in T /\ T \ {x} = S /\ \A y \in T : v[y] \in Int OBVIOUS
<1> HIDE DEF T
<1>3. SumOver(T, v) = SumOver(T \ {x}, v) + v[x] BY <1>1, <1>2, SumByKey
<1> QED BY <1>2, <1>3 DEF T

\* The sums over the parts of a set, one key more at a time.
LEMMA SumOfParts ==
  ASSUME NEW D, IsFiniteSet(D), NEW v, \A x \in D : v[x] \in Int
  PROVE  /\ SumOver({}, v) = 0
         /\ \A T \in SUBSET D : IsFiniteSet(T) /\ SumOver(T, v) \in Int
         /\ \A T \in SUBSET D : \A x \in D \ T : SumOver(T \cup {x}, v) = SumOver(T, v) + v[x]
<1>1. SumOver({}, v) = 0 BY FS_EmptySet, SumByKey
<1>2. \A T \in SUBSET D : IsFiniteSet(T) BY FS_Subset
<1>3. ASSUME NEW T \in SUBSET D PROVE SumOver(T, v) \in Int
  <2>1. IsFiniteSet(T) /\ \A x \in T : v[x] \in Int BY <1>2
  <2> QED BY <2>1, SumByKey
<1>4. ASSUME NEW T \in SUBSET D, NEW x \in D \ T
      PROVE  SumOver(T \cup {x}, v) = SumOver(T, v) + v[x]
  <2>1. IsFiniteSet(T) BY <1>2
  <2>2. x \notin T OBVIOUS
  <2>3. \A y \in T \cup {x} : v[y] \in Int OBVIOUS
  <2> QED BY Zenon, <2>1, <2>2, <2>3, SumGrows
<1> QED BY <1>1, <1>2, <1>3, <1>4

\* The sum of the sums is the sum of them.
LEMMA SumAdds ==
  ASSUME NEW D, IsFiniteSet(D), NEW u, NEW v, NEW w,
         \A x \in D : v[x] \in Int /\ w[x] \in Int /\ u[x] = v[x] + w[x]
  PROVE  SumOver(D, u) = SumOver(D, v) + SumOver(D, w)
<1> DEFINE G == {T \in SUBSET D : SumOver(T, u) = SumOver(T, v) + SumOver(T, w)}
<1> DEFINE Parts(a) ==
             /\ SumOver({}, a) = 0
             /\ \A T \in SUBSET D : IsFiniteSet(T) /\ SumOver(T, a) \in Int
             /\ \A T \in SUBSET D : \A x \in D \ T : SumOver(T \cup {x}, a) = SumOver(T, a) + a[x]
<1>1. Parts(v) BY SumOfParts
<1>2. Parts(w) BY SumOfParts
<1>0. Parts(u)
  <2>1. \A x \in D : u[x] \in Int OBVIOUS
  <2> QED BY <2>1, SumOfParts
<1>3. {} \in G BY <1>0, <1>1, <1>2
<1>4. ASSUME NEW T \in SUBSET D, NEW x \in D \ T, T \in G PROVE T \cup {x} \in G
  <2>1. /\ SumOver(T \cup {x}, u) = SumOver(T, u) + u[x]
        /\ SumOver(T \cup {x}, v) = SumOver(T, v) + v[x]
        /\ SumOver(T \cup {x}, w) = SumOver(T, w) + w[x]
    BY <1>0, <1>1, <1>2
  <2>2. SumOver(T, v) \in Int /\ SumOver(T, w) \in Int /\ v[x] \in Int /\ w[x] \in Int BY <1>1, <1>2
  <2>3. SumOver(T, u) = SumOver(T, v) + SumOver(T, w) BY <1>4
  <2>4. u[x] = v[x] + w[x] OBVIOUS
  <2>5. SumOver(T \cup {x}, u) = SumOver(T \cup {x}, v) + SumOver(T \cup {x}, w)
    BY <2>1, <2>2, <2>3, <2>4
  <2> QED BY <2>5
<1> HIDE DEF G
<1>5. D \in SUBSET D /\ \A T \in SUBSET D : T \in G BY <1>3, <1>4, BuiltUp
<1> QED BY <1>5 DEF G

\* What is near term by term is near in the sum, as far as there are terms.
LEMMA SumsNear ==
  ASSUME NEW D, IsFiniteSet(D), NEW m \in Int, NEW b \in Nat, NEW u, NEW v,
         \A x \in D : u[x] \in Int /\ v[x] \in Int /\ v[x] - b <= m * u[x] /\ m * u[x] <= v[x] + b
  PROVE  /\ SumOver(D, u) \in Int /\ SumOver(D, v) \in Int /\ Cardinality(D) \in Nat
         /\ SumOver(D, v) - Cardinality(D) * b <= m * SumOver(D, u)
         /\ m * SumOver(D, u) <= SumOver(D, v) + Cardinality(D) * b
<1> DEFINE Near(n, x, y) == y - n * b <= m * x /\ m * x <= y + n * b
           G == {T \in SUBSET D : Near(Cardinality(T), SumOver(T, u), SumOver(T, v))}
           Parts(a) ==
             /\ SumOver({}, a) = 0
             /\ \A T \in SUBSET D : IsFiniteSet(T) /\ SumOver(T, a) \in Int
             /\ \A T \in SUBSET D : \A x \in D \ T : SumOver(T \cup {x}, a) = SumOver(T, a) + a[x]
<1>1. Parts(u) /\ Parts(v)
  <2>1. \A x \in D : u[x] \in Int /\ v[x] \in Int OBVIOUS
  <2> QED BY <2>1, SumOfParts
<1>2. \A T \in SUBSET D : IsFiniteSet(T) /\ Cardinality(T) \in Nat BY <1>1, FS_CardinalityType
<1>3. {} \in G
  <2>1. Cardinality({}) = 0 BY FS_EmptySet
  <2>2. Near(0, 0, 0) OBVIOUS
  <2>3. {} \in SUBSET D OBVIOUS
  <2> HIDE DEF Near
  <2> QED BY <1>1, <2>1, <2>2, <2>3
<1>4. ASSUME NEW n \in Nat, NEW x \in Int, NEW y \in Int, NEW i \in Int, NEW j \in Int,
             Near(n, x, y), j - b <= m * i, m * i <= j + b
      PROVE  Near(n + 1, x + i, y + j)
  <2>1. m * (x + i) = m * x + m * i BY SMT
  <2>2. (n + 1) * b = n * b + b BY SMT
  <2> DEFINE mx == m * x
             mi == m * i
             nb == n * b
  <2>3. mx \in Int /\ mi \in Int /\ nb \in Int OBVIOUS
  <2>4. y - nb <= mx /\ mx <= y + nb /\ j - b <= mi /\ mi <= j + b BY <1>4
  <2>5. m * (x + i) = mx + mi /\ (n + 1) * b = nb + b BY <2>1, <2>2
  <2> HIDE DEF mx, mi, nb
  <2>6. (y + j) - (nb + b) <= mx + mi /\ mx + mi <= (y + j) + (nb + b) BY <2>3, <2>4
  <2> QED BY <2>5, <2>6
<1>5. ASSUME NEW T \in SUBSET D, NEW x \in D \ T, T \in G PROVE T \cup {x} \in G
  <2>1. /\ SumOver(T \cup {x}, u) = SumOver(T, u) + u[x]
        /\ SumOver(T \cup {x}, v) = SumOver(T, v) + v[x]
    BY <1>1
  <2>2. Cardinality(T \cup {x}) = Cardinality(T) + 1 BY <1>2, FS_AddElement
  <2>3. Near(Cardinality(T), SumOver(T, u), SumOver(T, v)) BY <1>5
  <2>4. /\ SumOver(T, u) \in Int /\ SumOver(T, v) \in Int /\ Cardinality(T) \in Nat
        /\ u[x] \in Int /\ v[x] \in Int /\ v[x] - b <= m * u[x] /\ m * u[x] <= v[x] + b
    BY <1>1, <1>2
  <2> HIDE DEF Near
  <2>5. Near(Cardinality(T) + 1, SumOver(T, u) + u[x], SumOver(T, v) + v[x]) BY <1>4, <2>3, <2>4
  <2>6. T \cup {x} \in SUBSET D OBVIOUS
  <2> QED BY <2>1, <2>2, <2>5, <2>6
<1> HIDE DEF G
<1>6. D \in SUBSET D /\ \A T \in SUBSET D : T \in G BY <1>3, <1>5, BuiltUp
<1> QED BY <1>1, <1>2, <1>6 DEF G

\* A sum of natural numbers is one, and no less than any of them.
LEMMA SumOfNaturals ==
  ASSUME NEW D, IsFiniteSet(D), NEW v, \A x \in D : v[x] \in Nat
  PROVE  /\ SumOver(D, v) \in Nat
         /\ \A x \in D : v[x] <= SumOver(D, v)
         /\ (\A x \in D : v[x] = 0) => SumOver(D, v) = 0
<1> DEFINE G == {T \in SUBSET D : SumOver(T, v) \in Nat}
           Z == {T \in SUBSET D : (\A x \in T : v[x] = 0) => SumOver(T, v) = 0}
<1>1. {} \in G /\ {} \in Z
  <2>1. SumOver({}, v) = 0 BY FS_EmptySet, SumByKey
  <2> QED BY <2>1
<1>2. ASSUME NEW T \in SUBSET D, NEW x \in D \ T
      PROVE  SumOver(T \cup {x}, v) = SumOver(T, v) + v[x]
  <2>1. \A y \in D : v[y] \in Int OBVIOUS
  <2> QED BY <2>1, SumOfParts
<1>3. \A T \in SUBSET D : \A x \in D \ T : T \in G => T \cup {x} \in G BY <1>2
<1>4. \A T \in SUBSET D : \A x \in D \ T : T \in Z => T \cup {x} \in Z BY <1>2
<1> HIDE DEF G, Z
<1>5. D \in SUBSET D /\ \A T \in SUBSET D : T \in G BY <1>1, <1>3, BuiltUp
<1>6. \A T \in SUBSET D : T \in Z BY <1>1, <1>4, BuiltUp
<1>7. ASSUME NEW x \in D PROVE v[x] <= SumOver(D, v)
  <2>1. SumOver(D, v) = SumOver(D \ {x}, v) + v[x]
    <3>1. \A y \in D : v[y] \in Int OBVIOUS
    <3> QED BY <3>1, SumByKey
  <2>2. D \ {x} \in SUBSET D OBVIOUS
  <2>3. SumOver(D \ {x}, v) \in Nat BY <1>5, <2>2 DEF G
  <2> QED BY <2>1, <2>3
<1> QED BY <1>5, <1>6, <1>7 DEF G, Z

\* Nothing is lost or counted twice when a sum is taken group by group.
LEMMA SumOfGroups ==
  ASSUME NEW K, IsFiniteSet(K), NEW C, IsFiniteSet(C), NEW key, \A k \in K : key[k] \in C,
         NEW v, \A k \in K : v[k] \in Int,
         NEW at, \A c \in C : \A k : k \in at[c] <=> k \in K /\ key[k] = c,
         NEW g, \A c \in C : g[c] = SumOver(at[c], v)
  PROVE  SumOver(C, g) = SumOver(K, v)
<1> DEFINE members(T) == {k \in K : key[k] \in T}
           G == {T \in SUBSET C : SumOver(T, g) = SumOver(members(T), v)}
<1>1. /\ SumOver({}, v) = 0
      /\ \A T \in SUBSET K : IsFiniteSet(T) /\ SumOver(T, v) \in Int
      /\ \A T \in SUBSET K : \A x \in K \ T : SumOver(T \cup {x}, v) = SumOver(T, v) + v[x]
  BY SumOfParts
<1>2. ASSUME NEW A \in SUBSET K, NEW B \in SUBSET K, A \cap B = {}
      PROVE  SumOver(A \cup B, v) = SumOver(A, v) + SumOver(B, v)
  <2> DEFINE H == {T \in SUBSET B : SumOver(A \cup T, v) = SumOver(A, v) + SumOver(T, v)}
  <2>1. {} \in H
    <3>2. A \cup {} = A /\ SumOver(A, v) \in Int BY <1>1
    <3>3. SumOver(A \cup {}, v) = SumOver(A, v) + SumOver({}, v) BY <1>1, <3>2
    <3> QED BY <3>3
  <2>2. ASSUME NEW T \in SUBSET B, NEW x \in B \ T, T \in H PROVE T \cup {x} \in H
    <3>1. /\ T \in SUBSET K /\ A \cup T \in SUBSET K /\ x \notin T /\ x \notin A \cup T
          /\ A \cup (T \cup {x}) = (A \cup T) \cup {x}
      BY <1>2
    <3>2. \A y \in K : v[y] \in Int OBVIOUS
    <3>3. x \in K \ T /\ x \in K \ (A \cup T) BY <3>1
    <3>4. SumOver(T \cup {x}, v) = SumOver(T, v) + v[x] BY <1>1, <3>1, <3>3
    <3>5. SumOver((A \cup T) \cup {x}, v) = SumOver(A \cup T, v) + v[x] BY <1>1, <3>1, <3>3
    <3>6. SumOver(A \cup T, v) = SumOver(A, v) + SumOver(T, v) BY <2>2
    <3>7. SumOver(A, v) \in Int /\ SumOver(T, v) \in Int /\ v[x] \in Int BY <1>1, <3>1, <3>2
    <3>8. SumOver(A \cup (T \cup {x}), v) = SumOver(A, v) + SumOver(T \cup {x}, v)
      <4>1. SumOver(A \cup (T \cup {x}), v) = SumOver((A \cup T) \cup {x}, v) BY Zenon, <3>1
      <4> DEFINE whole == SumOver(A \cup (T \cup {x}), v)
                 rest == SumOver(T \cup {x}, v)
                 both == SumOver(A \cup T, v)
                 a == SumOver(A, v)
                 t == SumOver(T, v)
      <4>2. whole = both + v[x] /\ rest = t + v[x] /\ both = a + t BY Zenon, <3>4, <3>5, <3>6, <4>1
      <4>3. a \in Int /\ t \in Int /\ v[x] \in Int BY <3>7
      <4> HIDE DEF whole, rest, both, a, t
      <4>4. whole = a + rest BY <4>2, <4>3
      <4> QED BY <4>4 DEF whole, a, rest
    <3> QED BY <3>8
  <2>3. IsFiniteSet(B) BY <1>1
  <2> HIDE DEF H
  <2>4. B \in SUBSET B /\ \A T \in SUBSET B : T \in H BY <2>1, <2>2, <2>3, BuiltUp
  <2> QED BY <2>4 DEF H
<1>3. {} \in G
  <2>1. SumOver({}, v) = 0 /\ SumOver({}, g) = 0 BY FS_EmptySet, SumByKey
  <2>2. members({}) = {} OBVIOUS
  <2>3. SumOver({}, g) = SumOver(members({}), v) BY <2>1, <2>2
  <2> QED BY <2>3
<1>4. ASSUME NEW T \in SUBSET C, NEW c \in C \ T, T \in G PROVE T \cup {c} \in G
  <2> DEFINE M == members(T)
             N == at[c]
  <2>1. M \in SUBSET K /\ N \in SUBSET K /\ M \cap N = {} /\ members(T \cup {c}) = M \cup N
    OBVIOUS
  <2>2. \A d \in C : g[d] \in Int
    <3> SUFFICES ASSUME NEW d \in C PROVE g[d] \in Int
      OBVIOUS
    <3>1. at[d] \in SUBSET K OBVIOUS
    <3>2. SumOver(at[d], v) \in Int BY <1>1, <3>1
    <3> QED BY <3>2
  <2>3. SumOver(T \cup {c}, g) = SumOver(T, g) + g[c]
    <3> HIDE DEF M, N, G
    <3> QED BY <2>2, SumOfParts
  <2>4. SumOver(T, g) = SumOver(M, v) BY <1>4
  <2>5. g[c] = SumOver(N, v) OBVIOUS
  <2>6. SumOver(members(T \cup {c}), v) = SumOver(M, v) + SumOver(N, v)
    <3> HIDE DEF M, N
    <3> QED BY <1>2, <2>1
  <2>7. SumOver(T \cup {c}, g) = SumOver(members(T \cup {c}), v) BY <2>3, <2>4, <2>5, <2>6
  <2> QED BY <2>7
<1> HIDE DEF G
<1>5. C \in SUBSET C /\ \A T \in SUBSET C : T \in G BY <1>3, <1>4, BuiltUp
<1>6. SumOver(C, g) = SumOver(members(C), v) BY <1>5 DEF G
<1>7. members(C) = K OBVIOUS
<1> QED BY <1>6, <1>7

\* A sum does not depend on how its keys are named.
LEMMA SumRenamed ==
  ASSUME NEW K, IsFiniteSet(K), NEW L, NEW f \in Surjection(K, L),
         \A x, y \in K : f[x] = f[y] => x = y,
         NEW v, \A x \in K : v[x] \in Int, NEW w, \A x \in K : w[f[x]] = v[x]
  PROVE  SumOver(L, w) = SumOver(K, v)
<1> DEFINE image(T) == {f[x] : x \in T}
           G == {T \in SUBSET K : IsFiniteSet(image(T)) /\ SumOver(image(T), w) = SumOver(T, v)}
<1>1. {} \in G
  <2>1. SumOver({}, v) = 0 /\ SumOver({}, w) = 0 /\ IsFiniteSet({}) BY FS_EmptySet, SumByKey
  <2>2. image({}) = {} OBVIOUS
  <2>3. IsFiniteSet(image({})) /\ SumOver(image({}), w) = SumOver({}, v) BY <2>1, <2>2
  <2> QED BY <2>3
<1>2. ASSUME NEW T \in SUBSET K, NEW x \in K \ T, T \in G PROVE T \cup {x} \in G
  <2> DEFINE I == image(T)
  <2>1. image(T \cup {x}) = I \cup {f[x]} OBVIOUS
  <2>2. f[x] \notin I OBVIOUS
  <2>3. \A y \in I \cup {f[x]} : w[y] \in Int OBVIOUS
  <2>4. IsFiniteSet(I) /\ SumOver(I, w) = SumOver(T, v) BY <1>2
  <2>5. w[f[x]] = v[x] OBVIOUS
  <2> HIDE DEF I
  <2>6. SumOver(I \cup {f[x]}, w) = SumOver(I, w) + w[f[x]]
    <3>1. IsFiniteSet(I) BY <2>4
    <3>2. PICK y : y = f[x] OBVIOUS
    <3>3. y \notin I BY <2>2, <3>2
    <3>4. \A z \in I \cup {y} : w[z] \in Int BY <2>3, <3>2
    <3> DEFINE J == I \cup {y}
    <3>5. IsFiniteSet(J) BY <3>1, FS_AddElement
    <3>6. y \in J /\ J \ {y} = I BY <3>3
    <3>7. \A z \in J : w[z] \in Int BY <3>4
    <3> HIDE DEF J
    <3>8. SumOver(J, w) = SumOver(J \ {y}, w) + w[y] BY <3>5, <3>6, <3>7, SumByKey
    <3> QED BY <3>2, <3>6, <3>8 DEF J
  <2>7. IsFiniteSet(I \cup {f[x]}) BY <2>4, FS_AddElement
  <2>8. SumOver(T \cup {x}, v) = SumOver(T, v) + v[x]
    <3> HIDE DEF G
    <3> QED BY SumOfParts
  <2>9. IsFiniteSet(image(T \cup {x})) /\ SumOver(image(T \cup {x}), w) = SumOver(T \cup {x}, v)
    BY <2>1, <2>4, <2>5, <2>6, <2>7, <2>8
  <2> QED BY <2>9
<1> HIDE DEF G
<1>3. K \in SUBSET K /\ \A T \in SUBSET K : T \in G BY <1>1, <1>2, BuiltUp
<1>4. SumOver(image(K), w) = SumOver(K, v) BY <1>3 DEF G
<1>5. image(K) = L BY DEF Surjection
<1> QED BY <1>4, <1>5

-----------------------------------------------------------------------------
(* Larger and smaller numbers.                                             *)
LEMMA MaxOf ==
  ASSUME NEW a \in Int, NEW b \in Int
  PROVE  Max({a, b}) = IF a >= b THEN a ELSE b
BY DEF Max

LEMMA MinOf ==
  ASSUME NEW a \in Int, NEW b \in Int
  PROVE  Min({a, b}) = IF a <= b THEN a ELSE b
BY DEF Min

\* Powers of two.
LEMMA PowersOfTwo ==
  /\ \A n \in Nat : 2 ^ n \in Nat \ {0}
  /\ \A m, n \in Nat : m <= n => 2 ^ m <= 2 ^ n
<1>1. ASSUME NEW n \in Nat
      PROVE  IsFiniteSet(SUBSET (1..n)) /\ Cardinality(SUBSET (1..n)) = 2 ^ n
  <2>1. IsFiniteSet(1..n) /\ Cardinality(1..n) = n
    <3>1. IsFiniteSet(1..n) /\ Cardinality(1..n) = IF 1 > n THEN 0 ELSE n - 1 + 1 BY FS_Interval
    <3> QED BY <3>1
  <2> DEFINE S == 1..n
  <2>2. IsFiniteSet(S) /\ Cardinality(S) = n BY <2>1
  <2> HIDE DEF S
  <2>3. IsFiniteSet(SUBSET S) /\ Cardinality(SUBSET S) = 2 ^ Cardinality(S) BY <2>2, FS_SUBSET
  <2>4. IsFiniteSet(SUBSET S) /\ Cardinality(SUBSET S) = 2 ^ n BY Zenon, <2>2, <2>3
  <2> QED BY <2>4 DEF S
<1>2. ASSUME NEW n \in Nat PROVE 2 ^ n \in Nat \ {0}
  <2> DEFINE U == SUBSET (1..n)
             p == 2 ^ n
  <2>1. IsFiniteSet(U) /\ Cardinality(U) = p /\ U # {} BY Zenon, <1>1
  <2> HIDE DEF U, p
  <2>2. p \in Nat /\ p # 0 BY <2>1, FS_CardinalityType, FS_EmptySet
  <2> QED BY <2>2 DEF p
<1>3. ASSUME NEW m \in Nat, NEW n \in Nat, m <= n PROVE 2 ^ m <= 2 ^ n
  <2> DEFINE U == SUBSET (1..m)
             W == SUBSET (1..n)
             p == 2 ^ m
             q == 2 ^ n
  <2>1. IsFiniteSet(U) /\ Cardinality(U) = p /\ IsFiniteSet(W) /\ Cardinality(W) = q BY Zenon, <1>1
  <2>2. U \in SUBSET W
    <3>1. 1..m \subseteq 1..n BY <1>3
    <3> QED BY <3>1
  <2> HIDE DEF U, W, p, q
  <2>3. p <= q BY <2>1, <2>2, FS_Subset
  <2> QED BY <2>3 DEF p, q
<1> QED BY <1>2, <1>3

-----------------------------------------------------------------------------
(* Lists: their length, their elements, their order.                       *)
\* The values of a function on a finite set are finitely many.
LEMMA FiniteImage ==
  ASSUME NEW S, IsFiniteSet(S), NEW f
  PROVE  IsFiniteSet({f[x] : x \in S})
<1> DEFINE T == {f[x] : x \in S}
           g == [x \in S |-> f[x]]
<1>1. g \in Surjection(S, T) BY DEF Surjection
<1> HIDE DEF g, T
<1>2. IsFiniteSet(T) BY <1>1, FS_Surjection
<1> QED BY <1>2 DEF T

\* A list of n elements.
LEMMA LengthOf ==
  ASSUME NEW n \in Nat, NEW S, NEW s \in [1..n -> S]
  PROVE  s \in Seq(S) /\ Len(s) = n
<1>1. s \in Seq(S) BY SeqDef
<1> DEFINE m == Len(s)
<1>2. m \in Nat /\ DOMAIN s = 1..m BY <1>1, LenProperties
<1> HIDE DEF m
<1>3. 1..m = 1..n BY <1>2
<1>4. Cardinality(1..m) = m
  <2>1. Cardinality(1..m) = IF 1 > m THEN 0 ELSE m - 1 + 1 BY <1>2, FS_Interval
  <2> QED BY <1>2, <2>1
<1>5. Cardinality(1..n) = n
  <2>1. Cardinality(1..n) = IF 1 > n THEN 0 ELSE n - 1 + 1 BY FS_Interval
  <2> QED BY <2>1
<1> QED BY <1>1, <1>3, <1>4, <1>5 DEF m

\* A list read backwards.
LEMMA Backwards ==
  ASSUME NEW S, NEW s \in Seq(S), s # <<>>
  PROVE  /\ Reverse(s) \in Seq(S) /\ Len(Reverse(s)) = Len(s) /\ Reverse(s) # <<>>
         /\ \A k \in 1..Len(s) : Len(s) - k + 1 \in 1..Len(s) /\ Reverse(s)[Len(s) - k + 1] = s[k]
         /\ \A k \in 1..Len(s) : Reverse(s)[k] = s[Len(s) - k + 1]
<1> DEFINE n == Len(s)
           r == Reverse(s)
<1>1. n \in Nat /\ n # 0 /\ \A k \in 1..n : s[k] \in S OBVIOUS
<1> HIDE DEF n
<1>2. r = [k \in 1..n |-> s[(n - k) + 1]] BY DEF Reverse, n
<1>3. \A k \in 1..n : n - k + 1 \in 1..n /\ n - (n - k + 1) + 1 = k BY <1>1
<1>4. r \in [1..n -> S] BY <1>1, <1>2, <1>3
<1>5. \A k \in 1..n : r[k] = s[n - k + 1] BY <1>2
<1>6. \A k \in 1..n : r[n - k + 1] = s[k] BY <1>3, <1>5
<1> HIDE DEF r
<1>7. r \in Seq(S) BY <1>1, <1>4
<1>8. Len(r) = n BY <1>1, <1>4, <1>7
<1>9. r # <<>> BY <1>1, <1>8
<1> QED BY <1>3, <1>5, <1>6, <1>7, <1>8, <1>9 DEF n, r

\* The numbers of a set, from the least to the greatest.
LEMMA SortedUp ==
  ASSUME NEW S \in SUBSET Int, IsFiniteSet(S)
  PROVE  /\ Cardinality(S) \in Nat /\ Sorted(S, <) \in [1..Cardinality(S) -> S]
         /\ \A i, j \in 1..Cardinality(S) : i < j => Sorted(S, <)[i] < Sorted(S, <)[j]
         /\ \A x \in S : \E k \in 1..Cardinality(S) : Sorted(S, <)[k] = x
<1> DEFINE R == {p \in S \X S : p[1] < p[2]}
<1>1. StrictOrder(R, S) BY DEF StrictOrder
<1> DEFINE L == Sorted(S, <)
<1>2. SortedBy(L, S, R)
  <2> DEFINE e(k) == CHOOSE x \in S : Cardinality({y \in S : y < x}) = k - 1
             g(k) == CHOOSE x \in S : Cardinality({y \in S : <<y, x>> \in R}) = k - 1
  <2>1. \A x \in S : {y \in S : y < x} = {y \in S : <<y, x>> \in R} OBVIOUS
  <2>2. \A k \in 1..Cardinality(S) : e(k) = g(k)
    <3> HIDE DEF R
    <3> QED BY <2>1
  <2>3. L = [k \in 1..Cardinality(S) |-> e(k)] BY Zenon DEF Sorted
  <2> HIDE DEF R, L
  <2>4. SortedBy(L, S, R) <=> L = [k \in 1..Cardinality(S) |-> g(k)] BY Zenon DEF SortedBy
  <2> HIDE DEF e, g
  <2> QED BY <2>2, <2>3, <2>4
<1>3. \A x, y : <<x, y>> \in R => x < y OBVIOUS
<1> HIDE DEF R, L
<1>4. /\ Cardinality(S) \in Nat /\ L \in [1..Cardinality(S) -> S]
      /\ \A i, j \in 1..Cardinality(S) : i < j => <<L[i], L[j]>> \in R
      /\ \A x \in S : \E k \in 1..Cardinality(S) : L[k] = x
  BY <1>1, <1>2, SortedList
<1>5. \A i, j \in 1..Cardinality(S) : i < j => L[i] < L[j] BY <1>3, <1>4
<1> QED BY <1>4, <1>5 DEF L

\* The places that are kept of a list, first to last.
Up(K) == Sorted(K, <)

LEMMA Filtered ==
  ASSUME NEW n \in Nat, NEW K \in SUBSET (1..n)
  PROVE  /\ Cardinality(K) \in Nat /\ Up(K) \in [1..Cardinality(K) -> K]
         /\ \A i, j \in 1..Cardinality(K) : i < j => Up(K)[i] < Up(K)[j]
         /\ \A x \in K : \E k \in 1..Cardinality(K) : Up(K)[k] = x
<1>1. K \in SUBSET Int /\ IsFiniteSet(K)
  <2>1. IsFiniteSet(1..n) BY FS_Interval
  <2>2. K \in SUBSET (1..n) OBVIOUS
  <2>3. IsFiniteSet(K) BY <2>1, <2>2, FS_Subset, Zenon
  <2>4. K \in SUBSET Int OBVIOUS
  <2> QED BY <2>3, <2>4
<1> QED BY Zenon, <1>1, SortedUp DEF Up

=============================================================================

------------------------------- MODULE Loops -------------------------------
(***************************************************************************)
(* What the proofs need of loops: a function defined by recursion on the   *)
(* number of the round exists, and what one round keeps all rounds keep.   *)
(* The same of a fold, which goes through a set of numbers from the least. *)
(***************************************************************************)
EXTENDS Integers, FiniteSets, FiniteSetTheorems, WellFoundedInduction, TLAPS

LEMMA LeastOne ==
  ASSUME NEW T, T \subseteq Nat, T # {}
  PROVE  \E x \in T : \A y \in T : x <= y
<1>1. PICK x \in T : \A y \in T : ~ (<<y, x>> \in OpToRel(<, Nat))
  BY NatLessThanWellFounded, WFMin
<1>2. ASSUME NEW y \in T, y < x PROVE FALSE
  <2>1. <<y, x>> \in Nat \X Nat /\ <<y, x>>[1] < <<y, x>>[2]
    BY <1>2
  <2>2. <<y, x>> \in OpToRel(<, Nat)
    BY <2>1 DEF OpToRel
  <2> QED BY <1>1, <2>2
<1> QED BY <1>2

(* Induction: a set that has 0, and with a number the next one, has all.   *)
LEMMA EveryRound ==
  ASSUME NEW n \in Nat, NEW T, 0 \in T, \A k \in 0 .. n - 1 : k \in T => k + 1 \in T
  PROVE  \A k \in 0 .. n : k \in T
<1> SUFFICES ASSUME NEW j \in 0 .. n, j \notin T PROVE FALSE
  OBVIOUS
<1> DEFINE D == (0 .. n) \ T
<1>1. D \subseteq Nat /\ D # {}
  OBVIOUS
<1>2. PICK m \in D : \A k \in D : m <= k
  <2> HIDE DEF D
  <2> QED BY <1>1, LeastOne
<1>3. m - 1 \in 0 .. n - 1 /\ m - 1 + 1 = m
  OBVIOUS
<1>4. m - 1 \in T
  BY <1>2, <1>3
<1> QED BY <1>3, <1>4

(* f is what a loop has after each of its n rounds, if it starts with b.   *)
Computes(f, n, S, b, step) ==
  f \in [0 .. n -> S] /\ f[0] = b /\ \A k \in 1 .. n : f[k] = step[<<k, f[k - 1]>>]

LEMMA LoopExists ==
  ASSUME NEW n \in Nat, NEW S, NEW b \in S, NEW step \in [(1 .. n) \X S -> S]
  PROVE  \E f : Computes(f, n, S, b, step)
<1> DEFINE Is(m, f) == f[0] = b /\ \A k \in 1 .. m : f[k] = step[<<k, f[k - 1]>>]
           T == {m \in 0 .. n : \E f \in [0 .. m -> S] : Is(m, f)}
<1>1. 0 \in T
  <2> DEFINE f == [k \in 0 .. 0 |-> b]
  <2>1. f \in [0 .. 0 -> S] /\ f[0] = b
    OBVIOUS
  <2>2. Is(0, f) /\ 0 \in 0 .. n
    BY <2>1
  <2> HIDE DEF f, Is
  <2> QED BY <2>1, <2>2
<1>2. ASSUME NEW m \in 0 .. n - 1, m \in T PROVE m + 1 \in T
  <2>1. PICK f \in [0 .. m -> S] : Is(m, f)
    BY <1>2
  <2> DEFINE e == step[<<m + 1, f[m]>>]
             g == [k \in 0 .. m + 1 |-> IF k = m + 1 THEN e ELSE f[k]]
  <2>2. m + 1 \in 1 .. n /\ m \in 0 .. m /\ m + 1 \in 0 .. n
    OBVIOUS
  <2>3. e \in S
    <3>1. <<m + 1, f[m]>> \in (1 .. n) \X S
      BY <2>2
    <3> QED BY <3>1
  <2>4. g \in [0 .. m + 1 -> S]
    <3> HIDE DEF e
    <3>1. \A k \in 0 .. m + 1 : k # m + 1 => k \in 0 .. m
      OBVIOUS
    <3> QED BY <2>3, <3>1
  <2>5. g[0] = b
    BY <2>1
  <2>6. ASSUME NEW k \in 1 .. m + 1 PROVE g[k] = step[<<k, g[k - 1]>>]
    <3>1. CASE k = m + 1
      <4>1. k - 1 = m /\ m # m + 1 /\ m \in 0 .. m + 1
        BY <3>1
      <4>2. g[k] = e /\ g[k - 1] = f[m]
        BY <3>1, <4>1
      <4> QED BY <3>1, <4>2
    <3>2. CASE k # m + 1
      <4>1. k \in 1 .. m /\ k \in 0 .. m + 1 /\ k - 1 \in 0 .. m + 1 /\ k - 1 # m + 1
        BY <3>2
      <4>2. g[k] = f[k] /\ g[k - 1] = f[k - 1]
        BY <3>2, <4>1
      <4> QED BY <2>1, <4>1, <4>2
    <3> QED BY <3>1, <3>2
  <2>7. Is(m + 1, g)
    BY <2>5, <2>6
  <2> QED BY <2>2, <2>4, <2>7
<1>3. \A m \in 0 .. n : m \in T
  <2> HIDE DEF T
  <2> QED BY <1>1, <1>2, EveryRound
<1>4. n \in T
  BY <1>3
<1> QED BY <1>4 DEF Computes

(* i is the k-th element of T, from the least.                             *)
IsNth(i, T, k) == i \in T /\ Cardinality({j \in T : j <= i}) = k

LEMMA NthExists ==
  ASSUME NEW n \in Nat, NEW T, T \subseteq 1 .. n, NEW k \in 1 .. Cardinality(T)
  PROVE  \E i : IsNth(i, T, k)
<1> DEFINE Upto(m) == {j \in T : j <= m}
           D == {m \in 0 .. n : Cardinality(Upto(m)) >= k}
<1>1. IsFiniteSet(T) /\ Cardinality(T) \in Nat
  <2>1. IsFiniteSet(1 .. n)
    BY FS_Interval
  <2> QED BY <2>1, FS_Subset, FS_CardinalityType
<1>2. \A m : IsFiniteSet(Upto(m)) /\ Cardinality(Upto(m)) \in Nat
  <2> TAKE m
  <2>1. Upto(m) \subseteq T
    OBVIOUS
  <2> HIDE DEF Upto
  <2> QED BY <1>1, <2>1, FS_Subset, FS_CardinalityType
<1>3. n \in D
  <2>1. \A j \in T : j <= n
    <3>1. \A j \in 1 .. n : j <= n
      OBVIOUS
    <3> QED BY <3>1
  <2>2. Upto(n) = T
    BY <2>1
  <2>3. n \in 0 .. n
    OBVIOUS
  <2> HIDE DEF Upto
  <2> QED BY <1>1, <2>2, <2>3
<1>4. PICK m \in D : \A j \in D : m <= j
  <2>1. D \subseteq Nat
    <3> HIDE DEF Upto
    <3> QED OBVIOUS
  <2> HIDE DEF D
  <2> QED BY <1>3, <2>1, LeastOne
<1>5. m # 0
  <2>1. \A j \in T : ~ (j <= 0)
    <3>1. \A j \in 1 .. n : ~ (j <= 0)
      OBVIOUS
    <3> QED BY <3>1
  <2>2. Upto(0) = {}
    BY <2>1
  <2> HIDE DEF Upto
  <2>3. Cardinality(Upto(0)) = 0
    BY <2>2, FS_EmptySet
  <2> QED BY <2>3
<1>6. m - 1 \in 0 .. n /\ m - 1 \notin D /\ m \in 1 .. n
  <2>1. m \in 0 .. n
    OBVIOUS
  <2>2. m - 1 \in 0 .. n /\ m \in 1 .. n /\ ~ (m <= m - 1)
    BY <1>5, <2>1
  <2> HIDE DEF D
  <2> QED BY <1>4, <2>2
<1>7. Cardinality(Upto(m - 1)) < k /\ Cardinality(Upto(m)) >= k
  <2> HIDE DEF Upto
  <2> QED BY <1>2, <1>6
<1>8. m \in T
  <2> SUFFICES ASSUME m \notin T PROVE FALSE
    OBVIOUS
  <2>1. Upto(m) = Upto(m - 1)
    <3>1. \A j \in T : j <= m <=> j <= m - 1
      BY <1>6
    <3> QED BY <3>1
  <2> HIDE DEF Upto
  <2> QED BY <1>2, <1>7, <2>1
<1>9. Upto(m) = Upto(m - 1) \cup {m} /\ m \notin Upto(m - 1)
  <2>1. \A j \in T : j <= m <=> j <= m - 1 \/ j = m
    BY <1>6
  <2> QED BY <1>6, <1>8, <2>1
<1>10. Cardinality(Upto(m)) = Cardinality(Upto(m - 1)) + 1
  <2> HIDE DEF Upto
  <2> QED BY <1>2, <1>9, FS_AddElement
<1>11. Cardinality(Upto(m)) = k
  <2> HIDE DEF Upto
  <2> QED BY <1>2, <1>7, <1>10
<1> QED BY <1>8, <1>11 DEF IsNth

(* A loop that does nothing after round m has its result there.            *)
LEMMA IdleAfter ==
  ASSUME NEW n \in Nat, NEW S, NEW b, NEW step, NEW f, Computes(f, n, S, b, step),
         NEW m \in 0 .. n, \A k \in m + 1 .. n, x \in S : step[<<k, x>>] = x
  PROVE  f[n] = f[m]
<1> DEFINE T == {k \in 0 .. n - m : f[m + k] = f[m]}
<1>1. n - m \in Nat /\ m + 0 = m /\ m + (n - m) = n
  OBVIOUS
<1>2. 0 \in T
  BY <1>1
<1>3. ASSUME NEW k \in 0 .. (n - m) - 1, k \in T PROVE k + 1 \in T
  <2>1. m + k + 1 \in m + 1 .. n /\ m + k + 1 \in 1 .. n /\ (m + k + 1) - 1 = m + k
        /\ m + k \in 0 .. n /\ k + 1 \in 0 .. n - m /\ m + (k + 1) = m + k + 1
    OBVIOUS
  <2>2. f[m + k] \in S /\ f[m + k + 1] = step[<<m + k + 1, f[m + k]>>]
    BY <2>1 DEF Computes
  <2> QED BY <1>3, <2>1, <2>2
<1>4. \A k \in 0 .. n - m : k \in T
  <2> DEFINE q == n - m
  <2>1. q \in Nat /\ 0 \in T /\ \A k \in 0 .. q - 1 : k \in T => k + 1 \in T
    BY <1>1, <1>2, <1>3
  <2> HIDE DEF T, q
  <2>2. \A k \in 0 .. q : k \in T
    BY <2>1, EveryRound
  <2> QED BY <2>2 DEF q
<1>5. n - m \in T
  <2> HIDE DEF T
  <2> QED BY <1>1, <1>4
<1> QED BY <1>1, <1>5

(* Loops that do the same in their first m rounds are equal so far.        *)
LEMMA SameSoFar ==
  ASSUME NEW n \in Nat, NEW S, NEW b, NEW d, NEW e, NEW f, NEW g,
         Computes(f, n, S, b, d), Computes(g, n, S, b, e),
         NEW m \in 0 .. n, \A k \in 1 .. m, x \in S : d[<<k, x>>] = e[<<k, x>>]
  PROVE  f[m] = g[m]
<1> DEFINE T == {k \in 0 .. m : f[k] = g[k]}
<1>1. 0 \in T
  BY DEF Computes
<1>2. ASSUME NEW k \in 0 .. m - 1, k \in T PROVE k + 1 \in T
  <2>1. k + 1 \in 1 .. m /\ k + 1 \in 1 .. n /\ k \in 0 .. n /\ (k + 1) - 1 = k
        /\ k + 1 \in 0 .. m
    OBVIOUS
  <2>2. f[k] \in S /\ f[k + 1] = d[<<k + 1, f[k]>>] /\ g[k + 1] = e[<<k + 1, g[k]>>]
    BY <2>1 DEF Computes
  <2> QED BY <1>2, <2>1, <2>2
<1>3. \A k \in 0 .. m : k \in T
  <2> HIDE DEF T
  <2> QED BY <1>1, <1>2, EveryRound
<1>4. m \in T
  BY <1>3
<1> QED BY <1>4

(* A fold that takes the elements of a set of numbers from the least is a  *)
(* function on the sets, given by what it does with their greatest.        *)
Greatest(m, s) == m \in s /\ \A k \in s : k <= m

FoldsTo(g, n, S, b, step) ==
  /\ g \in [SUBSET (1 .. n) -> S] /\ g[{}] = b
  /\ \A s \in SUBSET (1 .. n) : \A m : Greatest(m, s) => g[s] = step[<<m, g[s \ {m}]>>]

LEMMA FoldExists ==
  ASSUME NEW n \in Nat, NEW S, NEW b \in S, NEW step \in [(1 .. n) \X S -> S]
  PROVE  \E g : FoldsTo(g, n, S, b, step)
<1> DEFINE stp(s) == [x \in (1 .. n) \X S |-> IF x[1] \in s THEN step[x] ELSE x[2]]
           F(s) == CHOOSE f : Computes(f, n, S, b, stp(s))
           g == [s \in SUBSET (1 .. n) |-> F(s)[n]]
<1>1. ASSUME NEW s, NEW k \in 1 .. n, NEW x \in S
      PROVE  /\ k \in s => stp(s)[<<k, x>>] = step[<<k, x>>]
             /\ k \notin s => stp(s)[<<k, x>>] = x
  OBVIOUS
<1>2. \A s : Computes(F(s), n, S, b, stp(s))
  <2> TAKE s
  <2>1. stp(s) \in [(1 .. n) \X S -> S]
    OBVIOUS
  <2> HIDE DEF stp
  <2>2. \E f : Computes(f, n, S, b, stp(s))
    BY <2>1, LoopExists
  <2> QED BY <2>2
<1> HIDE DEF F, stp
<1>3. n \in 0 .. n /\ \A s : F(s)[n] \in S
  BY <1>2 DEF Computes
<1>4. g \in [SUBSET (1 .. n) -> S]
  BY <1>3
<1>5. g[{}] = b
  <2>1. 0 \in 0 .. n /\ \A k \in 0 + 1 .. n, x \in S : stp({})[<<k, x>>] = x
    <3>1. \A k \in 0 + 1 .. n : k \in 1 .. n /\ k \notin {}
      OBVIOUS
    <3> QED BY <1>1, <3>1
  <2>2. F({})[n] = F({})[0]
    BY <1>2, <2>1, IdleAfter
  <2>3. F({})[0] = b
    BY <1>2 DEF Computes
  <2> QED BY <2>2, <2>3
<1>6. ASSUME NEW s \in SUBSET (1 .. n), NEW m, Greatest(m, s)
      PROVE  g[s] = step[<<m, g[s \ {m}]>>]
  <2> DEFINE t == s \ {m}
  <2>1. m \in 1 .. n /\ m \in 0 .. n /\ m - 1 \in 0 .. n /\ (m - 1) + 1 = m /\ t \in SUBSET (1 .. n)
    BY <1>6 DEF Greatest
  <2>2. \A k \in m + 1 .. n : k \in 1 .. n /\ k \notin s
    BY <1>6, <2>1 DEF Greatest
  <2>3. \A k \in (m - 1) + 1 .. n : k \in 1 .. n /\ k \notin t
    BY <2>1, <2>2
  <2>4. \A k \in 1 .. m - 1 : k \in 1 .. n /\ (k \in s <=> k \in t)
    BY <2>1
  <2>0. m \in s
    BY <1>6 DEF Greatest
  <2> HIDE DEF t
  <2>5. F(s)[n] = F(s)[m]
    <3>1. \A k \in m + 1 .. n, x \in S : stp(s)[<<k, x>>] = x
      BY <1>1, <2>2
    <3> QED BY <1>2, <2>1, <3>1, IdleAfter
  <2>6. F(t)[n] = F(t)[m - 1]
    <3>1. \A k \in (m - 1) + 1 .. n, x \in S : stp(t)[<<k, x>>] = x
      BY <1>1, <2>3
    <3> QED BY <1>2, <2>1, <3>1, IdleAfter
  <2>7. F(s)[m - 1] = F(t)[m - 1]
    <3>1. \A k \in 1 .. m - 1, x \in S : stp(s)[<<k, x>>] = stp(t)[<<k, x>>]
      <4> TAKE k \in 1 .. m - 1, x \in S
      <4>1. CASE k \in s
        BY <1>1, <2>4, <4>1
      <4>2. CASE k \notin s
        BY <1>1, <2>4, <4>2
      <4> QED BY <4>1, <4>2
    <3>2. Computes(F(s), n, S, b, stp(s)) /\ Computes(F(t), n, S, b, stp(t))
      BY <1>2
    <3> QED BY <2>1, <3>1, <3>2, SameSoFar
  <2>8. F(s)[m] = step[<<m, F(s)[m - 1]>>] /\ F(s)[m - 1] \in S
    <3>1. F(s)[m - 1] \in S /\ F(s)[m] = stp(s)[<<m, F(s)[m - 1]>>]
      BY <1>2, <2>1 DEF Computes
    <3> QED BY <1>1, <2>0, <2>1, <3>1
  <2>9. g[s] = F(s)[n] /\ g[t] = F(t)[n]
    BY <2>1
  <2> HIDE DEF g
  <2>10. g[s] = step[<<m, g[t]>>]
    BY <2>5, <2>6, <2>7, <2>8, <2>9
  <2> QED BY <2>10 DEF t
<1> HIDE DEF g
<1> QED BY <1>4, <1>5, <1>6 DEF FoldsTo
=============================================================================

---------------------------- MODULE FiniteInduction ----------------------------
(***************************************************************************)
(* Induction as a fact about sets.  The library's induction theorems take  *)
(* a predicate, which the provers here cannot instantiate; a set of        *)
(* numbers, or of subsets, that contains the first and is closed under the *)
(* next can be handed to them.  From it: least and greatest members of     *)
(* finite sets of numbers, and their enumeration in increasing order.      *)
(***************************************************************************)
EXTENDS Integers, FiniteSets, FiniteSetTheorems, WellFoundedInduction, TLAPS

\* Less-than on the naturals as a set of pairs.
Below == {p \in Nat \X Nat : p[1] < p[2]}

\* There is no infinite descent in the naturals.
LEMMA BelowIsWellFounded == IsWellFoundedOn(Below, Nat)
BY NatLessThanWellFounded, Zenon DEF OpToRel, Below

\* A set of naturals that is not empty has a least member.
LEMMA LeastMember ==
    ASSUME NEW S \in SUBSET Nat, S # {}
    PROVE  \E x \in S : \A y \in S : x <= y
<1>1. PICK x \in S : \A y \in S : ~(<< y, x >> \in Below)
  BY BelowIsWellFounded, WFMin, Zenon
<1>2. \A y \in S : ~(y < x)
  BY <1>1 DEF Below
<1> QED
  BY <1>2

\* Induction: a set of naturals with 0 and with every member's successor is all of them.
LEMMA NaturalSetInduction ==
    ASSUME NEW S \in SUBSET Nat, 0 \in S, \A n \in S : n + 1 \in S
    PROVE  S = Nat
<1> SUFFICES ASSUME Nat \ S # {} PROVE FALSE
  OBVIOUS
<1>1. PICK x \in Nat \ S : \A y \in Nat \ S : x <= y
  BY LeastMember
<1>2. x # 0 /\ x - 1 \in Nat
  BY <1>1
<1>3. x - 1 \in S
  BY <1>1, <1>2
<1>4. (x - 1) + 1 = x
  BY <1>1
<1> QED
  BY <1>1, <1>3, <1>4

\* A set of naturals with a bound has a greatest member.
LEMMA GreatestMember ==
    ASSUME NEW n \in Nat, NEW S \in SUBSET (0..n), S # {}
    PROVE  \E x \in S : \A y \in S : y <= x
<1> DEFINE T == {k \in Nat : n - k \in S}
<1>1. PICK s : s \in S
  OBVIOUS
<1>2. n - s \in Nat /\ n - (n - s) = s
  BY <1>1
<1>3. T \in SUBSET Nat /\ T # {}
  BY <1>1, <1>2
<1>4. PICK k \in T : \A l \in T : k <= l
  BY <1>3, LeastMember
<1>5. \A y \in S : n - y \in T
  <2> TAKE y \in S
  <2>1. y \in 0..n
    OBVIOUS
  <2>2. n - y \in Nat /\ n - (n - y) = y
    BY <2>1
  <2> QED
    BY <2>2
<1>6. \A y \in S : y <= n - k
  <2> TAKE y \in S
  <2>1. y \in 0..n
    OBVIOUS
  <2>2. k <= n - y
    BY <1>4, <1>5
  <2> QED
    BY <2>1, <2>2, <1>4
<1> QED
  BY <1>4, <1>6

\* Induction over a finite set: a family of its subsets with the empty one, closed under
\* adding a member, has the set itself.
LEMMA FiniteSetInduction ==
    ASSUME NEW S, IsFiniteSet(S), NEW F \in SUBSET (SUBSET S), {} \in F,
           \A T \in F : \A x \in S \ T : T \cup {x} \in F
    PROVE  S \in F
<1> DEFINE N == {n \in Nat : \A T \in SUBSET S : Cardinality(T) = n => T \in F}
<1>1. \A T \in SUBSET S : IsFiniteSet(T) /\ Cardinality(T) \in Nat
  BY FS_Subset, FS_CardinalityType
<1>2. 0 \in N
  BY <1>1, FS_EmptySet
<1>3. ASSUME NEW n \in N PROVE n + 1 \in N
  <2> SUFFICES ASSUME NEW T \in SUBSET S, Cardinality(T) = n + 1 PROVE T \in F
    OBVIOUS
  <2>1. T # {}
    <3>1. n + 1 # 0
      OBVIOUS
    <3> QED
      BY <3>1, FS_EmptySet, Zenon
  <2>2. PICK x : x \in T
    BY <2>1
  <2>3. Cardinality(T \ {x}) = n
    BY <1>1, <2>2, FS_RemoveElement, SMTT(30)
  <2>4. T \ {x} \in F
    BY <2>3
  <2>5. (T \ {x}) \cup {x} \in F
    BY <2>4, <2>2
  <2>6. (T \ {x}) \cup {x} = T
    BY <2>2
  <2> QED
    BY <2>5, <2>6
<1>4. N = Nat
  <2> HIDE DEF N
  <2>1. N \in SUBSET Nat
    BY DEF N
  <2> QED
    BY <1>2, <1>3, <2>1, NaturalSetInduction
<1>5. Cardinality(S) \in N
  BY <1>1, <1>4
<1> QED
  BY <1>5

\* f lists the members of S in increasing order.
Lists(f, S) ==
    /\ f \in [1..Cardinality(S) -> S]
    /\ \A p, q \in 1..Cardinality(S) : p < q => f[p] < f[q]
    /\ \A s \in S : \E p \in 1..Cardinality(S) : f[p] = s

\* Every finite set of numbers can be listed in increasing order.
LEMMA IncreasingListExists ==
    ASSUME NEW n \in Nat, NEW S \in SUBSET (1..n)
    PROVE  \E f : Lists(f, S)
<1> DEFINE N == {m \in Nat : \A T \in SUBSET (1..m) : \E f : Lists(f, T)}
<1>1. 0 \in N
  <2> SUFFICES ASSUME NEW T \in SUBSET (1..0) PROVE \E f : Lists(f, T)
    OBVIOUS
  <2>1. T = {} /\ Cardinality(T) = 0
    <3>1. T = {}
      OBVIOUS
    <3> QED
      BY <3>1, FS_EmptySet, Zenon
  <2>2. Lists([p \in 1..0 |-> 0], T)
    BY <2>1 DEF Lists
  <2> QED
    BY <2>2
<1>2. ASSUME NEW m \in N PROVE m + 1 \in N
  <2> SUFFICES ASSUME NEW T \in SUBSET (1..(m + 1)) PROVE \E f : Lists(f, T)
    OBVIOUS
  <2> DEFINE U == T \ {m + 1}
             c == Cardinality(U)
  <2>1. U \in SUBSET (1..m)
    OBVIOUS
  <2>2. PICK g : Lists(g, U)
    BY <2>1
  <2>3. IsFiniteSet(U) /\ c \in Nat
    <3>1. m \in Int /\ 1 \in Int
      OBVIOUS
    <3>2. IsFiniteSet(1..m)
      BY <3>1, FS_Interval, Zenon
    <3>3. IsFiniteSet(U)
      BY <2>1, <3>2, FS_Subset, Zenon
    <3> QED
      BY <3>3, FS_CardinalityType, Zenon
  <2>4. CASE m + 1 \notin T
    BY <2>2, <2>4
  <2>5. CASE m + 1 \in T
    <3> DEFINE f == [p \in 1..(c + 1) |-> IF p = c + 1 THEN m + 1 ELSE g[p]]
    <3>1. T = U \cup {m + 1} /\ Cardinality(T) = c + 1
      <4>1. T = U \cup {m + 1} /\ m + 1 \notin U
        BY <2>5
      <4> QED
        BY <4>1, <2>3, FS_AddElement
    <3>2. \A p \in 1..c : g[p] \in U /\ g[p] < m + 1
      <4>1. \A p \in 1..c : g[p] \in U
        BY <2>2 DEF Lists
      <4>2. \A u \in U : u < m + 1
        BY <2>1
      <4> QED
        BY <4>1, <4>2
    <3> HIDE DEF U, c
    <3>3. f \in [1..(c + 1) -> T]
      <4> SUFFICES ASSUME NEW p \in 1..(c + 1) PROVE f[p] \in T
        OBVIOUS
      <4>1. CASE p = c + 1
        BY <2>5, <4>1
      <4>2. CASE p # c + 1
        <5>1. p \in 1..c
          BY <2>3, <4>2
        <5> QED
          BY <5>1, <3>1, <3>2, <4>2
      <4> QED
        BY <4>1, <4>2
    <3>4. \A p, q \in 1..(c + 1) : p < q => f[p] < f[q]
      <4> SUFFICES ASSUME NEW p \in 1..(c + 1), NEW q \in 1..(c + 1), p < q
                   PROVE  f[p] < f[q]
        OBVIOUS
      <4>1. p \in 1..c /\ f[p] = g[p]
        BY <2>3
      <4>2. CASE q = c + 1
        BY <3>2, <4>1, <4>2
      <4>3. CASE q # c + 1
        <5>1. q \in 1..c /\ f[q] = g[q]
          BY <2>3, <4>3
        <5> QED
          BY <4>1, <5>1, <2>2 DEF Lists, c
      <4> QED
        BY <4>2, <4>3
    <3>5. \A s \in T : \E p \in 1..(c + 1) : f[p] = s
      <4> SUFFICES ASSUME NEW s \in T PROVE \E p \in 1..(c + 1) : f[p] = s
        OBVIOUS
      <4>1. CASE s = m + 1
        <5>1. f[c + 1] = s /\ c + 1 \in 1..(c + 1)
          BY <4>1, <2>3
        <5> QED
          BY <5>1
      <4>2. CASE s \in U
        <5>1. PICK p \in 1..c : g[p] = s
          BY <4>2, <2>2 DEF Lists, c
        <5>2. p \in 1..(c + 1) /\ f[p] = s
          BY <5>1, <2>3
        <5> QED
          BY <5>2
      <4> QED
        BY <3>1, <4>1, <4>2
    <3>6. Lists(f, T)
      BY <3>1, <3>3, <3>4, <3>5 DEF Lists
    <3> QED
      BY <3>6
  <2> QED
    BY <2>4, <2>5
<1>3. N = Nat
  <2> HIDE DEF N
  <2>1. N \in SUBSET Nat
    BY DEF N
  <2> QED
    BY <1>1, <1>2, <2>1, NaturalSetInduction
<1> QED
  BY <1>3

\* Induction up to n: a set with 0 and, up to n, with the successor of its members has n.
LEMMA InductionUpTo ==
    ASSUME NEW n \in Nat, NEW S, 0 \in S, \A k \in 1..n : k - 1 \in S => k \in S
    PROVE  n \in S
<1> DEFINE M == {k \in Nat : k <= n => k \in S}
<1>1. 0 \in M
  OBVIOUS
<1>2. ASSUME NEW k \in M PROVE k + 1 \in M
  <2> SUFFICES ASSUME k + 1 <= n PROVE k + 1 \in S
    OBVIOUS
  <2>1. k \in S /\ k + 1 \in 1..n /\ (k + 1) - 1 = k
    OBVIOUS
  <2> QED
    BY <2>1
<1>3. M = Nat
  <2>1. M \in SUBSET Nat
    OBVIOUS
  <2> HIDE DEF M
  <2> QED
    BY <1>1, <1>2, <2>1, NaturalSetInduction
<1> QED
  BY <1>3

\* f begins with b and follows step, up to n.
Unfolds(f, G, n, b, step) ==
    /\ f \in [0..n -> G] /\ f[0] = b
    /\ \A k \in 1..n : f[k] = step[<< k, f[k - 1] >>]

\* A first value and a step define a sequence of values.
LEMMA RecursionExists ==
    ASSUME NEW G, NEW n \in Nat, NEW b \in G, NEW step \in [(1..n) \X G -> G]
    PROVE  \E f : Unfolds(f, G, n, b, step)
<1> DEFINE Prefix(m, f) == Unfolds(f, G, m, b, step)
           M == {m \in 0..n : \E f : Prefix(m, f)}
<1> USE DEF Unfolds
<1>1. 0 \in M
  <2>1. Prefix(0, [k \in 0..0 |-> b])
    OBVIOUS
  <2> HIDE DEF Prefix
  <2> QED
    BY <2>1
<1>2. ASSUME NEW m \in 1..n, m - 1 \in M PROVE m \in M
  <2>1. PICK f : Prefix(m - 1, f)
    BY <1>2
  <2> DEFINE g == [k \in 0..m |-> IF k = m THEN step[<< m, f[m - 1] >>] ELSE f[k]]
  <2>2. f[m - 1] \in G /\ step[<< m, f[m - 1] >>] \in G
    BY <2>1
  <2>3. \A k \in 0..(m - 1) : k \in 0..m /\ g[k] = f[k]
    OBVIOUS
  <2>4. g[m] = step[<< m, g[m - 1] >>]
    <3>1. g[m] = step[<< m, f[m - 1] >>] /\ m - 1 \in 0..(m - 1)
      OBVIOUS
    <3> HIDE DEF g
    <3> QED
      BY <2>3, <3>1
  <2>5. g \in [0..m -> G]
    BY <2>1, <2>2
  <2>6. g[0] = b
    BY <2>1, <2>3
  <2>7. ASSUME NEW k \in 1..m PROVE g[k] = step[<< k, g[k - 1] >>]
    <3>1. CASE k = m
      BY <2>4, <3>1
    <3>2. CASE k # m
      <4>1. k \in 1..(m - 1) /\ k \in 0..(m - 1) /\ k - 1 \in 0..(m - 1)
        BY <3>2
      <4> QED
        BY <2>1, <2>3, <4>1
    <3> QED
      BY <3>1, <3>2
  <2>8. Prefix(m, g)
    BY <2>5, <2>6, <2>7
  <2> HIDE DEF Prefix, g
  <2> QED
    BY <2>8
<1>3. n \in M
  <2> HIDE DEF M
  <2> QED
    BY <1>1, <1>2, InductionUpTo
<1> QED
  BY <1>3

================================================================================

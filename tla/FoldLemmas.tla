------------------------------ MODULE FoldLemmas ------------------------------
(***************************************************************************)
(* Lemmas about numbers, folds over sequences and sums over sets that the  *)
(* proofs of several components need.  A property that holds of 0 and of   *)
(* n + 1 when it holds of n is given as a set of numbers (SetInduction),   *)
(* and a step of a fold as a function (FoldExists).                        *)
(***************************************************************************)
EXTENDS Integers, SequencesExt, FiniteSetTheorems, WellFoundedInduction, TLAPS

(* Induction over the natural numbers for a set of them.                     *)
LEMMA SetInduction ==
  ASSUME NEW S, 0 \in S, \A n \in Nat : n \in S => n + 1 \in S
  PROVE  Nat \subseteq S
<1> DEFINE T == Nat \ S
           R == OpToRel(<, Nat)
<1> SUFFICES ASSUME T # {} PROVE FALSE
  OBVIOUS
<1>1. IsWellFoundedOn(R, Nat)
  BY NatLessThanWellFounded
<1>2. PICK x \in T : \A y \in T : ~ (<<y, x>> \in R)
  <2>1. T \subseteq Nat
    OBVIOUS
  <2> HIDE DEF T, R
  <2>2. QED
    BY <1>1, <2>1, WFMin
<1>3. x - 1 \in T
  <2>1. x \in Nat /\ x \notin S /\ x # 0
    OBVIOUS
  <2>2. x - 1 \in Nat /\ (x - 1) + 1 = x
    BY <2>1
  <2>3. QED
    BY <2>1, <2>2
<1>4. <<x - 1, x>> \in R
  BY <1>2, <1>3 DEF OpToRel
<1>5. QED
  BY <1>2, <1>3, <1>4

(* A set of numbers that is not empty has a least member.                    *)
LEMMA LeastIsThere ==
  ASSUME NEW S \in SUBSET Nat, S # {}
  PROVE  Min(S) \in S /\ \A x \in S : Min(S) <= x
<1> DEFINE R == OpToRel(<, Nat)
<1>1. IsWellFoundedOn(R, Nat)
  BY NatLessThanWellFounded
<1>2. PICK least \in S : \A x \in S : ~ (<<x, least>> \in R)
  <2> HIDE DEF R
  <2>1. QED
    BY <1>1, WFMin
<1>3. ASSUME NEW x \in S PROVE least <= x
  <2>1. x \in Nat /\ least \in Nat
    OBVIOUS
  <2>2. x < least => <<x, least>> \in R
    BY <2>1 DEF OpToRel
  <2>3. ~ (x < least)
    BY <1>2, <2>2
  <2> HIDE DEF R
  <2>4. QED
    BY <2>1, <2>3
<1>4. \E x \in S : \A y \in S : x <= y
  BY <1>3
<1>5. QED
  BY <1>4 DEF Min

(* A set of numbers up to n that is not empty has a greatest one.            *)
LEMMA Greatest ==
  ASSUME NEW n \in Nat, NEW s \in SUBSET (1..n), s # {}
  PROVE  Max(s) \in s /\ \A y \in s : y <= Max(s)
<1> DEFINE S == {m \in Nat : \A u \in SUBSET (1..m) : u # {} => \E x \in u : \A y \in u : x >= y}
<1>1. 0 \in S
  <2>1. 1..0 = {}
    OBVIOUS
  <2>2. QED
    BY <2>1
<1>2. ASSUME NEW m \in Nat, m \in S PROVE m + 1 \in S
  <2> SUFFICES ASSUME NEW u \in SUBSET (1..(m + 1)), u # {}
               PROVE  \E x \in u : \A y \in u : x >= y
    OBVIOUS
  <2>1. CASE m + 1 \in u
    BY <2>1
  <2>2. CASE m + 1 \notin u
    <3>1. u \in SUBSET (1..m)
      BY <2>2
    <3>2. QED
      BY <3>1, <1>2
  <2>3. QED
    BY <2>1, <2>2
<1>3. n \in S
  <2> HIDE DEF S
  <2>1. QED
    BY <1>1, <1>2, SetInduction
<1>4. PICK x \in s : \A y \in s : x >= y
  BY <1>3
<1>5. QED
  BY <1>4 DEF Max

(* Of finitely many members one has the greatest value.                      *)
LEMMA BestIsThere ==
  ASSUME NEW n \in Nat, NEW s \in SUBSET (1..n), s # {}, NEW v \in [1..n -> Int]
  PROVE  \E i \in s : \A j \in s : v[j] <= v[i]
<1> DEFINE S == {m \in Nat : m <= n => \A u \in SUBSET (1..m) : u # {} => \E i \in u : \A j \in u : v[j] <= v[i]}
<1>1. 0 \in S
  <2>1. 1..0 = {}
    OBVIOUS
  <2>2. QED
    BY <2>1
<1>2. ASSUME NEW m \in Nat, m \in S PROVE m + 1 \in S
  <2> SUFFICES ASSUME m + 1 <= n, NEW u \in SUBSET (1..(m + 1)), u # {}
               PROVE  \E i \in u : \A j \in u : v[j] <= v[i]
    OBVIOUS
  <2> DEFINE w == u \ {m + 1}
  <2>1. w \in SUBSET (1..m) /\ \A j \in u : j \in w \/ j = m + 1
    OBVIOUS
  <2>2. \A j \in u : v[j] \in Int
    OBVIOUS
  <2> HIDE DEF w
  <2>3. CASE w = {}
    <3>1. u = {m + 1} /\ v[m + 1] \in Int
      BY <2>1, <2>2, <2>3
    <3>2. QED
      BY <3>1
  <2>4. CASE w # {}
    <3>0. \A y \in SUBSET (1..m) : y # {} => \E i \in y : \A j \in y : v[j] <= v[i]
      <4>1. m <= n
        OBVIOUS
      <4>2. QED
        BY <1>2, <4>1
    <3>1. PICK i \in w : \A j \in w : v[j] <= v[i]
      BY <2>1, <2>4, <3>0
    <3>2. CASE m + 1 \in u /\ v[m + 1] > v[i]
      <4>1. i \in u /\ v[i] \in Int /\ v[m + 1] \in Int
        BY <2>2, <3>1, <3>2 DEF w
      <4>2. ASSUME NEW j \in u PROVE v[j] <= v[m + 1]
        BY <2>1, <2>2, <3>1, <3>2, <4>1
      <4>3. QED
        BY <3>2, <4>2
    <3>3. CASE ~ (m + 1 \in u /\ v[m + 1] > v[i])
      <4>1. i \in u /\ v[i] \in Int
        BY <2>2, <3>1 DEF w
      <4>2. ASSUME NEW j \in u PROVE v[j] <= v[i]
        BY <2>1, <2>2, <3>1, <3>3, <4>1
      <4>3. QED
        BY <4>1, <4>2
    <3>4. QED
      BY <3>2, <3>3
  <2>5. QED
    BY <2>3, <2>4
<1>3. n \in S
  <2> HIDE DEF S
  <2>1. QED
    BY <1>1, <1>2, SetInduction
<1>4. QED
  BY <1>3

LEMMA LastIsGreatest ==
  ASSUME NEW n \in Nat, NEW s \in SUBSET (1..(n + 1)), n + 1 \in s
  PROVE  Max(s) = n + 1 /\ s \ {n + 1} \in SUBSET (1..n)
<1> DEFINE k == n + 1
<1>1. k \in Nat /\ s \in SUBSET (1..k) /\ s # {}
  OBVIOUS
<1> HIDE DEF k
<1>2. Max(s) \in s /\ \A y \in s : y <= Max(s)
  BY <1>1, Greatest
<1>3. Max(s) \in 1..(n + 1) /\ n + 1 <= Max(s)
  BY <1>1, <1>2 DEF k
<1>4. \A i \in s \ {n + 1} : i \in 1..n
  OBVIOUS
<1>5. QED
  BY <1>3, <1>4

(* The first m + 1 numbers are the first m and one more.                     *)
LEMMA OneMore ==
  ASSUME NEW m \in Nat
  PROVE  /\ Max(1..(m + 1)) = m + 1 /\ (1..(m + 1)) \ {m + 1} = 1..m /\ 1..(m + 1) # {}
         /\ 1..0 = {}
<1>1. 1..(m + 1) \in SUBSET (1..(m + 1)) /\ m + 1 \in 1..(m + 1)
  OBVIOUS
<1>2. Max(1..(m + 1)) = m + 1
  BY <1>1, LastIsGreatest
<1>3. (1..(m + 1)) \ {m + 1} = 1..m
  OBVIOUS
<1>4. 1..0 = {}
  OBVIOUS
<1>5. QED
  BY <1>1, <1>2, <1>3, <1>4

(* A function that folds the numbers 1 to n with a given step, the greatest  *)
(* number last, as FoldLeft does, with values in A.                          *)
IsFold(A, base, step, n, f) ==
  /\ f \in [SUBSET (1..n) -> A]
  /\ \A s \in SUBSET (1..n) :
       f[s] = IF s = {} THEN base ELSE step[<<f[s \ {Max(s)}], Max(s)>>]

(* A fold is continued by one number.                                        *)
LEMMA FoldGrows ==
  ASSUME NEW n \in Nat, NEW A, NEW base \in A, NEW step \in [A \X (1..n) -> A],
         NEW m \in Nat, m + 1 <= n, NEW f, IsFold(A, base, step, m, f)
  PROVE  \E g : IsFold(A, base, step, m + 1, g)
<1> DEFINE k == m + 1
           g == [s \in SUBSET (1..k) |-> IF k \in s THEN step[<<f[s \ {k}], k>>] ELSE f[s]]
<1>1. /\ f \in [SUBSET (1..m) -> A]
      /\ \A s \in SUBSET (1..m) :
           f[s] = IF s = {} THEN base ELSE step[<<f[s \ {Max(s)}], Max(s)>>]
  BY DEF IsFold
<1>2. \A s \in SUBSET (1..k) : k \in s => Max(s) = k /\ s \ {k} \in SUBSET (1..m)
  BY LastIsGreatest
<1>3. \A s \in SUBSET (1..k) : k \notin s => s \in SUBSET (1..m)
  OBVIOUS
<1>4. \A s \in SUBSET (1..m) : k \notin s /\ s \in SUBSET (1..k)
  OBVIOUS
<1>5. k \in 1..n
  OBVIOUS
<1>6. \A s \in SUBSET (1..m) : s # {} => Max(s) \in s /\ s \ {Max(s)} \in SUBSET (1..m)
  BY Greatest
<1> HIDE DEF k
<1>7. g \in [SUBSET (1..k) -> A]
  <2> SUFFICES ASSUME NEW s \in SUBSET (1..k) PROVE g[s] \in A
    OBVIOUS
  <2>1. CASE k \in s
    <3>1. f[s \ {k}] \in A
      BY <1>1, <1>2, <2>1
    <3>2. QED
      BY <1>5, <2>1, <3>1
  <2>2. CASE k \notin s
    BY <1>1, <1>3, <2>2
  <2>3. QED
    BY <2>1, <2>2
<1>8. \A s \in SUBSET (1..m) : g[s] = f[s]
  BY <1>4
<1>9. ASSUME NEW s \in SUBSET (1..k)
      PROVE  g[s] = IF s = {} THEN base ELSE step[<<g[s \ {Max(s)}], Max(s)>>]
  <2>1. CASE k \in s
    <3>1. g[s] = step[<<f[s \ {k}], k>>] /\ g[s \ {k}] = f[s \ {k}]
      BY <1>2, <1>8, <2>1
    <3>2. QED
      BY <1>2, <2>1, <3>1
  <2>2. CASE k \notin s
    <3>1. s \in SUBSET (1..m)
      BY <1>3, <2>2
    <3>2. g[s] = f[s] /\ (s # {} => g[s \ {Max(s)}] = f[s \ {Max(s)}])
      BY <1>6, <1>8, <3>1
    <3> HIDE DEF g
    <3>3. QED
      BY <1>1, <3>1, <3>2
  <2>3. QED
    BY <2>1, <2>2
<1> HIDE DEF g
<1>10. IsFold(A, base, step, k, g)
  BY <1>7, <1>9 DEF IsFold
<1>11. QED
  BY <1>10 DEF k

(* There is one for every step that stays in A.                              *)
LEMMA FoldExists ==
  ASSUME NEW n \in Nat, NEW A, NEW base \in A, NEW step \in [A \X (1..n) -> A]
  PROVE  \E f : IsFold(A, base, step, n, f)
<1> DEFINE S == {m \in Nat : m <= n => \E f : IsFold(A, base, step, m, f)}
<1>1. 0 \in S
  <2> DEFINE f == [s \in SUBSET (1..0) |-> base]
  <2>1. \A s \in SUBSET (1..0) : s = {}
    OBVIOUS
  <2>2. f \in [SUBSET (1..0) -> A] /\ \A s \in SUBSET (1..0) : f[s] = base
    OBVIOUS
  <2> HIDE DEF f
  <2>3. IsFold(A, base, step, 0, f)
    BY <2>1, <2>2 DEF IsFold
  <2>4. QED
    BY <2>3
<1>2. ASSUME NEW m \in Nat, m \in S PROVE m + 1 \in S
  <2>1. m + 1 <= n => \E f : IsFold(A, base, step, m, f)
    BY <1>2
  <2>2. m + 1 <= n => \E g : IsFold(A, base, step, m + 1, g)
    BY <2>1, FoldGrows
  <2>3. QED
    BY <2>2
<1>3. n \in S
  <2> HIDE DEF S
  <2>1. QED
    BY <1>1, <1>2, SetInduction
<1>4. QED
  BY <1>3

-----------------------------------------------------------------------------
(* A function that adds up subsets as SumSet does: a chosen member and the   *)
(* others.                                                                   *)
Picked(s) == CHOOSE x \in s : TRUE
AddsUp(D, f) == \A s \in D : f[s] = IF s = {} THEN 0 ELSE Picked(s) + f[s \ {Picked(s)}]
UpTo(T, m) == {s \in SUBSET T : Cardinality(s) <= m}

(* What one member less leaves.                                              *)
LEMMA OneLess ==
  ASSUME NEW T \in SUBSET Int, IsFiniteSet(T), NEW m \in Nat, NEW s \in UpTo(T, m + 1), NEW x \in s
  PROVE  s \ {x} \in UpTo(T, m)
<1>1. IsFiniteSet(s) /\ Cardinality(s) \in Nat /\ Cardinality(s) <= m + 1 /\ s \in SUBSET T
  BY FS_Subset, FS_CardinalityType DEF UpTo
<1>2. Cardinality(s \ {x}) = Cardinality(s) - 1
  BY <1>1, FS_RemoveElement
<1>3. Cardinality(s \ {x}) <= m
  BY <1>1, <1>2
<1>4. QED
  BY <1>1, <1>3 DEF UpTo

LEMMA NoneUpTo ==
  ASSUME NEW T \in SUBSET Int, IsFiniteSet(T)
  PROVE  UpTo(T, 0) = {{}} /\ UpTo(T, Cardinality(T)) = SUBSET T
<1>1. \A s \in SUBSET T : IsFiniteSet(s) /\ Cardinality(s) \in Nat /\ Cardinality(s) <= Cardinality(T)
  BY FS_Subset, FS_CardinalityType
<1>2. \A s \in SUBSET T : Cardinality(s) <= 0 <=> s = {}
  <2> SUFFICES ASSUME NEW s \in SUBSET T PROVE Cardinality(s) <= 0 <=> s = {}
    OBVIOUS
  <2>1. IsFiniteSet(s) /\ Cardinality(s) \in Nat
    BY <1>1
  <2>2. Cardinality(s) = 0 <=> s = {}
    BY <2>1, FS_EmptySet
  <2>3. QED
    BY <2>1, <2>2
<1>3. QED
  BY <1>1, <1>2 DEF UpTo

LEMMA SumExists ==
  ASSUME NEW T \in SUBSET Int, IsFiniteSet(T)
  PROVE  \E f \in [SUBSET T -> Int] : AddsUp(SUBSET T, f)
<1> DEFINE S == {m \in Nat : \E f \in [UpTo(T, m) -> Int] : AddsUp(UpTo(T, m), f)}
<1>1. 0 \in S
  <2> DEFINE f == [s \in {{}} |-> 0]
  <2>1. f \in [UpTo(T, 0) -> Int] /\ AddsUp(UpTo(T, 0), f)
    BY NoneUpTo DEF AddsUp
  <2>2. QED
    BY <2>1
<1>2. ASSUME NEW m \in Nat, m \in S PROVE m + 1 \in S
  <2>1. PICK f \in [UpTo(T, m) -> Int] : AddsUp(UpTo(T, m), f)
    BY <1>2
  <2> DEFINE D == UpTo(T, m)
             E == UpTo(T, m + 1)
             g == [s \in E |-> IF s \in D THEN f[s]
                               ELSE Picked(s) + f[s \ {Picked(s)}]]
  <2>2. D \subseteq E /\ {} \in D
    <3>1. \A s \in SUBSET T : Cardinality(s) \in Nat
      BY FS_Subset, FS_CardinalityType
    <3>2. Cardinality({}) = 0
      BY FS_EmptySet
    <3>3. QED
      BY <3>1, <3>2 DEF UpTo
  <2>3. \A s \in E : s # {} => Picked(s) \in s /\ Picked(s) \in Int /\ s \ {Picked(s)} \in D
    <3> SUFFICES ASSUME NEW s \in E, s # {}
                 PROVE  Picked(s) \in s /\ Picked(s) \in Int /\ s \ {Picked(s)} \in D
      OBVIOUS
    <3>1. Picked(s) \in s
      BY DEF Picked
    <3>2. s \subseteq Int
      BY DEF UpTo
    <3>3. QED
      BY <3>1, <3>2, OneLess
  <2>4. \A s \in D : f[s] \in Int /\ f[s] = IF s = {} THEN 0 ELSE Picked(s) + f[s \ {Picked(s)}]
    BY <2>1 DEF AddsUp
  <2> HIDE DEF D, E
  <2>5. \A s \in D : g[s] = f[s]
    BY <2>2
  <2>6. \A s \in E : g[s] \in Int
    <3> SUFFICES ASSUME NEW s \in E PROVE g[s] \in Int
      OBVIOUS
    <3>1. CASE s \in D
      BY <2>4, <2>5, <3>1
    <3>2. CASE s \notin D
      <4>1. s # {}
        BY <2>2, <3>2
      <4>2. Picked(s) \in Int /\ f[s \ {Picked(s)}] \in Int
        BY <2>3, <2>4, <4>1
      <4>3. g[s] = Picked(s) + f[s \ {Picked(s)}]
        BY <3>2
      <4>4. QED
        BY <4>2, <4>3
    <3>3. QED
      BY <3>1, <3>2
  <2>7. g \in [E -> Int]
    BY <2>6
  <2>8. \A s \in E : g[s] = IF s = {} THEN 0 ELSE Picked(s) + g[s \ {Picked(s)}]
    <3> SUFFICES ASSUME NEW s \in E
                 PROVE  g[s] = IF s = {} THEN 0 ELSE Picked(s) + g[s \ {Picked(s)}]
      OBVIOUS
    <3>1. s # {} => g[s \ {Picked(s)}] = f[s \ {Picked(s)}]
      BY <2>3, <2>5
    <3>2. CASE s \in D
      <4>1. g[s] = f[s]
        BY <2>5, <3>2
      <4> HIDE DEF g
      <4>2. QED
        BY <2>4, <3>1, <3>2, <4>1
    <3>3. CASE s \notin D
      <4>1. s # {}
        BY <2>2, <3>3
      <4>2. g[s] = Picked(s) + f[s \ {Picked(s)}]
        BY <3>3
      <4> HIDE DEF g
      <4>3. QED
        BY <3>1, <4>1, <4>2
    <3>4. QED
      BY <3>2, <3>3
  <2> HIDE DEF g
  <2>9. AddsUp(UpTo(T, m + 1), g)
    BY <2>8 DEF AddsUp, E
  <2>10. QED
    BY <2>7, <2>9 DEF E
<1>3. Cardinality(T) \in S
  <2>1. Cardinality(T) \in Nat
    BY FS_CardinalityType
  <2> HIDE DEF S
  <2>2. QED
    BY <1>1, <1>2, <2>1, SetInduction
<1>4. QED
  BY <1>3, NoneUpTo

(* Two of them agree where both add up.                                      *)
LEMMA SumsAgree ==
  ASSUME NEW T \in SUBSET Int, IsFiniteSet(T), NEW f, NEW g, AddsUp(SUBSET T, f), AddsUp(SUBSET T, g)
  PROVE  \A s \in SUBSET T : f[s] = g[s]
<1> DEFINE S == {m \in Nat : \A s \in UpTo(T, m) : f[s] = g[s]}
<1>0. \A s \in SUBSET T : /\ f[s] = IF s = {} THEN 0 ELSE Picked(s) + f[s \ {Picked(s)}]
                          /\ g[s] = IF s = {} THEN 0 ELSE Picked(s) + g[s \ {Picked(s)}]
  BY DEF AddsUp
<1>1. 0 \in S
  BY <1>0, NoneUpTo
<1>2. ASSUME NEW m \in Nat, m \in S PROVE m + 1 \in S
  <2> SUFFICES ASSUME NEW s \in UpTo(T, m + 1) PROVE f[s] = g[s]
    OBVIOUS
  <2>1. s \in SUBSET T
    BY DEF UpTo
  <2>2. s # {} => s \ {Picked(s)} \in UpTo(T, m)
    BY OneLess DEF Picked
  <2>3. s # {} => f[s \ {Picked(s)}] = g[s \ {Picked(s)}]
    BY <1>2, <2>2
  <2>4. QED
    BY <1>0, <2>1, <2>3
<1>3. Cardinality(T) \in S
  <2>1. Cardinality(T) \in Nat
    BY FS_CardinalityType
  <2> HIDE DEF S
  <2>2. QED
    BY <1>1, <1>2, <2>1, SetInduction
<1>4. QED
  BY <1>3, NoneUpTo

Sums(T, f) == T \in SUBSET Int /\ IsFiniteSet(T) /\ AddsUp(SUBSET T, f)

LEMMA TheSum ==
  ASSUME NEW T, NEW f, NEW g, Sums(T, f), Sums(T, g)
  PROVE  f[T] = g[T]
<1>1. T \in SUBSET Int /\ IsFiniteSet(T) /\ AddsUp(SUBSET T, f) /\ AddsUp(SUBSET T, g)
  BY DEF Sums
<1>2. \A s \in SUBSET T : f[s] = g[s]
  BY <1>1, SumsAgree
<1>3. QED
  BY <1>2

(* The order in which members are taken does not matter.                     *)
LEMMA AnyFirst ==
  ASSUME NEW T \in SUBSET Int, IsFiniteSet(T), NEW f \in [SUBSET T -> Int], AddsUp(SUBSET T, f)
  PROVE  \A s \in SUBSET T : \A y \in s : f[s] = y + f[s \ {y}]
<1> DEFINE S == {m \in Nat : \A s \in UpTo(T, m) : \A y \in s : f[s] = y + f[s \ {y}]}
<1>0. \A s \in SUBSET T : f[s] \in Int /\ f[s] = IF s = {} THEN 0 ELSE Picked(s) + f[s \ {Picked(s)}]
  BY DEF AddsUp
<1>1. 0 \in S
  BY NoneUpTo
<1>2. ASSUME NEW m \in Nat, m \in S PROVE m + 1 \in S
  <2> SUFFICES ASSUME NEW s \in UpTo(T, m + 1), NEW y \in s PROVE f[s] = y + f[s \ {y}]
    OBVIOUS
  <2> DEFINE x == Picked(s)
             a == s \ {x}
             b == s \ {y}
             c == s \ {x, y}
  <2>1. s \in SUBSET T /\ x \in s /\ f[s] = x + f[a]
    <3>1. s \in SUBSET T
      BY DEF UpTo
    <3>2. x \in s
      BY DEF Picked
    <3>3. QED
      BY <1>0, <3>1, <3>2
  <2>2. x \in Int /\ y \in Int
    BY <2>1
  <2>3. a \in UpTo(T, m) /\ b \in UpTo(T, m)
    <3> HIDE DEF x
    <3>1. QED
      BY <2>1, OneLess
  <2>4. a \ {y} = c /\ b \ {x} = c /\ c \in SUBSET T /\ a \in SUBSET T /\ b \in SUBSET T
    BY <2>1
  <2>5. CASE x = y
    BY <2>1, <2>5
  <2>6. CASE x # y
    <3>1. y \in a /\ x \in b
      BY <2>1, <2>6
    <3> HIDE DEF x, a, b, c
    <3>2. f[a] = y + f[c] /\ f[b] = x + f[c]
      BY <1>2, <2>3, <2>4, <3>1
    <3>3. f[a] \in Int /\ f[b] \in Int /\ f[c] \in Int
      BY <1>0, <2>4
    <3>4. x + (y + f[c]) = y + (x + f[c])
      BY <2>2, <3>3
    <3>5. f[s] = y + f[b]
      BY <2>1, <3>2, <3>4
    <3>6. QED
      BY <3>5 DEF b
  <2>7. QED
    BY <2>5, <2>6
<1>3. Cardinality(T) \in S
  <2>1. Cardinality(T) \in Nat
    BY FS_CardinalityType
  <2> HIDE DEF S
  <2>2. QED
    BY <1>1, <1>2, <2>1, SetInduction
<1>4. QED
  BY <1>3, NoneUpTo

(* SumSet adds up.                                                           *)
LEMMA SumSetAddsUp ==
  ASSUME NEW T \in SUBSET Int, IsFiniteSet(T), NEW f \in [SUBSET T -> Int], AddsUp(SUBSET T, f)
  PROVE  SumSet(T) = f[T]
<1> DEFINE F(g) == [s \in SUBSET T |-> IF s = {} THEN 0 ELSE LET x == CHOOSE x \in s : TRUE IN x + g[s \ {x}]]
<1>1. SumSet(T) = (CHOOSE g : g = F(g))[T]
  BY DEF SumSet, FoldSet, MapThenFoldSet
<1>2. f = F(f)
  <2>1. \A s \in SUBSET T : f[s] = F(f)[s]
    BY DEF AddsUp, Picked
  <2>2. f = [s \in SUBSET T |-> f[s]] /\ F(f) = [s \in SUBSET T |-> F(f)[s]]
    OBVIOUS
  <2> HIDE DEF F
  <2>3. QED
    BY <2>1, <2>2
<1> DEFINE h == CHOOSE g : g = F(g)
<1>3. h = F(h)
  <2> HIDE DEF F
  <2>1. QED
    BY <1>2
<1>4. AddsUp(SUBSET T, h)
  <2>1. \A s \in SUBSET T : h[s] = F(h)[s]
    BY <1>3
  <2> HIDE DEF h
  <2>2. QED
    BY <2>1 DEF AddsUp, Picked
<1> HIDE DEF F, h
<1>5. h[T] = f[T]
  BY <1>4, SumsAgree
<1>6. QED
  BY <1>1, <1>5 DEF h

LEMMA SumOfNone == SumSet({}) = 0
<1>1. {} \in SUBSET Int /\ IsFiniteSet({})
  BY FS_EmptySet
<1>2. PICK f \in [SUBSET {} -> Int] : AddsUp(SUBSET {}, f)
  BY <1>1, SumExists
<1>3. f[{}] = 0
  BY <1>2 DEF AddsUp
<1>4. QED
  BY <1>1, <1>2, <1>3, SumSetAddsUp

(* A member more adds its value.                                             *)
LEMMA SumOfOneMore ==
  ASSUME NEW T \in SUBSET Int, IsFiniteSet(T), NEW x \in Int, x \notin T
  PROVE  SumSet(T) \in Int /\ SumSet(T \cup {x}) = SumSet(T) + x
<1> DEFINE U == T \cup {x}
<1>1. U \in SUBSET Int /\ IsFiniteSet(U) /\ T = U \ {x} /\ T \in SUBSET U /\ x \in U
  BY FS_AddElement
<1> HIDE DEF U
<1>2. PICK f \in [SUBSET U -> Int] : AddsUp(SUBSET U, f)
  BY <1>1, SumExists
<1>3. PICK g \in [SUBSET T -> Int] : AddsUp(SUBSET T, g)
  BY SumExists
<1>4. AddsUp(SUBSET T, f)
  <2>1. SUBSET T \subseteq SUBSET U
    BY <1>1
  <2>2. QED
    BY <1>2, <2>1 DEF AddsUp
<1>5. f[T] = g[T]
  <2>1. AddsUp(SUBSET T, g)
    BY <1>3
  <2>2. Sums(T, f) /\ Sums(T, g)
    BY <1>4, <2>1 DEF Sums
  <2>3. QED
    BY <2>2, TheSum
<1>6. f[U] = x + f[T] /\ f[T] \in Int
  BY <1>1, <1>2, AnyFirst
<1>7. SumSet(U) = f[U] /\ SumSet(T) = g[T]
  BY <1>1, <1>2, <1>3, SumSetAddsUp
<1>8. QED
  BY <1>5, <1>6, <1>7 DEF U

(* The sums of two sets that have no member in common.                       *)
LEMMA SumOfBoth ==
  ASSUME NEW A \in SUBSET Int, IsFiniteSet(A), NEW B \in SUBSET Int, IsFiniteSet(B), A \cap B = {}
  PROVE  SumSet(A \cup B) = SumSet(A) + SumSet(B)
<1> DEFINE S == {m \in Nat : \A s \in UpTo(B, m) : SumSet(A \cup s) = SumSet(A) + SumSet(s)}
<1>0. \A s : IsFiniteSet(s) /\ s \in SUBSET Int => SumSet(s) \in Int
  <2> SUFFICES ASSUME NEW s \in SUBSET Int, IsFiniteSet(s) PROVE SumSet(s) \in Int
    OBVIOUS
  <2>1. PICK f \in [SUBSET s -> Int] : AddsUp(SUBSET s, f)
    BY SumExists
  <2>2. SumSet(s) = f[s]
    BY <2>1, SumSetAddsUp
  <2>3. QED
    BY <2>2
<1>1. 0 \in S
  <2>1. A \cup {} = A
    OBVIOUS
  <2>2. SumSet(A) \in Int
    BY <1>0
  <2>3. SumSet(A) + 0 = SumSet(A)
    BY <2>2
  <2>4. QED
    BY <2>1, <2>3, NoneUpTo, SumOfNone
<1>2. ASSUME NEW m \in Nat, m \in S PROVE m + 1 \in S
  <2> SUFFICES ASSUME NEW s \in UpTo(B, m + 1) PROVE SumSet(A \cup s) = SumSet(A) + SumSet(s)
    OBVIOUS
  <2>1. CASE s = {}
    <3>1. A \cup s = A
      BY <2>1
    <3>2. SumSet(A) \in Int
      BY <1>0
    <3>3. SumSet(A) + 0 = SumSet(A)
      BY <3>2
    <3>4. QED
      BY <2>1, <3>1, <3>3, SumOfNone
  <2>2. CASE s # {}
    <3>1. PICK x : x \in s
      BY <2>2
    <3> DEFINE r == s \ {x}
    <3>2. s \in SUBSET B /\ IsFiniteSet(s)
      BY FS_Subset DEF UpTo
    <3>3. r \in UpTo(B, m)
      BY <3>1, OneLess
    <3>4. /\ r \in SUBSET Int /\ IsFiniteSet(r) /\ x \in Int /\ x \notin r /\ r \cup {x} = s
          /\ A \cup r \in SUBSET Int /\ x \notin A \cup r /\ (A \cup r) \cup {x} = A \cup s
      BY <3>1, <3>2, FS_RemoveElement
    <3>5. IsFiniteSet(A \cup r)
      BY <3>4, FS_Union
    <3> HIDE DEF r
    <3>6. SumSet(A \cup r) = SumSet(A) + SumSet(r)
      BY <1>2, <3>3
    <3>7. SumSet(s) = SumSet(r) + x /\ SumSet(A \cup s) = SumSet(A \cup r) + x
      BY <3>4, <3>5, SumOfOneMore
    <3>8. SumSet(A) \in Int /\ SumSet(r) \in Int
      BY <1>0, <3>4
    <3>9. (SumSet(A) + SumSet(r)) + x = SumSet(A) + (SumSet(r) + x)
      BY <3>4, <3>8
    <3>10. QED
      BY <3>6, <3>7, <3>9
  <2>3. QED
    BY <2>1, <2>2
<1>3. Cardinality(B) \in S
  <2>1. Cardinality(B) \in Nat
    BY FS_CardinalityType
  <2> HIDE DEF S
  <2>2. QED
    BY <1>1, <1>2, <2>1, SetInduction
<1>4. QED
  BY <1>3, NoneUpTo

(* A finite set of numbers has a greatest.                                  *)
LEMMA FiniteGreatest ==
  ASSUME NEW T \in SUBSET Int, IsFiniteSet(T), T # {}
  PROVE  Max(T) \in T /\ \A y \in T : y <= Max(T)
<1> DEFINE S == {m \in Nat : \A u \in UpTo(T, m) : u # {} => \E x \in u : \A y \in u : y <= x}
<1>1. 0 \in S
  BY NoneUpTo
<1>2. ASSUME NEW m \in Nat, m \in S PROVE m + 1 \in S
  <2> SUFFICES ASSUME NEW u \in UpTo(T, m + 1), u # {} PROVE \E x \in u : \A y \in u : y <= x
    OBVIOUS
  <2>1. PICK z \in u : TRUE
    OBVIOUS
  <2>2. u \ {z} \in UpTo(T, m)
    BY OneLess
  <2>3. u \in SUBSET Int
    BY DEF UpTo
  <2>4. CASE u \ {z} = {}
    BY <2>1, <2>3, <2>4
  <2>5. CASE u \ {z} # {}
    <3>1. PICK x \in u \ {z} : \A y \in u \ {z} : y <= x
      BY <1>2, <2>2, <2>5
    <3>2. x \in Int /\ z \in Int
      BY <2>3
    <3>3. CASE z <= x
      BY <3>1, <3>3
    <3>4. CASE x < z
      <4>1. \A y \in u : y <= z
        BY <2>3, <3>1, <3>2, <3>4
      <4>2. QED
        BY <4>1
    <3>5. QED
      BY <3>2, <3>3, <3>4
  <2>6. QED
    BY <2>4, <2>5
<1>3. Nat \subseteq S
  <2> HIDE DEF S
  <2>1. QED
    BY <1>1, <1>2, SetInduction
<1>4. \E x \in T : \A y \in T : y <= x
  <2>1. Cardinality(T) \in Nat /\ T \in UpTo(T, Cardinality(T))
    BY NoneUpTo, FS_CardinalityType
  <2>2. QED
    BY <1>3, <2>1
<1>5. \E x \in T : \A y \in T : x >= y
  BY <1>4
<1>6. Max(T) \in T /\ \A y \in T : Max(T) >= y
  BY <1>5 DEF Max
<1>7. QED
  BY <1>6

=============================================================================

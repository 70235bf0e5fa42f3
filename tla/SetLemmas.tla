------------------------------ MODULE SetLemmas ------------------------------
(***************************************************************************)
(* What the proofs need of finite sets: that numbers have a greatest among *)
(* them, how the size of a set changes with one of its members, and how a  *)
(* sum over it does.  A sum is a recursive function; what it computes is   *)
(* found by induction on a family of sets, which is a value, where a       *)
(* property that varies would be an operator.                              *)
(***************************************************************************)
EXTENDS Integers, FiniteSets, FiniteSetsExt, Functions, FiniteSetTheorems, WellFoundedInduction, TLAPS

Bit(b) == IF b THEN 1 ELSE 0

\* A set of natural numbers that is not empty has a least.
LEMMA LeastExists ==
    ASSUME NEW T \in SUBSET Nat, T # {}
    PROVE  \E k \in T : \A l \in T : k <= l
<1>1. \E k \in T : \A l \in T : <<l, k>> \notin OpToRel(<, Nat)
  BY WFMin, NatLessThanWellFounded, Zenon
<1>2. \E k \in T : \A l \in T : ~(l < k)
  BY <1>1, Zenon DEF OpToRel
<1> QED
  BY <1>2

\* So a set of numbers up to n that is not empty has a greatest.
LEMMA GreatestExists ==
    ASSUME NEW n \in Nat, NEW S \in SUBSET (1..n), S # {}
    PROVE  \E c \in S : \A d \in S : c >= d
<1> DEFINE T == {k \in Nat : n - k \in S}
<1>1. \A c \in S : n - c \in T
  OBVIOUS
<1>2. PICK k \in T : \A l \in T : k <= l
  BY <1>1, LeastExists
<1>3. \A d \in S : k <= n - d
  BY <1>1, <1>2
<1> QED
  BY <1>2, <1>3

\* Max of the community modules is that number.
LEMMA MaxIsGreatest ==
    ASSUME NEW n \in Nat, NEW S \in SUBSET (1..n), S # {}
    PROVE  Max(S) \in S /\ \A d \in S : Max(S) >= d
BY GreatestExists DEF Max

\* A set without two members has one at most.
LEMMA AtMostOne ==
    ASSUME NEW S, \A c, d \in S : c = d
    PROVE  IsFiniteSet(S) /\ Cardinality(S) <= 1
<1>1. CASE S = {}
  BY <1>1, FS_EmptySet
<1>2. CASE S # {}
  <2>1. PICK c \in S : S = {c}
    BY <1>2
  <2>2. IsFiniteSet({c}) /\ Cardinality({c}) = 1
    BY FS_Singleton
  <2> QED
    BY <2>1, <2>2
<1> QED
  BY <1>1, <1>2

\* The parts of a finite set are finite and have a size.
LEMMA CountType ==
    ASSUME NEW U, IsFiniteSet(U), NEW S \in SUBSET U
    PROVE  IsFiniteSet(S) /\ Cardinality(S) \in Nat
BY FS_Subset, FS_CardinalityType

\* Sets that share no member add up.
LEMMA CountDisjoint ==
    ASSUME NEW S, IsFiniteSet(S), NEW T, IsFiniteSet(T), S \cap T = {}
    PROVE  Cardinality(S \union T) = Cardinality(S) + Cardinality(T)
<1>1. /\ Cardinality(S) \in Nat /\ Cardinality(T) \in Nat
      /\ Cardinality(S \union T) = Cardinality(S) + Cardinality(T) - Cardinality(S \cap T)
  BY FS_CardinalityType, FS_Union
<1>2. Cardinality(S \cap T) = 0
  BY FS_EmptySet
<1> QED
  BY <1>1, <1>2

\* A member that joins or leaves changes the size by one.
LEMMA CountStep ==
    ASSUME NEW U, IsFiniteSet(U), NEW S \in SUBSET U, NEW T \in SUBSET U, NEW t \in U,
           \A s \in U \ {t} : s \in S <=> s \in T
    PROVE  Cardinality(T) + Bit(t \in S) = Cardinality(S) + Bit(t \in T)
<1> DEFINE R == S \ {t}
<1>1. R = T \ {t} /\ R \in SUBSET U /\ t \notin R
  OBVIOUS
<1>2. IsFiniteSet(R) /\ Cardinality(R) \in Nat
  <2> HIDE DEF R
  <2> QED
    BY <1>1, CountType
<1>3. Cardinality(R \union {t}) = Cardinality(R) + 1
  BY <1>1, <1>2, FS_AddElement
<1>4. /\ IF t \in S THEN S = R \union {t} ELSE S = R
      /\ IF t \in T THEN T = R \union {t} ELSE T = R
  BY <1>1
<1> HIDE DEF R
<1>5. Cardinality(S) = Cardinality(R) + Bit(t \in S)
  <2>1. CASE t \in S
    <3>1. S = R \union {t}
      BY <1>4, <2>1
    <3> QED
      BY <1>3, <2>1, <3>1 DEF Bit
  <2>2. CASE t \notin S
    <3>1. S = R
      BY <1>4, <2>2
    <3> QED
      BY <1>2, <2>2, <3>1 DEF Bit
  <2> QED
    BY <2>1, <2>2
<1>6. Cardinality(T) = Cardinality(R) + Bit(t \in T)
  <2>1. CASE t \in T
    <3>1. T = R \union {t}
      BY <1>4, <2>1
    <3> QED
      BY <1>3, <2>1, <3>1 DEF Bit
  <2>2. CASE t \notin T
    <3>1. T = R
      BY <1>4, <2>2
    <3> QED
      BY <1>2, <2>2, <3>1 DEF Bit
  <2> QED
    BY <2>1, <2>2
<1>7. Bit(t \in S) \in Int /\ Bit(t \in T) \in Int
  BY DEF Bit
<1> QED
  BY <1>2, <1>5, <1>6, <1>7

----------------------------------------------------------------------------
(* Induction, over families of numbers and of sets.                        *)

\* A family of numbers that has 0 and the successor of each member has them all.
LEMMA NumbersByInduction ==
    ASSUME NEW F \in SUBSET Nat, 0 \in F, \A n \in F : n + 1 \in F
    PROVE  F = Nat
<1> SUFFICES ASSUME Nat \ F # {} PROVE FALSE
  OBVIOUS
<1>1. PICK k \in Nat \ F : \A l \in Nat \ F : k <= l
  BY LeastExists
<1>2. k # 0 /\ k - 1 \in Nat /\ (k - 1) + 1 = k
  OBVIOUS
<1>3. k - 1 \in F
  BY <1>1, <1>2
<1> QED
  BY <1>2, <1>3

\* So has a family of parts of a finite set that a new member never leaves.
LEMMA SetsByInduction ==
    ASSUME NEW S, IsFiniteSet(S), NEW F, {} \in F,
           \A T \in SUBSET S, x \in S : T \in F /\ x \notin T => T \union {x} \in F
    PROVE  S \in F
<1> DEFINE N == {n \in Nat : \A T \in SUBSET S : Cardinality(T) = n => T \in F}
<1>1. 0 \in N
  BY CountType, FS_EmptySet
<1>2. ASSUME NEW n \in N
      PROVE  n + 1 \in N
  <2> SUFFICES ASSUME NEW T \in SUBSET S, Cardinality(T) = n + 1
               PROVE  T \in F
    OBVIOUS
  <2>1. IsFiniteSet(T) /\ T # {}
    BY CountType, FS_EmptySet
  <2>2. PICK x \in T : TRUE
    BY <2>1
  <2>3. Cardinality(T \ {x}) = n
    <3>1. Cardinality(T \ {x}) = Cardinality(T) - 1
      BY <2>1, FS_RemoveElement
    <3> QED
      BY <3>1
  <2>4. T \ {x} \in F /\ (T \ {x}) \union {x} = T
    BY <2>3
  <2>5. T \ {x} \in SUBSET S /\ x \in S /\ x \notin T \ {x}
    OBVIOUS
  <2> QED
    BY <2>4, <2>5
<1>3. N = Nat
  <2> HIDE DEF N
  <2>1. N \in SUBSET Nat
    BY DEF N
  <2> QED
    BY <1>1, <1>2, <2>1, NumbersByInduction
<1>4. Cardinality(S) \in N
  BY <1>3, CountType
<1> QED
  BY <1>4

----------------------------------------------------------------------------
(* Sums.                                                                   *)

\* One step of the recursion that adds f over the members of T.
Adding(f, g, T) == IF T = {} THEN 0
                 ELSE LET x == CHOOSE y \in T : TRUE IN f[x] + g[T \ {x}]

\* g is that recursion on the parts of S.
IsSum(f, g, S) == g = [T \in SUBSET S |-> Adding(f, g, T)]

SmallParts(S, n) == {T \in SUBSET S : Cardinality(T) <= n}

\* The recursion has a solution, size after size.
LEMMA SumExists ==
    ASSUME NEW S, IsFiniteSet(S), NEW f
    PROVE  \E g : IsSum(f, g, S)
<1> DEFINE P(n) == \E g : g = [T \in SmallParts(S, n) |-> Adding(f, g, T)]
           N == {n \in Nat : P(n)}
<1>1. P(0)
  <2> DEFINE g == [T \in SmallParts(S, 0) |-> 0]
  <2>1. \A T \in SmallParts(S, 0) : T = {}
    <3> TAKE T \in SmallParts(S, 0)
    <3>1. IsFiniteSet(T) /\ Cardinality(T) \in Nat
      BY CountType DEF SmallParts
    <3>2. Cardinality(T) = 0
      BY <3>1 DEF SmallParts
    <3> QED
      BY <3>1, <3>2, FS_EmptySet
  <2>2. g = [T \in SmallParts(S, 0) |-> Adding(f, g, T)]
    BY <2>1 DEF Adding
  <2> QED
    BY <2>2
<1>2. ASSUME NEW n \in Nat, P(n)
      PROVE  P(n + 1)
  <2>1. PICK g : g = [T \in SmallParts(S, n) |-> Adding(f, g, T)]
    BY <1>2
  <2> DEFINE h == [T \in SmallParts(S, n + 1) |-> Adding(f, g, T)]
  <2>2. ASSUME NEW T \in SmallParts(S, n + 1), T # {}
        PROVE  h[T \ {CHOOSE y \in T : TRUE}] = g[T \ {CHOOSE y \in T : TRUE}]
    <3> DEFINE x == CHOOSE y \in T : TRUE
               U == T \ {x}
    <3>1. x \in T
      BY <2>2
    <3>2. IsFiniteSet(T) /\ Cardinality(T) \in Nat /\ Cardinality(T) <= n + 1
      BY CountType DEF SmallParts
    <3>3. Cardinality(U) = Cardinality(T) - 1
      BY <3>1, <3>2, FS_RemoveElement
    <3>4. U \in SmallParts(S, n) /\ U \in SmallParts(S, n + 1)
      BY <3>2, <3>3 DEF SmallParts
    <3>5. g[U] = Adding(f, g, U)
      BY <2>1, <3>4
    <3> QED
      BY <3>4, <3>5
  <2>3. ASSUME NEW T \in SmallParts(S, n + 1)
        PROVE  h[T] = Adding(f, h, T)
    <3>1. h[T] = Adding(f, g, T)
      OBVIOUS
    <3> HIDE DEF h
    <3>2. CASE T = {}
      BY <3>1, <3>2 DEF Adding
    <3>3. CASE T # {}
      <4>1. h[T \ {CHOOSE y \in T : TRUE}] = g[T \ {CHOOSE y \in T : TRUE}]
        BY <2>2, <3>3
      <4> QED
        BY <3>1, <3>3, <4>1 DEF Adding
    <3> QED
      BY <3>2, <3>3
  <2>4. h = [T \in SmallParts(S, n + 1) |-> Adding(f, h, T)]
    BY <2>3
  <2> HIDE DEF h
  <2> QED
    BY <2>4
<1>3. N = Nat
  <2> HIDE DEF P
  <2>1. 0 \in N /\ \A n \in N : n + 1 \in N
    BY <1>1, <1>2
  <2> QED
    BY <2>1, NumbersByInduction
<1>4. Cardinality(S) \in N
  BY <1>3, FS_CardinalityType
<1>5. SmallParts(S, Cardinality(S)) = SUBSET S
  BY FS_Subset DEF SmallParts
<1>6. P(Cardinality(S))
  <2> HIDE DEF P
  <2> QED
    BY <1>4
<1> QED
  BY <1>5, <1>6 DEF IsSum

\* SumFunctionOnSet of the community modules is that solution.
LEMMA SumIs ==
    ASSUME NEW S, IsFiniteSet(S), NEW f
    PROVE  \E g : IsSum(f, g, S) /\ SumFunctionOnSet(f, S) = g[S]
<1> DEFINE Q(g) == g = [T \in SUBSET S |-> Adding(f, g, T)]
           c == CHOOSE g : Q(g)
<1>1. Q(c)
  BY SumExists DEF IsSum
<1>2. SumFunctionOnSet(f, S) = c[S]
  BY DEF SumFunctionOnSet, FoldFunctionOnSet, MapThenFoldSet, Adding
<1> QED
  BY <1>1, <1>2 DEF IsSum

LEMMA SumUnfold ==
    ASSUME NEW S, NEW f, NEW g, IsSum(f, g, S), NEW T \in SUBSET S, T # {}
    PROVE  \E x \in T : x = (CHOOSE y \in T : TRUE) /\ g[T] = f[x] + g[T \ {x}]
<1> DEFINE x == CHOOSE y \in T : TRUE
<1>1. x \in T
  OBVIOUS
<1>2. g[T] = f[x] + g[T \ {x}]
  BY DEF IsSum, Adding
<1> QED
  BY <1>1, <1>2

\* The members may be added in any order.
LEMMA SumAny ==
    ASSUME NEW S, IsFiniteSet(S), NEW f, \A x \in S : f[x] \in Int,
           NEW g, IsSum(f, g, S)
    PROVE  \A T \in SUBSET S : /\ g[T] \in Int
                               /\ \A x \in T : g[T] = f[x] + g[T \ {x}]
<1> DEFINE Good(T) == g[T] \in Int /\ \A x \in T : g[T] = f[x] + g[T \ {x}]
           N == {n \in Nat : \A T \in SUBSET S : Cardinality(T) <= n => Good(T)}
<1>1. ASSUME NEW T \in SUBSET S,
             \A U \in SUBSET S : Cardinality(U) < Cardinality(T) => Good(U)
      PROVE  Good(T)
  <2>1. CASE T = {}
    <3>1. g[T] = 0
      BY <2>1 DEF IsSum, Adding
    <3> QED
      BY <2>1, <3>1
  <2>2. CASE T # {}
    <3>1. PICK x \in T : g[T] = f[x] + g[T \ {x}]
      BY <2>2, SumUnfold
    <3>2. IsFiniteSet(T) /\ Cardinality(T) \in Nat
      BY CountType
    <3>3. \A y \in T : T \ {y} \in SUBSET S /\ Cardinality(T \ {y}) < Cardinality(T)
      <4> TAKE y \in T
      <4>1. Cardinality(T \ {y}) = Cardinality(T) - 1
        BY <3>2, FS_RemoveElement
      <4> QED
        BY <3>2, <4>1
    <3>4. \A y \in T : Good(T \ {y})
      <4> HIDE DEF Good
      <4> QED
        BY <1>1, <3>3
    <3>5. \A y \in T : f[y] \in Int
      OBVIOUS
    <3>6. g[T] \in Int
      BY <3>1, <3>4, <3>5
    <3>7. ASSUME NEW y \in T, y # x
          PROVE  g[T] = f[y] + g[T \ {y}]
      <4>1. g[T \ {x}] = f[y] + g[(T \ {x}) \ {y}]
        BY <3>4, <3>7
      <4>2. g[T \ {y}] = f[x] + g[(T \ {y}) \ {x}]
        BY <3>4, <3>7
      <4>3. (T \ {x}) \ {y} = (T \ {y}) \ {x}
        OBVIOUS
      <4>4. y \in T \ {x} /\ T \ {x} # {}
        BY <3>7
      <4>5. g[(T \ {x}) \ {y}] \in Int
        <5>1. (T \ {x}) \ {y} \in SUBSET S
          OBVIOUS
        <5>2. Cardinality((T \ {x}) \ {y}) < Cardinality(T)
          <6>1. IsFiniteSet(T \ {x}) /\ Cardinality(T \ {x}) \in Nat
            BY <3>3, CountType
          <6>2. Cardinality((T \ {x}) \ {y}) = Cardinality(T \ {x}) - 1
            BY <6>1, <4>4, FS_RemoveElement
          <6> QED
            BY <3>2, <3>3, <6>1, <6>2
        <5> QED
          BY <1>1, <5>1, <5>2
      <4>6. /\ g[T] = f[x] + (f[y] + g[(T \ {x}) \ {y}])
            /\ g[T \ {y}] = f[x] + g[(T \ {x}) \ {y}]
        BY <3>1, <4>1, <4>2, <4>3
      <4> QED
        BY <3>5, <4>5, <4>6
    <3> QED
      BY <3>1, <3>6, <3>7
  <2> QED
    BY <2>1, <2>2
<1> HIDE DEF Good
<1>2. 0 \in N
  <2> SUFFICES ASSUME NEW T \in SUBSET S, Cardinality(T) <= 0 PROVE Good(T)
    OBVIOUS
  <2>1. \A U \in SUBSET S : ~(Cardinality(U) < Cardinality(T))
    BY CountType
  <2> QED
    BY <1>1, <2>1
<1>3. ASSUME NEW n \in N PROVE n + 1 \in N
  <2> SUFFICES ASSUME NEW T \in SUBSET S, Cardinality(T) <= n + 1 PROVE Good(T)
    OBVIOUS
  <2>1. \A U \in SUBSET S : Cardinality(U) < Cardinality(T) => Cardinality(U) <= n
    BY CountType
  <2> QED
    BY <1>1, <2>1
<1>4. N = Nat
  BY <1>2, <1>3, NumbersByInduction
<1>5. Cardinality(S) \in N /\ \A T \in SUBSET S : Cardinality(T) <= Cardinality(S)
  BY <1>4, FS_CardinalityType, FS_Subset
<1> QED
  BY <1>5 DEF Good

\* Two solutions agree where both are defined, also for another f that is the same there.
LEMMA SumUnique ==
    ASSUME NEW S, IsFiniteSet(S), NEW f, NEW h, NEW U, S \subseteq U,
           \A x \in S : f[x] = h[x] /\ f[x] \in Int, \A x \in U : h[x] \in Int,
           IsFiniteSet(U), NEW g, IsSum(f, g, S), NEW k, IsSum(h, k, U)
    PROVE  g[S] = k[S]
<1> DEFINE F == {T \in SUBSET S : g[T] = k[T]}
<1>1. {} \in F
  BY DEF IsSum, Adding
<1>2. ASSUME NEW T \in SUBSET S, NEW x \in S, T \in F, x \notin T
      PROVE  T \union {x} \in F
  <2> DEFINE V == T \union {x}
  <2>1. V \in SUBSET S /\ V \in SUBSET U /\ x \in V /\ V \ {x} = T
    BY <1>2
  <2>2. g[V] = f[x] + g[V \ {x}]
    BY <2>1, SumAny
  <2>3. k[V] = h[x] + k[V \ {x}]
    BY <2>1, SumAny
  <2> QED
    BY <1>2, <2>1, <2>2, <2>3
<1>3. S \in F
  <2> HIDE DEF F
  <2> QED
    BY <1>1, <1>2, SetsByInduction
<1> QED
  BY <1>3

LEMMA SumEmpty ==
    ASSUME NEW f
    PROVE  SumFunctionOnSet(f, {}) = 0
<1>1. IsFiniteSet({})
  BY FS_EmptySet
<1>2. PICK g : IsSum(f, g, {}) /\ SumFunctionOnSet(f, {}) = g[{}]
  BY <1>1, SumIs
<1> QED
  BY <1>2 DEF IsSum, Adding

LEMMA SumType ==
    ASSUME NEW S, IsFiniteSet(S), NEW f, \A x \in S : f[x] \in Int
    PROVE  SumFunctionOnSet(f, S) \in Int
<1>1. PICK g : IsSum(f, g, S) /\ SumFunctionOnSet(f, S) = g[S]
  BY SumIs
<1>2. g[S] \in Int
  BY <1>1, SumAny
<1> QED
  BY <1>1, <1>2

\* Only the values on S count.
LEMMA SumSame ==
    ASSUME NEW S, IsFiniteSet(S), NEW f, NEW h,
           \A x \in S : f[x] = h[x] /\ f[x] \in Int
    PROVE  SumFunctionOnSet(f, S) = SumFunctionOnSet(h, S)
<1>1. PICK g : IsSum(f, g, S) /\ SumFunctionOnSet(f, S) = g[S]
  BY SumIs
<1>2. PICK k : IsSum(h, k, S) /\ SumFunctionOnSet(h, S) = k[S]
  BY SumIs
<1>3. g[S] = k[S]
  BY <1>1, <1>2, SumUnique
<1> QED
  BY <1>1, <1>2, <1>3

\* A new member adds its own value.
LEMMA SumInsert ==
    ASSUME NEW S, IsFiniteSet(S), NEW x, x \notin S, NEW f,
           \A y \in S \union {x} : f[y] \in Int
    PROVE  SumFunctionOnSet(f, S \union {x}) = f[x] + SumFunctionOnSet(f, S)
<1> DEFINE U == S \union {x}
<1>1. IsFiniteSet(U)
  BY FS_AddElement
<1>2. PICK g : IsSum(f, g, S) /\ SumFunctionOnSet(f, S) = g[S]
  BY SumIs
<1>3. PICK k : IsSum(f, k, U) /\ SumFunctionOnSet(f, U) = k[U]
  BY <1>1, SumIs
<1>4. g[S] = k[S]
  <2> HIDE DEF U
  <2>1. S \subseteq U /\ (\A y \in U : f[y] \in Int) /\ (\A y \in S : f[y] = f[y] /\ f[y] \in Int)
    BY DEF U
  <2> QED
    BY <1>1, <1>2, <1>3, <2>1, SumUnique
<1>5. k[U] = f[x] + k[U \ {x}]
  <2>1. x \in U /\ U \in SUBSET U /\ \A y \in U : f[y] \in Int
    OBVIOUS
  <2> HIDE DEF U
  <2> QED
    BY <1>1, <1>3, <2>1, SumAny
<1>6. U \ {x} = S
  OBVIOUS
<1> QED
  BY <1>2, <1>3, <1>4, <1>5, <1>6

Share(b, n) == IF b THEN n ELSE 0

\* How a sum changes when one member t joins, leaves or changes its value.
LEMMA SumStep ==
    ASSUME NEW U, IsFiniteSet(U), NEW S \in SUBSET U, NEW T \in SUBSET U, NEW t \in U,
           NEW f, NEW h, \A x \in S : f[x] \in Int, \A x \in T : h[x] \in Int,
           \A x \in U \ {t} : (x \in S <=> x \in T) /\ (x \in S => f[x] = h[x])
    PROVE  SumFunctionOnSet(h, T) + Share(t \in S, f[t])
               = SumFunctionOnSet(f, S) + Share(t \in T, h[t])
<1> DEFINE R == S \ {t}
<1>1. R = T \ {t} /\ R \in SUBSET U /\ t \notin R
  OBVIOUS
<1>2. \A x \in R : f[x] = h[x] /\ f[x] \in Int
  OBVIOUS
<1>3. /\ IF t \in S THEN S = R \union {t} ELSE S = R
      /\ IF t \in T THEN T = R \union {t} ELSE T = R
  BY <1>1
<1> HIDE DEF R
<1>4. IsFiniteSet(R)
  BY <1>1, CountType
<1>5. SumFunctionOnSet(f, R) = SumFunctionOnSet(h, R) /\ SumFunctionOnSet(f, R) \in Int
  BY <1>2, <1>4, SumSame, SumType
<1>6. SumFunctionOnSet(f, S) = SumFunctionOnSet(f, R) + Share(t \in S, f[t])
  <2>1. CASE t \in S
    <3>1. SumFunctionOnSet(f, R \union {t}) = f[t] + SumFunctionOnSet(f, R)
      BY <1>1, <1>3, <1>4, <2>1, SumInsert
    <3>2. f[t] \in Int /\ Share(t \in S, f[t]) = f[t]
      BY <2>1 DEF Share
    <3>3. S = R \union {t}
      BY <1>3, <2>1
    <3> QED
      BY <1>5, <3>1, <3>2, <3>3
  <2>2. CASE t \notin S
    BY <1>3, <1>5, <2>2 DEF Share
  <2> QED
    BY <2>1, <2>2
<1>7. SumFunctionOnSet(h, T) = SumFunctionOnSet(h, R) + Share(t \in T, h[t])
  <2>1. CASE t \in T
    <3>1. SumFunctionOnSet(h, R \union {t}) = h[t] + SumFunctionOnSet(h, R)
      BY <1>1, <1>3, <1>4, <2>1, SumInsert
    <3>2. h[t] \in Int /\ Share(t \in T, h[t]) = h[t]
      BY <2>1 DEF Share
    <3>3. T = R \union {t}
      BY <1>3, <2>1
    <3> QED
      BY <1>5, <3>1, <3>2, <3>3
  <2>2. CASE t \notin T
    BY <1>3, <1>5, <2>2 DEF Share
  <2> QED
    BY <2>1, <2>2
<1>8. Share(t \in S, f[t]) \in Int /\ Share(t \in T, h[t]) \in Int
  BY DEF Share
<1> QED
  BY <1>5, <1>6, <1>7, <1>8

\* A sum of natural numbers is one.
LEMMA SumNat ==
    ASSUME NEW S, IsFiniteSet(S), NEW f, \A x \in S : f[x] \in Nat
    PROVE  SumFunctionOnSet(f, S) \in Nat
<1> DEFINE F == {T \in SUBSET S : SumFunctionOnSet(f, T) \in Nat}
<1>1. {} \in F
  BY SumEmpty
<1>2. ASSUME NEW T \in SUBSET S, NEW x \in S, T \in F, x \notin T
      PROVE  T \union {x} \in F
  <2>1. SumFunctionOnSet(f, T \union {x}) = f[x] + SumFunctionOnSet(f, T)
    <3>1. IsFiniteSet(T) /\ \A y \in T \union {x} : f[y] \in Int
      BY CountType
    <3> QED
      BY <1>2, <3>1, SumInsert
  <2> QED
    BY <1>2, <2>1
<1>3. S \in F
  <2> HIDE DEF F
  <2> QED
    BY <1>1, <1>2, SetsByInduction
<1> QED
  BY <1>3

\* A sum of zeros is zero.
LEMMA SumZero ==
    ASSUME NEW S, IsFiniteSet(S), NEW f, \A x \in S : f[x] = 0
    PROVE  SumFunctionOnSet(f, S) = 0
<1> DEFINE F == {T \in SUBSET S : SumFunctionOnSet(f, T) = 0}
<1>1. {} \in F
  BY SumEmpty
<1>2. ASSUME NEW T \in SUBSET S, NEW x \in S, T \in F, x \notin T
      PROVE  T \union {x} \in F
  <2>1. SumFunctionOnSet(f, T \union {x}) = f[x] + SumFunctionOnSet(f, T)
    <3>1. IsFiniteSet(T) /\ \A y \in T \union {x} : f[y] \in Int
      BY CountType
    <3> QED
      BY <1>2, <3>1, SumInsert
  <2> QED
    BY <1>2, <2>1
<1>3. S \in F
  <2> HIDE DEF F
  <2> QED
    BY <1>1, <1>2, SetsByInduction
<1> QED
  BY <1>3

\* More members, a greater sum.
LEMMA SumMore ==
    ASSUME NEW T, IsFiniteSet(T), NEW S \in SUBSET T, NEW f, \A x \in T : f[x] \in Nat
    PROVE  SumFunctionOnSet(f, S) <= SumFunctionOnSet(f, T)
<1> DEFINE R == T \ S
           F == {Q \in SUBSET R : SumFunctionOnSet(f, S) <= SumFunctionOnSet(f, S \union Q)}
<1>1. IsFiniteSet(S) /\ IsFiniteSet(R)
  BY FS_Subset
<1>2. SumFunctionOnSet(f, S) \in Nat
  BY <1>1, SumNat
<1>3. {} \in F
  <2>1. S \union {} = S /\ {} \in SUBSET R
    OBVIOUS
  <2> QED
    BY <1>2, <2>1
<1>4. ASSUME NEW Q \in SUBSET R, NEW x \in R, Q \in F, x \notin Q
      PROVE  Q \union {x} \in F
  <2> DEFINE P == S \union Q
  <2>1. P \in SUBSET T /\ x \notin P /\ x \in T /\ S \union (Q \union {x}) = P \union {x}
    BY <1>4
  <2>2. SumFunctionOnSet(f, S) <= SumFunctionOnSet(f, P)
    BY <1>4
  <2> HIDE DEF P
  <2>3. IsFiniteSet(P) /\ \A y \in P \union {x} : f[y] \in Int
    BY <2>1, FS_Subset
  <2>4. SumFunctionOnSet(f, P \union {x}) = f[x] + SumFunctionOnSet(f, P)
    BY <2>1, <2>3, SumInsert
  <2>5. SumFunctionOnSet(f, P) \in Nat /\ f[x] \in Nat
    <3>1. \A y \in P : f[y] \in Nat
      BY <2>1
    <3> QED
      BY <2>1, <2>3, <3>1, SumNat
  <2>6. SumFunctionOnSet(f, S) <= SumFunctionOnSet(f, P \union {x})
    BY <1>2, <2>2, <2>4, <2>5
  <2>7. SumFunctionOnSet(f, S) <= SumFunctionOnSet(f, S \union (Q \union {x}))
    BY <2>1, <2>6
  <2> QED
    BY <2>7
<1>5. R \in F
  <2> HIDE DEF F
  <2> QED
    BY <1>1, <1>3, <1>4, SetsByInduction
<1>6. S \union R = T
  OBVIOUS
<1> QED
  BY <1>5, <1>6

\* Sums over sets that share no member add up.
LEMMA SumUnion ==
    ASSUME NEW S, IsFiniteSet(S), NEW R, IsFiniteSet(R), S \cap R = {},
           NEW f, \A x \in S \union R : f[x] \in Int
    PROVE  SumFunctionOnSet(f, S \union R) = SumFunctionOnSet(f, S) + SumFunctionOnSet(f, R)
<1> DEFINE F == {Q \in SUBSET R : SumFunctionOnSet(f, S \union Q)
                                      = SumFunctionOnSet(f, S) + SumFunctionOnSet(f, Q)}
<1>1. {} \in F
  <2>1. S \union {} = S /\ SumFunctionOnSet(f, {}) = 0 /\ SumFunctionOnSet(f, S) \in Int
    BY SumEmpty, SumType
  <2> QED
    BY <2>1
<1>2. ASSUME NEW Q \in SUBSET R, NEW x \in R, Q \in F, x \notin Q
      PROVE  Q \union {x} \in F
  <2> DEFINE P == S \union Q
  <2>1. /\ x \notin P /\ S \union (Q \union {x}) = P \union {x}
        /\ \A y \in P \union {x} : f[y] \in Int
        /\ \A y \in Q \union {x} : f[y] \in Int
    BY <1>2
  <2>2. SumFunctionOnSet(f, P) = SumFunctionOnSet(f, S) + SumFunctionOnSet(f, Q)
    BY <1>2
  <2>3. IsFiniteSet(Q) /\ IsFiniteSet(P)
    <3>1. IsFiniteSet(Q)
      BY FS_Subset
    <3> QED
      BY <3>1, FS_Union
  <2> HIDE DEF P
  <2>4. /\ SumFunctionOnSet(f, P \union {x}) = f[x] + SumFunctionOnSet(f, P)
        /\ SumFunctionOnSet(f, Q \union {x}) = f[x] + SumFunctionOnSet(f, Q)
    BY <1>2, <2>1, <2>3, SumInsert
  <2>5. SumFunctionOnSet(f, S) \in Int /\ SumFunctionOnSet(f, Q) \in Int /\ f[x] \in Int
    BY <2>1, <2>3, SumType
  <2>6. SumFunctionOnSet(f, P \union {x}) = SumFunctionOnSet(f, S) + SumFunctionOnSet(f, Q \union {x})
    BY <2>2, <2>4, <2>5
  <2> QED
    BY <2>1, <2>6
<1>3. R \in F
  <2> HIDE DEF F
  <2> QED
    BY <1>1, <1>2, SetsByInduction
<1> QED
  BY <1>3

\* Members that count for nothing may be left out.
LEMMA SumSupport ==
    ASSUME NEW T, IsFiniteSet(T), NEW S \in SUBSET T, NEW f, \A x \in S : f[x] \in Int,
           \A x \in T \ S : f[x] = 0
    PROVE  SumFunctionOnSet(f, T) = SumFunctionOnSet(f, S)
<1> DEFINE R == T \ S
<1>1. IsFiniteSet(S) /\ IsFiniteSet(R) /\ S \cap R = {} /\ S \union R = T
  BY FS_Subset
<1>2. \A x \in S \union R : f[x] \in Int
  OBVIOUS
<1>3. SumFunctionOnSet(f, R) = 0 /\ SumFunctionOnSet(f, S) \in Int
  BY <1>1, SumZero, SumType
<1> HIDE DEF R
<1>4. SumFunctionOnSet(f, S \union R) = SumFunctionOnSet(f, S) + SumFunctionOnSet(f, R)
  BY <1>1, <1>2, SumUnion
<1>5. SumFunctionOnSet(f, T) = SumFunctionOnSet(f, S) + SumFunctionOnSet(f, R)
  BY <1>1, <1>4, Zenon
<1> QED
  BY <1>3, <1>5

\* The sum of the sums is the sum over both.
LEMMA SumPlus ==
    ASSUME NEW S, IsFiniteSet(S), NEW f, NEW h, NEW k,
           \A x \in S : f[x] \in Int /\ h[x] \in Int /\ k[x] = f[x] + h[x]
    PROVE  SumFunctionOnSet(k, S) = SumFunctionOnSet(f, S) + SumFunctionOnSet(h, S)
<1> DEFINE F == {Q \in SUBSET S : SumFunctionOnSet(k, Q)
                                      = SumFunctionOnSet(f, Q) + SumFunctionOnSet(h, Q)}
<1>1. {} \in F
  BY SumEmpty
<1>2. ASSUME NEW Q \in SUBSET S, NEW x \in S, Q \in F, x \notin Q
      PROVE  Q \union {x} \in F
  <2>1. /\ IsFiniteSet(Q)
        /\ \A y \in Q \union {x} : f[y] \in Int
        /\ \A y \in Q \union {x} : h[y] \in Int
        /\ \A y \in Q \union {x} : k[y] \in Int
    BY FS_Subset
  <2>2. /\ SumFunctionOnSet(f, Q \union {x}) = f[x] + SumFunctionOnSet(f, Q)
        /\ SumFunctionOnSet(h, Q \union {x}) = h[x] + SumFunctionOnSet(h, Q)
        /\ SumFunctionOnSet(k, Q \union {x}) = k[x] + SumFunctionOnSet(k, Q)
    BY <1>2, <2>1, SumInsert
  <2>3. /\ SumFunctionOnSet(f, Q) \in Int /\ SumFunctionOnSet(h, Q) \in Int
        /\ f[x] \in Int /\ h[x] \in Int /\ k[x] = f[x] + h[x]
    BY <2>1, SumType
  <2>4. SumFunctionOnSet(k, Q) = SumFunctionOnSet(f, Q) + SumFunctionOnSet(h, Q)
    BY <1>2
  <2> QED
    BY <2>2, <2>3, <2>4
<1>3. S \in F
  <2> HIDE DEF F
  <2> QED
    BY <1>1, <1>2, SetsByInduction
<1> QED
  BY <1>3

\* A sum does not mind other names for its members.
LEMMA SumImage ==
    ASSUME NEW S, IsFiniteSet(S), NEW g, \A x, y \in S : g[x] = g[y] => x = y,
           NEW f, NEW h, \A x \in S : f[x] \in Int /\ h[g[x]] = f[x]
    PROVE  SumFunctionOnSet(h, {g[x] : x \in S}) = SumFunctionOnSet(f, S)
<1> DEFINE Image(Q) == {g[x] : x \in Q}
           F == {Q \in SUBSET S : /\ IsFiniteSet(Image(Q))
                                  /\ SumFunctionOnSet(h, Image(Q)) = SumFunctionOnSet(f, Q)}
<1>1. {} \in F
  <2>1. Image({}) = {}
    OBVIOUS
  <2> QED
    BY <2>1, SumEmpty, FS_EmptySet
<1>2. ASSUME NEW Q \in SUBSET S, NEW x \in S, Q \in F, x \notin Q
      PROVE  Q \union {x} \in F
  <2>1. Image(Q \union {x}) = Image(Q) \union {g[x]} /\ g[x] \notin Image(Q)
    BY <1>2
  <2>2. IsFiniteSet(Q) /\ IsFiniteSet(Image(Q))
    <3>1. IsFiniteSet(Q)
      BY FS_Subset
    <3> QED
      BY <1>2, <3>1
  <2>3. \A y \in Image(Q) \union {g[x]} : h[y] \in Int
    OBVIOUS
  <2>4. \A y \in Q \union {x} : f[y] \in Int
    OBVIOUS
  <2>5. SumFunctionOnSet(h, Image(Q)) = SumFunctionOnSet(f, Q) /\ h[g[x]] = f[x]
    BY <1>2
  <2> HIDE DEF Image
  <2>6. SumFunctionOnSet(h, Image(Q) \union {g[x]}) = h[g[x]] + SumFunctionOnSet(h, Image(Q))
    BY <2>1, <2>2, <2>3, SumInsert
  <2>7. SumFunctionOnSet(f, Q \union {x}) = f[x] + SumFunctionOnSet(f, Q)
    BY <1>2, <2>2, <2>4, SumInsert
  <2>8. SumFunctionOnSet(h, Image(Q \union {x})) = SumFunctionOnSet(h, Image(Q) \union {g[x]})
    BY <2>1, Zenon
  <2>9. IsFiniteSet(Image(Q \union {x}))
    <3>1. IsFiniteSet(Image(Q) \union {g[x]})
      BY <2>2, FS_AddElement
    <3> QED
      BY <2>1, <3>1, Zenon
  <2> QED
    BY <2>5, <2>6, <2>7, <2>8, <2>9
<1>3. S \in F
  <2> HIDE DEF F
  <2> QED
    BY <1>1, <1>2, SetsByInduction
<1> QED
  BY <1>3

\* A sum of the same number, over and over.
LEMMA SumSameValue ==
    ASSUME NEW S, IsFiniteSet(S), NEW v \in Int, NEW f, \A x \in S : f[x] = v
    PROVE  SumFunctionOnSet(f, S) = Cardinality(S) * v
<1> DEFINE F == {Q \in SUBSET S : SumFunctionOnSet(f, Q) = Cardinality(Q) * v}
<1>1. {} \in F
  BY SumEmpty, FS_EmptySet
<1>2. ASSUME NEW Q \in SUBSET S, NEW x \in S, Q \in F, x \notin Q
      PROVE  Q \union {x} \in F
  <2>1. IsFiniteSet(Q) /\ Cardinality(Q) \in Nat /\ \A y \in Q \union {x} : f[y] \in Int
    BY CountType
  <2>2. SumFunctionOnSet(f, Q \union {x}) = f[x] + SumFunctionOnSet(f, Q)
    BY <1>2, <2>1, SumInsert
  <2>3. Cardinality(Q \union {x}) = Cardinality(Q) + 1
    BY <1>2, <2>1, FS_AddElement
  <2>4. (Cardinality(Q) + 1) * v = v + Cardinality(Q) * v
    <3> DEFINE n == Cardinality(Q)
    <3>1. n \in Int
      BY <2>1
    <3> HIDE DEF n
    <3>2. (n + 1) * v = v + n * v
      BY <3>1
    <3> QED
      BY <3>2 DEF n
  <2> QED
    BY <1>2, <2>2, <2>3, <2>4
<1>3. S \in F
  <2> HIDE DEF F
  <2> QED
    BY <1>1, <1>2, SetsByInduction
<1> QED
  BY <1>3

\* f counts the members of S, and t what they stand for: a member x stands for
\* key[x], and those that stand for c, n[c], count w[c] each.
CountedByKey(S, key, K, n, w, f, t) ==
    /\ \A c \in K : \A x : x \in n[c] <=> x \in S /\ key[x] = c
    /\ \A c \in K : w[c] \in Int /\ t[c] = Cardinality(n[c]) * w[c]
    /\ \A x \in S : key[x] \in K => f[x] = w[key[x]]

\* What is added up member by member may be added up by what the members stand for.
LEMMA SumByKey ==
    ASSUME NEW S, IsFiniteSet(S), NEW K, IsFiniteSet(K), NEW key, NEW n, NEW w, NEW f, NEW t,
           CountedByKey(S, key, K, n, w, f, t)
    PROVE  SumFunctionOnSet(f, {x \in S : key[x] \in K}) = SumFunctionOnSet(t, K)
<1> USE DEF CountedByKey
<1> DEFINE With(Q) == {x \in S : key[x] \in Q}
           F == {Q \in SUBSET K : SumFunctionOnSet(f, With(Q)) = SumFunctionOnSet(t, Q)}
<1>0. \A c \in K : t[c] \in Int
  <2> TAKE c \in K
  <2>1. n[c] \subseteq S
    OBVIOUS
  <2>2. Cardinality(n[c]) \in Nat
    BY <2>1, FS_Subset, CountType
  <2> QED
    BY <2>2
<1>1. {} \in F
  <2>1. With({}) = {}
    OBVIOUS
  <2> QED
    BY <2>1, SumEmpty
<1>2. ASSUME NEW Q \in SUBSET K, NEW c \in K, Q \in F, c \notin Q
      PROVE  Q \union {c} \in F
  <2> DEFINE one == n[c]
  <2>1. With(Q \union {c}) = With(Q) \union one /\ With(Q) \cap one = {}
    BY <1>2
  <2>2. IsFiniteSet(With(Q)) /\ IsFiniteSet(one) /\ IsFiniteSet(Q)
    BY FS_Subset
  <2>3. \A x \in With(Q) \union one : f[x] \in Int
    OBVIOUS
  <2>4. \A x \in one : f[x] = w[c]
    OBVIOUS
  <2>5. SumFunctionOnSet(f, With(Q)) = SumFunctionOnSet(t, Q) /\ t[c] = Cardinality(one) * w[c]
    BY <1>2
  <2>6. w[c] \in Int /\ \A d \in Q \union {c} : t[d] \in Int
    BY <1>0
  <2> HIDE DEF With, one
  <2>7. SumFunctionOnSet(f, With(Q) \union one) = SumFunctionOnSet(f, With(Q)) + SumFunctionOnSet(f, one)
    BY <2>1, <2>2, <2>3, SumUnion
  <2>8. SumFunctionOnSet(f, one) = Cardinality(one) * w[c]
    BY <2>2, <2>4, <2>6, SumSameValue
  <2>9. SumFunctionOnSet(t, Q \union {c}) = t[c] + SumFunctionOnSet(t, Q)
    BY <1>2, <2>2, <2>6, SumInsert
  <2>10. SumFunctionOnSet(t, Q) \in Int
    BY <2>2, <2>6, SumType
  <2>11. SumFunctionOnSet(f, With(Q \union {c})) = SumFunctionOnSet(f, With(Q) \union one)
    BY <2>1, Zenon
  <2> QED
    BY <2>5, <2>6, <2>7, <2>8, <2>9, <2>10, <2>11
<1>3. K \in F
  <2> HIDE DEF F
  <2> QED
    BY <1>1, <1>2, SetsByInduction
<1> QED
  BY <1>3
=============================================================================

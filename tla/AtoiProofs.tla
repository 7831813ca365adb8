----------------------------- MODULE AtoiProofs -----------------------------
(***************************************************************************)
(* Proofs about Atoi, for every string and any widths, and what they rest  *)
(* on: induction over sets of numbers, and folds over finite sets.         *)
(***************************************************************************)
EXTENDS Atoi, TokeniserProofs, FiniteSetTheorems

-----------------------------------------------------------------------------
(* Induction.                                                              *)

\* What holds of 0, and of n + 1 where it holds of n, holds of every number.
LEMMA NumbersByInduction ==
  ASSUME NEW P \in SUBSET Nat, 0 \in P, \A n \in P : n + 1 \in P
  PROVE  P = Nat
<1> SUFFICES ASSUME P # Nat PROVE FALSE
  OBVIOUS
<1> DEFINE H == Nat \ P
<1>1. H \in SUBSET Nat /\ H # {}
  OBVIOUS
<1>2. PICK m \in H : \A j \in H : m <= j
  BY <1>1, SmallestIsMember
<1>3. m # 0 /\ m - 1 \in Nat /\ (m - 1) + 1 = m /\ ~(m <= m - 1)
  OBVIOUS
<1>4. m - 1 \in P
  BY <1>2, <1>3
<1> QED
  BY <1>2, <1>3, <1>4

\* A bounded set of numbers that is not empty has a largest element.
LEMMA LargestIsMember ==
  ASSUME NEW H \in SUBSET Nat, H # {}, NEW n \in Nat, \A j \in H : j <= n
  PROVE  Max(H) \in H /\ \A j \in H : Max(H) >= j
<1> DEFINE U == {k \in Nat : \A j \in H : j <= k}
<1>1. U \in SUBSET Nat /\ U # {}
  BY n \in U
<1>2. PICK m \in U : \A k \in U : m <= k
  BY <1>1, SmallestIsMember
<1>3. m \in H
  <2> SUFFICES ASSUME m \notin H PROVE FALSE
    OBVIOUS
  <2>1. \A j \in H : j < m
    OBVIOUS
  <2>2. m - 1 \in Nat /\ ~(m <= m - 1)
    <3>1. PICK j \in H : TRUE
      OBVIOUS
    <3>2. j \in Nat /\ m \in Nat /\ j < m
      BY <2>1
    <3> QED
      BY <3>2
  <2>3. m - 1 \in U
    BY <2>1, <2>2
  <2> QED
    BY <1>2, <2>2, <2>3
<1>4. m \in H /\ \A j \in H : m >= j
  BY <1>3
<1> QED
  BY <1>4 DEF Max

\* Taking one element off makes a finite set smaller by one.
LEMMA OneLess ==
  ASSUME NEW S, IsFiniteSet(S), NEW T \in SUBSET S, NEW x \in T
  PROVE  /\ T \ {x} \in SUBSET S
         /\ Cardinality(T) \in Nat \ {0} /\ Cardinality(T \ {x}) \in Nat
         /\ Cardinality(T \ {x}) = Cardinality(T) - 1
<1>1. IsFiniteSet(T)
  BY FS_Subset
<1>2. Cardinality(T) \in Nat /\ Cardinality(T) # 0
  BY <1>1, FS_CardinalityType, FS_EmptySet
<1>3. Cardinality(T \ {x}) = Cardinality(T) - 1
  BY <1>1, FS_RemoveElement
<1> QED
  BY <1>2, <1>3

\* What is folded first, and what is made of it and the value for the others.
Picks(pick, S) == \A T \in SUBSET S : T # {} => pick[T] \in T

Steps(step, S, V) == \A x \in S : \A v \in V : step[x][v] \in V

\* it is the fold of every subset of S.
Folds(it, S, base, pick, step) ==
  \A T \in SUBSET S :
    it[T] = IF T = {} THEN base ELSE step[pick[T]][it[T \ {pick[T]}]]

\* A finite set can be folded, whatever is taken first,
LEMMA FoldExists ==
  ASSUME NEW S, IsFiniteSet(S), NEW V, NEW base \in V, NEW pick, Picks(pick, S),
         NEW step, Steps(step, S, V)
  PROVE  \E it \in [SUBSET S -> V] : Folds(it, S, base, pick, step)
<1> DEFINE Value(g, T) == IF T = {} THEN base ELSE step[pick[T]][g[T \ {pick[T]}]]
           Upto(g, n) == \A T \in SUBSET S : Cardinality(T) <= n => g[T] = Value(g, T)
           P == {n \in Nat : \E g \in [SUBSET S -> V] : Upto(g, n)}
<1> USE DEF Picks, Steps
<1>1. ASSUME NEW g \in [SUBSET S -> V], NEW T \in SUBSET S PROVE Value(g, T) \in V
  OBVIOUS
<1>2. ASSUME NEW T \in SUBSET S, T # {}
      PROVE  /\ T \ {pick[T]} \in SUBSET S
             /\ Cardinality(T) \in Nat \ {0} /\ Cardinality(T \ {pick[T]}) \in Nat
             /\ Cardinality(T \ {pick[T]}) = Cardinality(T) - 1
  BY <1>2, OneLess
<1>3. 0 \in P
  <2> DEFINE g == [T \in SUBSET S |-> base]
  <2>1. g \in [SUBSET S -> V]
    OBVIOUS
  <2>2. Upto(g, 0)
    <3> SUFFICES ASSUME NEW T \in SUBSET S, Cardinality(T) <= 0 PROVE g[T] = Value(g, T)
      OBVIOUS
    <3>1. T # {} => Cardinality(T) \in Nat \ {0}
      BY <1>2
    <3>2. T = {}
      BY <3>1
    <3> QED
      BY <3>2
  <2> QED
    BY <2>1, <2>2
<1>4. ASSUME NEW n \in P PROVE n + 1 \in P
  <2>1. PICK g \in [SUBSET S -> V] : Upto(g, n)
    OBVIOUS
  <2> DEFINE h == [T \in SUBSET S |-> Value(g, T)]
  <2> HIDE DEF Value
  <2>2. h \in [SUBSET S -> V] /\ \A T \in SUBSET S : h[T] = Value(g, T)
    BY <1>1
  <2> HIDE DEF h
  <2>3. ASSUME NEW T \in SUBSET S, Cardinality(T) <= n + 1 PROVE h[T] = Value(h, T)
    <3>1. CASE T = {}
      BY <2>2, <3>1 DEF Value
    <3>2. CASE T # {}
      <4>1. T \ {pick[T]} \in SUBSET S /\ Cardinality(T \ {pick[T]}) <= n
        BY <1>2, <2>3, <3>2
      <4>2. h[T \ {pick[T]}] = g[T \ {pick[T]}]
        BY <2>1, <2>2, <4>1
      <4> QED
        BY <2>2, <3>2, <4>2 DEF Value
    <3> QED
      BY <3>1, <3>2
  <2> QED
    BY <2>2, <2>3
<1>5. Cardinality(S) \in P
  <2>1. Cardinality(S) \in Nat
    BY FS_CardinalityType
  <2>2. P = Nat
    <3> HIDE DEF P
    <3>1. P \in SUBSET Nat
      BY DEF P
    <3> QED
      BY <1>3, <1>4, <3>1, NumbersByInduction
  <2> QED
    BY <2>1, <2>2
<1>6. PICK g \in [SUBSET S -> V] : Upto(g, Cardinality(S))
  BY <1>5
<1>7. ASSUME NEW T \in SUBSET S PROVE Cardinality(T) <= Cardinality(S)
  BY FS_Subset
<1> QED
  BY <1>6, <1>7 DEF Folds

\* in one way.
LEMMA FoldIsUnique ==
  ASSUME NEW S, IsFiniteSet(S), NEW base, NEW pick, Picks(pick, S), NEW step,
         NEW it, Folds(it, S, base, pick, step),
         NEW jt, Folds(jt, S, base, pick, step)
  PROVE  \A T \in SUBSET S : it[T] = jt[T]
<1> USE DEF Picks, Folds
<1> DEFINE P == {n \in Nat : \A T \in SUBSET S : Cardinality(T) <= n => it[T] = jt[T]}
<1>1. ASSUME NEW T \in SUBSET S, T # {}
      PROVE  /\ T \ {pick[T]} \in SUBSET S
             /\ Cardinality(T) \in Nat \ {0} /\ Cardinality(T \ {pick[T]}) \in Nat
             /\ Cardinality(T \ {pick[T]}) = Cardinality(T) - 1
  BY <1>1, OneLess
<1>2. 0 \in P
  <2> SUFFICES ASSUME NEW T \in SUBSET S, Cardinality(T) <= 0 PROVE it[T] = jt[T]
    OBVIOUS
  <2>1. T # {} => Cardinality(T) \in Nat \ {0}
    BY <1>1
  <2>2. T = {}
    BY <2>1
  <2> QED
    BY <2>2
<1>3. ASSUME NEW n \in P PROVE n + 1 \in P
  <2> SUFFICES ASSUME NEW T \in SUBSET S, Cardinality(T) <= n + 1 PROVE it[T] = jt[T]
    OBVIOUS
  <2>1. CASE T # {}
    <3>1. T \ {pick[T]} \in SUBSET S /\ Cardinality(T \ {pick[T]}) <= n
      BY <1>1, <2>1
    <3>2. it[T \ {pick[T]}] = jt[T \ {pick[T]}]
      BY <3>1
    <3> QED
      BY <2>1, <3>2
  <2> QED
    BY <2>1
<1>4. P = Nat
  <2> HIDE DEF P
  <2>1. P \in SUBSET Nat
    BY DEF P
  <2> QED
    BY <1>2, <1>3, <2>1, NumbersByInduction
<1> SUFFICES ASSUME NEW T \in SUBSET S PROVE it[T] = jt[T]
  OBVIOUS
<1>5. Cardinality(T) \in Nat
  BY FS_Subset, FS_CardinalityType
<1> QED
  BY <1>4, <1>5

-----------------------------------------------------------------------------
(* Sums over finite sets.                                                  *)

\* it is the sum of g over every subset of S.
AddsUp(it, S, g) ==
  /\ it \in [SUBSET S -> Int]
  /\ it[{}] = 0
  /\ \A T \in SUBSET S : \A x \in T : it[T] = g[x] + it[T \ {x}]

\* The fold of MapThenSumSet(), which takes the elements one by one.
Adding(it, S, g) ==
  it = [T \in SUBSET S |->
          IF T = {} THEN 0 ELSE LET x == CHOOSE x \in T : TRUE IN g[x] + it[T \ {x}]]

\* There is such a fold.
LEMMA AddingExists ==
  ASSUME NEW S, IsFiniteSet(S), NEW g \in [S -> Int]
  PROVE  \E it \in [SUBSET S -> Int] : Adding(it, S, g)
<1> DEFINE pick == [T \in SUBSET S |-> CHOOSE x \in T : TRUE]
           step == [x \in S |-> [v \in Int |-> g[x] + v]]
<1>1. Picks(pick, S)
  BY DEF Picks
<1>2. \A x \in S : \A v \in Int : step[x][v] = g[x] + v
  OBVIOUS
<1>a. Steps(step, S, Int)
  BY DEF Steps
<1>b. 0 \in Int
  OBVIOUS
<1>3. \A T \in SUBSET S : pick[T] = CHOOSE x \in T : TRUE
  OBVIOUS
<1> HIDE DEF pick, step
<1>c. PICK it \in [SUBSET S -> Int] : Folds(it, S, 0, pick, step)
  BY <1>1, <1>a, <1>b, FoldExists, Zenon
<1>4. \A T \in SUBSET S : it[T] = IF T = {} THEN 0 ELSE step[pick[T]][it[T \ {pick[T]}]]
  BY <1>c DEF Folds
<1>5. ASSUME NEW T \in SUBSET S, T # {}
      PROVE  it[T] = LET x == CHOOSE x \in T : TRUE IN g[x] + it[T \ {x}]
  <2>1. it[T] = step[pick[T]][it[T \ {pick[T]}]] /\ pick[T] \in S /\ it[T \ {pick[T]}] \in Int
    BY <1>1, <1>4, <1>5 DEF Picks
  <2>2. it[T] = g[pick[T]] + it[T \ {pick[T]}]
    BY <1>2, <2>1
  <2> QED
    BY <1>3, <2>2
<1>6. Adding(it, S, g)
  <2> DEFINE Value(T) ==
        IF T = {} THEN 0 ELSE LET x == CHOOSE x \in T : TRUE IN g[x] + it[T \ {x}]
  <2>1. ASSUME NEW T \in SUBSET S PROVE it[T] = Value(T)
    <3>1. CASE T = {}
      BY <1>4, <3>1
    <3>2. CASE T # {}
      BY <1>5, <3>2
    <3> QED
      BY <3>1, <3>2
  <2>2. it = [T \in SUBSET S |-> Value(T)]
    <3> HIDE DEF Value
    <3> QED
      BY <2>1
  <2> QED
    BY <2>2, Zenon DEF Adding
<1> QED
  BY <1>6

\* The elements of a subset may be taken one by one in any order.
LEMMA AddingAddsUp ==
  ASSUME NEW S, IsFiniteSet(S), NEW g \in [S -> Int], NEW it, Adding(it, S, g)
  PROVE  AddsUp(it, S, g)
<1> DEFINE pick == [T \in SUBSET S |-> CHOOSE x \in T : TRUE]
           step == [x \in S |-> [v \in Int |-> g[x] + v]]
           Rest(T) == T \ {pick[T]}
<1>1. \A T \in SUBSET S : it[T] = IF T = {} THEN 0 ELSE g[pick[T]] + it[Rest(T)]
  BY DEF Adding
<1>2. \A T \in SUBSET S : T # {} => pick[T] \in T
  OBVIOUS
<1> HIDE DEF pick
<1>3. ASSUME NEW T \in SUBSET S, NEW x \in T
      PROVE  /\ T \ {x} \in SUBSET S
             /\ Cardinality(T) \in Nat \ {0} /\ Cardinality(T \ {x}) \in Nat
             /\ Cardinality(T \ {x}) = Cardinality(T) - 1
  BY OneLess
<1> DEFINE Fine(T) == it[T] \in Int /\ \A x \in T : it[T] = g[x] + it[T \ {x}]
           P == {n \in Nat : \A T \in SUBSET S : Cardinality(T) <= n => Fine(T)}
<1>4. Fine({})
  <2>1. it[{}] = 0
    BY <1>1
  <2> QED
    BY <2>1
<1>5. 0 \in P
  <2> SUFFICES ASSUME NEW T \in SUBSET S, Cardinality(T) <= 0 PROVE Fine(T)
    OBVIOUS
  <2>1. \A x \in T : Cardinality(T) \in Nat \ {0}
    BY <1>3
  <2>2. T = {}
    BY <2>1
  <2> QED
    BY <1>4, <2>2
<1>6. ASSUME NEW n \in P PROVE n + 1 \in P
  <2> SUFFICES ASSUME NEW T \in SUBSET S, T # {}, Cardinality(T) <= n + 1 PROVE Fine(T)
    <3> HIDE DEF Fine
    <3> QED
      BY <1>4
  <2> DEFINE p == pick[T]
  <2>1. p \in T /\ p \in S /\ it[T] = g[p] + it[T \ {p}]
    BY <1>1, <1>2
  <2> HIDE DEF p
  <2>2. ASSUME NEW x \in T PROVE Fine(T \ {x}) /\ T \ {x} \in SUBSET S
    <3>1. T \ {x} \in SUBSET S /\ Cardinality(T \ {x}) <= n
      BY <1>3
    <3> QED
      BY <3>1
  <2>3. it[T] \in Int
    <3>1. it[T \ {p}] \in Int /\ g[p] \in Int
      BY <2>1, <2>2
    <3> QED
      BY <2>1, <3>1
  <2>4. ASSUME NEW x \in T, x # p PROVE it[T] = g[x] + it[T \ {x}]
    <3>1. x \in T \ {p} /\ p \in T \ {x} /\ (T \ {p}) \ {x} = (T \ {x}) \ {p}
      BY <2>1, <2>4
    <3>2. /\ it[T \ {p}] = g[x] + it[(T \ {p}) \ {x}]
          /\ it[T \ {x}] = g[p] + it[(T \ {p}) \ {x}]
      BY <2>1, <2>2, <3>1
    <3>3. it[(T \ {p}) \ {x}] \in Int
      <4>1. (T \ {p}) \ {x} \in SUBSET S /\ Cardinality((T \ {p}) \ {x}) <= n
        <5>1. /\ T \ {p} \in SUBSET S /\ Cardinality(T \ {p}) <= n
              /\ Cardinality(T \ {p}) \in Nat
          BY <1>3, <2>1
        <5>2. /\ (T \ {p}) \ {x} \in SUBSET S
              /\ Cardinality((T \ {p}) \ {x}) = Cardinality(T \ {p}) - 1
          BY <1>3, <3>1, <5>1
        <5> QED
          BY <5>1, <5>2
      <4> QED
        BY <4>1
    <3>4. g[x] \in Int /\ g[p] \in Int
      BY <2>1
    <3> QED
      BY <2>1, <3>2, <3>3, <3>4
  <2> QED
    BY <2>1, <2>3, <2>4
<1>7. P = Nat
  <2> HIDE DEF P
  <2>1. P \in SUBSET Nat
    BY DEF P
  <2> QED
    BY <1>5, <1>6, <2>1, NumbersByInduction
<1>8. ASSUME NEW T \in SUBSET S PROVE Fine(T)
  <2>1. Cardinality(T) \in Nat
    BY FS_Subset, FS_CardinalityType
  <2>2. Cardinality(T) \in P /\ Cardinality(T) <= Cardinality(T)
    BY <1>7, <2>1
  <2> HIDE DEF Fine
  <2> QED
    BY <2>2
<1>9. it \in [SUBSET S -> Int]
  <2>1. DOMAIN it = SUBSET S /\ it = [T \in SUBSET S |-> it[T]]
    BY DEF Adding
  <2> QED
    BY <1>8, <2>1
<1>10. it[{}] = 0
  BY <1>1
<1> QED
  BY <1>8, <1>9, <1>10 DEF AddsUp

\* There is only one sum.
LEMMA OneSum ==
  ASSUME NEW S, IsFiniteSet(S), NEW g, NEW it, AddsUp(it, S, g), NEW jt, AddsUp(jt, S, g)
  PROVE  it[S] = jt[S]
<1> DEFINE pick == [T \in SUBSET S |-> CHOOSE x \in T : TRUE]
           step == [x \in S |-> [v \in Int |-> g[x] + v]]
<1>1. Picks(pick, S)
  BY DEF Picks
<1>2. \A x \in S : \A v \in Int : step[x][v] = g[x] + v
  OBVIOUS
<1> HIDE DEF pick, step
<1>3. ASSUME NEW kt, AddsUp(kt, S, g), NEW T \in SUBSET S
      PROVE  kt[T] = IF T = {} THEN 0 ELSE step[pick[T]][kt[T \ {pick[T]}]]
  <2>1. CASE T = {}
    BY <1>3, <2>1 DEF AddsUp
  <2>2. CASE T # {}
    <3>1. pick[T] \in T /\ pick[T] \in S /\ T \ {pick[T]} \in SUBSET S
      BY <1>1, <2>2 DEF Picks
    <3>2. kt[T] = g[pick[T]] + kt[T \ {pick[T]}] /\ kt[T \ {pick[T]}] \in Int
      BY <1>3, <3>1 DEF AddsUp
    <3> QED
      BY <1>2, <2>2, <3>1, <3>2
  <2> QED
    BY <2>1, <2>2
<1>4. \A T \in SUBSET S : it[T] = jt[T]
  <2>1. Folds(it, S, 0, pick, step) /\ Folds(jt, S, 0, pick, step)
    BY <1>3 DEF Folds
  <2> QED
    BY <1>1, <2>1, FoldIsUnique
<1> QED
  BY <1>4

\* A sum of that many numbers.
LEMMA SumWithin ==
  ASSUME NEW S, IsFiniteSet(S), NEW g, NEW it, AddsUp(it, S, g), NEW M \in Nat,
         NEW T \in SUBSET S, \A x \in T : g[x] \in 0..M
  PROVE  Cardinality(T) \in Nat /\ it[T] \in 0..(M * Cardinality(T))
<1> DEFINE Within(U) == it[U] \in 0..(M * Cardinality(U))
           P == {n \in Nat : \A U \in SUBSET T : Cardinality(U) <= n => Within(U)}
<1>1. ASSUME NEW U \in SUBSET T, NEW x \in U
      PROVE  /\ U \ {x} \in SUBSET T
             /\ Cardinality(U) \in Nat \ {0} /\ Cardinality(U \ {x}) \in Nat
             /\ Cardinality(U \ {x}) = Cardinality(U) - 1
             /\ it[U] = g[x] + it[U \ {x}]
  <2>1. U \in SUBSET S
    OBVIOUS
  <2> QED
    BY <2>1, OneLess DEF AddsUp
<1>2. Within({})
  BY FS_EmptySet DEF AddsUp
<1>3. 0 \in P
  <2> SUFFICES ASSUME NEW U \in SUBSET T, Cardinality(U) <= 0 PROVE Within(U)
    OBVIOUS
  <2>1. \A x \in U : Cardinality(U) \in Nat \ {0}
    BY <1>1
  <2>2. U = {}
    BY <2>1
  <2> QED
    BY <1>2, <2>2
<1>4. ASSUME NEW n \in P PROVE n + 1 \in P
  <2> SUFFICES ASSUME NEW U \in SUBSET T, U # {}, Cardinality(U) <= n + 1 PROVE Within(U)
    <3> HIDE DEF Within
    <3> QED
      BY <1>2
  <2>1. PICK x \in U : TRUE
    OBVIOUS
  <2> DEFINE c == Cardinality(U \ {x})
  <2>2. /\ U \ {x} \in SUBSET T /\ c \in Nat /\ c <= n /\ Cardinality(U) = c + 1
        /\ it[U] = g[x] + it[U \ {x}]
    BY <1>1, <2>1
  <2>3. it[U \ {x}] \in 0..(M * c) /\ g[x] \in 0..M
    BY <2>2
  <2>4. M * (c + 1) = M * c + M /\ M * c \in Nat
    BY <2>2
  <2> HIDE DEF c
  <2> QED
    BY <2>2, <2>3, <2>4
<1>5. P = Nat
  <2> HIDE DEF P
  <2>1. P \in SUBSET Nat
    BY DEF P
  <2> QED
    BY <1>3, <1>4, <2>1, NumbersByInduction
<1>6. Cardinality(T) \in Nat
  BY FS_Subset, FS_CardinalityType
<1>7. Cardinality(T) \in P /\ Cardinality(T) <= Cardinality(T)
  BY <1>5, <1>6
<1> HIDE DEF Within
<1>8. Within(T)
  BY <1>7
<1> QED
  BY <1>6, <1>8 DEF Within

-----------------------------------------------------------------------------
(* Numbers.                                                                *)

\* Digits make a natural number.
LEMMA DecimalIsNat ==
  ASSUME NEW digits \in Seq(DOMAIN DigitValue)
  PROVE  Decimal(digits) \in Nat
<1> DEFINE S == DOMAIN digits
           pick == [T \in SUBSET S |-> Max(T)]
           step == [i \in S |-> [v \in Nat |-> 10 * v + DigitValue[digits[i]]]]
           P(it) == it = [T \in SUBSET S |->
                      IF T = {} THEN 0
                      ELSE LET i == Max(T) IN 10 * it[T \ {i}] + DigitValue[digits[i]]]
<1>1. Len(digits) \in Nat /\ S = 1..Len(digits) /\ \A i \in S : digits[i] \in DOMAIN DigitValue
  BY LenProperties, ElementOfSeq
<1> HIDE DEF S
<1>2. IsFiniteSet(S)
  BY <1>1, FS_Interval
<1>3. Picks(pick, S)
  <2> SUFFICES ASSUME NEW T \in SUBSET S, T # {} PROVE Max(T) \in T
    BY DEF Picks
  <2>1. T \in SUBSET Nat /\ \A j \in T : j <= Len(digits)
    BY <1>1
  <2> QED
    BY <1>1, <2>1, LargestIsMember
<1>4. \A i \in S : DigitValue[digits[i]] \in Nat
  BY <1>1, AtoiAssumption
<1>5. \A i \in S : \A v \in Nat : step[i][v] = 10 * v + DigitValue[digits[i]]
  OBVIOUS
<1>6. Steps(step, S, Nat)
  BY <1>4 DEF Steps
<1>7. \A T \in SUBSET S : pick[T] = Max(T)
  OBVIOUS
<1> HIDE DEF pick, step
<1>8. PICK it \in [SUBSET S -> Nat] : Folds(it, S, 0, pick, step)
  <2>1. 0 \in Nat
    OBVIOUS
  <2> QED
    BY <1>2, <1>3, <1>6, <2>1, FoldExists, Zenon
<1>9. P(it)
  <2> DEFINE Value(T) ==
        IF T = {} THEN 0 ELSE LET i == Max(T) IN 10 * it[T \ {i}] + DigitValue[digits[i]]
  <2>1. ASSUME NEW T \in SUBSET S PROVE it[T] = Value(T)
    <3>1. CASE T = {}
      BY <1>8, <3>1 DEF Folds
    <3>2. CASE T # {}
      <4>1. /\ it[T] = step[pick[T]][it[T \ {pick[T]}]]
            /\ pick[T] \in S /\ it[T \ {pick[T]}] \in Nat
        BY <1>3, <1>8, <3>2 DEF Folds, Picks
      <4>2. it[T] = 10 * it[T \ {pick[T]}] + DigitValue[digits[pick[T]]]
        BY <1>5, <4>1
      <4> QED
        BY <1>7, <3>2, <4>2
    <3> QED
      BY <3>1, <3>2
  <2>2. it = [T \in SUBSET S |-> Value(T)]
    <3> HIDE DEF Value
    <3> QED
      BY <2>1
  <2> QED
    BY <2>2, Zenon
<1>10. Decimal(digits) = (CHOOSE jt : P(jt))[S]
  BY Zenon DEF Decimal, FoldLeft, MapThenFoldSet, S
<1>11. PICK jt : P(jt) /\ jt = CHOOSE kt : P(kt)
  <2> HIDE DEF P
  <2> QED
    BY <1>9, Zenon
<1>12. jt[{}] = 0
  BY <1>11
<1>12a. ASSUME NEW T \in SUBSET S, T # {}
        PROVE  jt[T] = 10 * jt[T \ {pick[T]}] + DigitValue[digits[pick[T]]]
  <2>1. jt[T] = LET i == Max(T) IN 10 * jt[T \ {i}] + DigitValue[digits[i]]
    BY <1>11, <1>12a
  <2> HIDE DEF P
  <2> QED
    BY <1>7, <2>1
<1> DEFINE N == {n \in Nat : \A T \in SUBSET S : Cardinality(T) <= n => jt[T] \in Nat}
<1> HIDE DEF P
<1>13. ASSUME NEW T \in SUBSET S, T # {}
       PROVE  /\ pick[T] \in S /\ T \ {pick[T]} \in SUBSET S
              /\ Cardinality(T) \in Nat \ {0} /\ Cardinality(T \ {pick[T]}) \in Nat
              /\ Cardinality(T \ {pick[T]}) = Cardinality(T) - 1
  <2>1. pick[T] \in T
    BY <1>3, <1>13 DEF Picks
  <2>2. \A x \in T : /\ T \ {x} \in SUBSET S
                     /\ Cardinality(T) \in Nat \ {0} /\ Cardinality(T \ {x}) \in Nat
                     /\ Cardinality(T \ {x}) = Cardinality(T) - 1
    BY <1>2, OneLess
  <2> QED
    BY <2>1, <2>2
<1>14. 0 \in N
  <2> SUFFICES ASSUME NEW T \in SUBSET S, Cardinality(T) <= 0 PROVE jt[T] \in Nat
    OBVIOUS
  <2>1. T # {} => Cardinality(T) \in Nat \ {0}
    BY <1>13
  <2>2. T = {}
    BY <2>1
  <2> QED
    BY <1>12, <2>2
<1>15. ASSUME NEW n \in N PROVE n + 1 \in N
  <2> SUFFICES ASSUME NEW T \in SUBSET S, Cardinality(T) <= n + 1 PROVE jt[T] \in Nat
    OBVIOUS
  <2>1. CASE T # {}
    <3>1. /\ pick[T] \in S /\ T \ {pick[T]} \in SUBSET S
          /\ Cardinality(T \ {pick[T]}) <= n
      BY <1>13, <2>1
    <3>2. jt[T \ {pick[T]}] \in Nat /\ DigitValue[digits[pick[T]]] \in Nat
      BY <1>4, <3>1
    <3>3. jt[T] = 10 * jt[T \ {pick[T]}] + DigitValue[digits[pick[T]]]
      BY <1>12a, <2>1
    <3> QED
      BY <3>2, <3>3
  <2>2. CASE T = {}
    BY <1>12, <2>2
  <2> QED
    BY <2>1, <2>2
<1>16. N = Nat
  <2> HIDE DEF N
  <2>1. N \in SUBSET Nat
    BY DEF N
  <2> QED
    BY <1>14, <1>15, <2>1, NumbersByInduction
<1>17. jt[S] \in Nat
  <2>1. Cardinality(S) \in N /\ Cardinality(S) <= Cardinality(S)
    BY <1>2, <1>16, FS_CardinalityType
  <2> QED
    BY <2>1
<1> QED
  BY <1>10, <1>11, <1>17

\* How many characters s starts with that are in S.
LEMMA LeadingIs ==
  ASSUME NEW C, NEW s \in Seq(C), NEW S
  PROVE  Leading(s, S) \in 0..Len(s) /\ \A i \in 1..Leading(s, S) : s[i] \in S
<1> DEFINE H == {k \in 0..Len(s) : \A i \in 1..k : s[i] \in S}
<1>1. Len(s) \in Nat
  BY LenProperties
<1>2. H \in SUBSET Nat /\ 0 \in H /\ \A k \in H : k <= Len(s)
  BY <1>1
<1>3. Max(H) \in H
  <2> HIDE DEF H
  <2>1. H # {}
    BY <1>2
  <2> QED
    BY <1>1, <1>2, <2>1, LargestIsMember
<1> QED
  BY <1>3 DEF Leading

\* A string starts with a whole number, 0 if with none.
LEMMA NumberIsInt ==
  ASSUME NEW C, NEW s \in Seq(C)
  PROVE  Number(s) \in Int
<1>1. ASSUME NEW r \in Seq(C) PROVE Decimal(SubSeq(r, 1, Leading(r, DOMAIN DigitValue))) \in Nat
  <2> DEFINE k == Leading(r, DOMAIN DigitValue)
  <2>1. k \in 0..Len(r) /\ Len(r) \in Nat /\ \A i \in 1..k : r[i] \in DOMAIN DigitValue
    BY LeadingIs, LenProperties
  <2> HIDE DEF k
  <2>2. SubSeq(r, 1, k) \in Seq(DOMAIN DigitValue)
    <3>1. 1 \in Int /\ k \in Int
      BY <2>1
    <3> QED
      BY <2>1, <3>1, SubSeqProperties
  <2> QED
    BY <2>2, DecimalIsNat DEF k
<1> DEFINE body == SubSeq(s, Leading(s, Blanks) + 1, Len(s))
           signed == body # <<>> /\ body[1] \in {"+", "-"}
           rest == IF signed THEN Tail(body) ELSE body
           n == Decimal(SubSeq(rest, 1, Leading(rest, DOMAIN DigitValue)))
<1>2. body \in Seq(C)
  <2> DEFINE k == Leading(s, Blanks)
  <2>1. k \in 0..Len(s) /\ Len(s) \in Nat
    BY LeadingIs, LenProperties
  <2> HIDE DEF k
  <2>2. k + 1 \in Int /\ Len(s) \in Int /\ \A i \in (k + 1)..Len(s) : s[i] \in C
    BY <2>1, ElementOfSeq
  <2>3. SubSeq(s, k + 1, Len(s)) \in Seq(C)
    BY <2>2, SubSeqProperties
  <2> QED
    BY <2>3 DEF k
<1> HIDE DEF body
<1>3. rest \in Seq(C)
  BY <1>2, HeadTailProperties
<1> HIDE DEF rest
<1>4. n \in Nat
  BY <1>1, <1>3
<1> HIDE DEF n
<1>5. Number(s) = IF signed /\ body[1] = "-" THEN -n ELSE n
  BY DEF Number, body, rest, n
<1>6. n \in Int /\ -n \in Int
  BY <1>4
<1> HIDE DEF signed
<1> QED
  BY <1>5, <1>6

\* What the conversions make of a whole number is an int, and the number itself
\* where it is one.
LEMMA WrappedIsInt ==
  ASSUME NEW n \in Int
  PROVE  Wrapped(n) \in Ints /\ (n \in Ints => Wrapped(n) = n)
<1>1. IntMax \in Nat
  BY AtoiAssumption
<1>2. 2 * IntMax + 2 \in Nat /\ 2 * IntMax + 2 > 0 /\ n + IntMax + 1 \in Int
  BY <1>1
<1>3. (n + IntMax + 1) % (2 * IntMax + 2) \in 0..(2 * IntMax + 1)
  BY <1>1, <1>2
<1>4. n \in Ints => (n + IntMax + 1) % (2 * IntMax + 2) = n + IntMax + 1
  BY <1>1, <1>2 DEF Ints
<1> QED
  BY <1>1, <1>3, <1>4 DEF Wrapped, Ints

LEMMA ClampIs ==
  ASSUME NEW n \in Int, NEW m \in Nat
  PROVE  Clamp(n, m) \in (-m - 1)..m /\ (n \in (-m - 1)..m => Clamp(n, m) = n)
BY DEF Clamp

\* atoi() returns an int, whatever the string.
LEMMA AtoiIsInt ==
  ASSUME NEW C, NEW s \in Seq(C)
  PROVE  atoi(s) \in Ints
<1>1. Number(s) \in Int
  BY NumberIsInt
<1>2. IntMax \in Nat /\ LongMax \in Nat
  BY AtoiAssumption
<1>3. Clamp(Number(s), IntMax) \in Ints /\ Clamp(Number(s), LongMax) \in Int
  <2>1. Clamp(Number(s), IntMax) \in (-IntMax - 1)..IntMax
    BY <1>1, <1>2, ClampIs
  <2>2. Clamp(Number(s), LongMax) \in (-LongMax - 1)..LongMax
    BY <1>1, <1>2, ClampIs
  <2> QED
    BY <1>2, <2>1, <2>2 DEF Ints
<1>4. Wrapped(Clamp(Number(s), LongMax)) \in Ints
  BY <1>3, WrappedIsInt
<1> QED
  BY <1>3, <1>4 DEF atoi

\* A number that fits an int is what atoi() returns for it.
LEMMA AtoiIsNumber ==
  ASSUME NEW s, Number(s) \in Ints
  PROVE  atoi(s) = Number(s)
<1>1. /\ IntMax \in Nat /\ LongMax \in Nat /\ IntMax <= LongMax
      /\ Number(s) \in Int /\ Number(s) \in (-LongMax - 1)..LongMax
  BY AtoiAssumption DEF Ints
<1>2. Clamp(Number(s), IntMax) = Number(s) /\ Clamp(Number(s), LongMax) = Number(s)
  BY <1>1, ClampIs DEF Ints
<1>3. Wrapped(Number(s)) = Number(s)
  BY <1>1, WrappedIsInt
<1> QED
  BY <1>2, <1>3 DEF atoi

-----------------------------------------------------------------------------
(* Remainders.                                                             *)

\* A number that is not 0 times a positive one is as large at least.
LEMMA TimesPositive ==
  ASSUME NEW m \in Nat \ {0}, NEW k \in Int, k > 0
  PROVE  m * k >= m
BY SMT

\* There is one remainder.
LEMMA OneRemainder ==
  ASSUME NEW m \in Nat \ {0}, NEW k \in Int, NEW l \in Int,
         NEW r \in 0..(m - 1), NEW t \in 0..(m - 1), m * k + r = m * l + t
  PROVE  r = t
<1>1. m * (k - l) = m * k - m * l /\ m * (l - k) = m * l - m * k
  BY SMT
<1>2. m * k \in Int /\ m * l \in Int
  BY SMT
<1>3. ~(k > l)
  <2> SUFFICES ASSUME k > l PROVE FALSE
    OBVIOUS
  <2>1. k - l \in Int /\ k - l > 0
    OBVIOUS
  <2>2. m * (k - l) >= m
    BY <2>1, TimesPositive
  <2> QED
    BY <1>1, <1>2, <2>2
<1>4. ~(l > k)
  <2> SUFFICES ASSUME l > k PROVE FALSE
    OBVIOUS
  <2>1. l - k \in Int /\ l - k > 0
    OBVIOUS
  <2>2. m * (l - k) >= m
    BY <2>1, TimesPositive
  <2> QED
    BY <1>1, <1>2, <2>2
<1>5. k = l
  BY <1>3, <1>4
<1> QED
  BY <1>2, <1>5

LEMMA Remainder ==
  ASSUME NEW m \in Nat \ {0}, NEW a \in Int
  PROVE  a \div m \in Int /\ a % m \in 0..(m - 1) /\ a = m * (a \div m) + (a % m)
<1>1. a \div m \in Int /\ a % m \in 0..(m - 1)
  BY SMT
<1>2. a = m * (a \div m) + (a % m)
  BY SMT
<1> QED
  BY <1>1, <1>2

\* What is added in multiples of m does not change the remainder.
LEMMA SameRemainder ==
  ASSUME NEW m \in Nat \ {0}, NEW a \in Int, NEW b \in Int, NEW q \in Int, b = a + m * q
  PROVE  b % m = a % m
<1> DEFINE k == a \div m
           r == a % m
           l == b \div m
           t == b % m
<1>1. k \in Int /\ r \in 0..(m - 1) /\ a = m * k + r
  BY Remainder
<1>2. l \in Int /\ t \in 0..(m - 1) /\ b = m * l + t
  BY Remainder
<1> HIDE DEF k, l, r, t
<1>3. m * (k + q) = m * k + m * q /\ m * k \in Int /\ m * q \in Int /\ m * l \in Int
  BY <1>1, <1>2, SMT
<1>4. m * (k + q) + r = m * l + t
  BY <1>1, <1>2, <1>3
<1>5. k + q \in Int
  BY <1>1
<1>6. r = t
  BY <1>1, <1>2, <1>4, <1>5, OneRemainder
<1> QED
  BY <1>6 DEF r, t
=============================================================================

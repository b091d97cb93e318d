----------------------------- MODULE DataLemmas -----------------------------
(* Facts about numbers, sets and sequences that the proofs about the records of
   the system need and the library does not state.  The library's induction
   theorems take an operator; its theorem on well-founded relations takes none,
   and gives the least element of a set of natural numbers, which stands in for
   induction below.                                                           *)
EXTENDS SequencesExt, SequenceTheorems, FiniteSetTheorems, WellFoundedInduction, TLAPS

\* The least-number principle: a non-empty set of natural numbers has a least.
LEMMA LeastExists ==
  ASSUME NEW S \in SUBSET Nat, S # {}
  PROVE  \E m \in S : \A x \in S : m <= x
  <1> DEFINE R == {ss \in Nat \X Nat : ss[1] < ss[2]}
  <1>1. R = OpToRel(<, Nat)
    BY DEF OpToRel
  <1>2. IsWellFoundedOn(R, Nat)
    BY <1>1, NatLessThanWellFounded
  <1>3. PICK m \in S : \A x \in S : <<x, m>> \notin R
    <2> HIDE DEF R
    <2> QED BY <1>2, WFMin
  <1>4. ASSUME NEW x \in S PROVE m <= x
    <2>1. m \in Nat /\ x \in Nat /\ <<x, m>> \notin R
      BY <1>3
    <2>2. ~(x < m)
      BY <2>1
    <2> QED BY <2>1, <2>2
  <1> QED BY <1>4

\* Min of FiniteSetsExt is that least element.
LEMMA MinIsLeast ==
  ASSUME NEW S \in SUBSET Nat, S # {}
  PROVE  Min(S) \in S /\ \A x \in S : Min(S) <= x
  BY LeastExists DEF Min

\* Max is the greatest of a set of natural numbers that none of them exceeds a bound.
LEMMA MaxIsGreatest ==
  ASSUME NEW S \in SUBSET Nat, S # {}, NEW n \in Nat, \A x \in S : x <= n
  PROVE  Max(S) \in S /\ \A x \in S : x <= Max(S)
  <1> DEFINE bounds == {k \in Nat : \A x \in S : x <= k}
  <1>1. bounds \in SUBSET Nat /\ n \in bounds
    OBVIOUS
  <1> PICK m \in bounds : \A k \in bounds : m <= k
    BY <1>1, LeastExists
  <1>2. m \in S
    <2> SUFFICES ASSUME m \notin S PROVE FALSE
      OBVIOUS
    <2> PICK x \in S : TRUE
      OBVIOUS
    <2>1. x \in Nat /\ x <= m /\ x # m /\ m \in Nat
      OBVIOUS
    <2>2. m - 1 \in Nat
      BY <2>1
    <2>3. ASSUME NEW y \in S PROVE y <= m - 1
      <3>1. y \in Nat /\ y <= m /\ y # m
        OBVIOUS
      <3> QED BY <3>1, <2>1
    <2>4. m - 1 \in bounds
      BY <2>2, <2>3
    <2>5. m <= m - 1
      BY <2>4
    <2> QED BY <2>1, <2>5
  <1>3. \E y \in S : \A x \in S : y >= x
    <2>1. \A x \in S : m >= x
      OBVIOUS
    <2> QED BY <1>2, <2>1
  <1>4. Max(S) \in S /\ \A x \in S : Max(S) >= x
    <2> HIDE DEF bounds
    <2> QED BY <1>3 DEF Max
  <1>5. \A x \in S : Max(S) >= x <=> x <= Max(S)
    BY <1>4
  <1> QED BY <1>4, <1>5

\* SetToSeq lists the members of a finite set, each once.
LEMMA ListedOnce ==
  ASSUME NEW S, IsFiniteSet(S)
  PROVE  /\ SetToSeq(S) \in Seq(S) /\ IsInjective(SetToSeq(S))
         /\ \A x \in S : \E i \in DOMAIN SetToSeq(S) : SetToSeq(S)[i] = x
  <1> DEFINE n == Cardinality(S)
             f == SetToSeq(S)
  <1>1. n \in Nat /\ ExistsBijection(1 .. n, S)
    BY FS_CardinalityType
  <1>2. \E g : g \in [1 .. n -> S] /\ IsInjective(g)
    BY <1>1 DEF ExistsBijection, Bijection, Injection
  <1>3. f \in [1 .. n -> S] /\ IsInjective(f)
    BY <1>2 DEF SetToSeq
  <1> HIDE DEF f
  <1>4. f \in Injection(1 .. n, S)
    BY <1>3 DEF Injection
  <1>5. IsFiniteSet(1 .. n) /\ Cardinality(1 .. n) = n
    <2> HIDE DEF n
    <2>1. n \in Int /\ ~(1 > n) => n - 1 + 1 = n
      BY <1>1
    <2>2. 1 > n => n = 0
      BY <1>1
    <2> QED BY <1>1, <2>1, <2>2, FS_Interval
  <1>6. f \in Surjection(1 .. n, S)
    BY <1>4, <1>5, FS_Injection
  <1>7. \A x \in S : \E i \in 1 .. n : f[i] = x
    BY <1>6 DEF Surjection
  <1> HIDE DEF n
  <1>8. f \in Seq(S) /\ DOMAIN f = 1 .. n
    BY <1>1, <1>3, SeqDef
  <1> QED BY <1>3, <1>7, <1>8 DEF f

LEMMA Listed ==
  ASSUME NEW S, IsFiniteSet(S)
  PROVE  Len(SetToSeq(S)) \in Nat /\ \A i \in 1 .. Len(SetToSeq(S)) : SetToSeq(S)[i] \in S
  BY ListedOnce, LenProperties, ElementOfSeq

\* Removing one entry leaves the others in the sequence.
LEMMA RemovedFromOrder ==
  ASSUME NEW S, NEW s \in Seq(S), NEW i \in DOMAIN s
  PROVE  /\ RemoveAt(s, i) \in Seq(S)
         /\ \A k \in DOMAIN s \ {i} : \E j \in DOMAIN RemoveAt(s, i) : RemoveAt(s, i)[j] = s[k]
  <1> DEFINE a == SubSeq(s, 1, i - 1)
             b == SubSeq(s, i + 1, Len(s))
             r == RemoveAt(s, i)
  <1>1. i \in 1..Len(s) /\ Len(s) \in Nat
    OBVIOUS
  <1>2. a \in Seq(S) /\ Len(a) = i - 1 /\ \A k \in 1..(i - 1) : a[k] = s[k]
    BY <1>1
  <1>3. b \in Seq(S) /\ Len(b) = Len(s) - i /\ \A k \in 1..(Len(s) - i) : b[k] = s[i + k]
    BY <1>1
  <1>4. r = a \o b
    BY DEF RemoveAt
  <1> HIDE DEF a, b, r
  <1>5. /\ r \in Seq(S) /\ Len(r) = Len(a) + Len(b)
        /\ \A k \in 1 .. Len(a) + Len(b) : r[k] = IF k <= Len(a) THEN a[k] ELSE b[k - Len(a)]
    BY <1>2, <1>3, <1>4, ConcatProperties
  <1>6. Len(r) = Len(s) - 1 /\ DOMAIN r = 1..(Len(s) - 1)
    BY <1>1, <1>2, <1>3, <1>5
  <1>7. ASSUME NEW k \in DOMAIN s \ {i} PROVE \E j \in DOMAIN r : r[j] = s[k]
    <2>1. k \in Int /\ 1 <= k /\ k <= Len(s) /\ i \in Int /\ 1 <= i /\ i <= Len(s)
      BY <1>1
    <2>2. Len(a) = i - 1 /\ Len(a) + Len(b) = Len(s) - 1
      BY <1>1, <1>2, <1>3
    <2>3. CASE k < i
      <3>1. k \in 1..(i - 1) /\ k \in 1..(Len(s) - 1) /\ k <= i - 1
        BY <2>1, <2>3, <1>1
      <3>2. r[k] = a[k]
        BY <3>1, <2>2, <1>5
      <3> QED BY <3>1, <3>2, <1>2, <1>6
    <2>4. CASE k > i
      <3> PICK m \in Int : m = k - i
        BY <2>1
      <3> PICK q \in Int : q = k - 1
        BY <2>1
      <3>1. /\ m \in 1..(Len(s) - i) /\ i + m = k /\ q \in 1..(Len(s) - 1)
            /\ ~(q <= i - 1) /\ q - (i - 1) = m
        BY <1>1, <2>1, <2>4
      <3>2. r[q] = b[m]
        BY <3>1, <2>2, <1>5
      <3>3. b[m] = s[k]
        BY <3>1, <1>3
      <3> QED BY <3>1, <3>2, <3>3, <1>6
    <2> QED BY <1>1, <2>3, <2>4
  <1> QED BY <1>5, <1>7 DEF r

\* What holds of 0 and passes from one number to the next holds up to n.
LEMMA UpTo ==
  ASSUME NEW n \in Nat, NEW P, 0 \in P, \A i \in 1 .. n : i - 1 \in P => i \in P
  PROVE  \A i \in 0 .. n : i \in P
  <1> DEFINE Bad == {i \in 0 .. n : i \notin P}
  <1> SUFFICES ASSUME Bad # {} PROVE FALSE
    OBVIOUS
  <1>1. Bad \in SUBSET Nat
    OBVIOUS
  <1> PICK m \in Bad : \A x \in Bad : m <= x
    <2> HIDE DEF Bad
    <2> QED BY <1>1, LeastExists
  <1>2. m \in 1 .. n /\ m - 1 \in 0 .. n /\ ~(m <= m - 1)
    OBVIOUS
  <1>3. m - 1 \in P
    BY <1>2
  <1> QED BY <1>2, <1>3

\* A recursion over 1..n that stays in a set has a solution.
IsRecursion(f, n, r, step) == f[0] = r /\ \A i \in 1 .. n : f[i] = step[<<i, f[i - 1]>>]

LEMMA RecursionExists ==
  ASSUME NEW S, NEW n \in Nat, NEW r \in S, NEW step \in [(1 .. n) \X S -> S]
  PROVE  \E f \in [0 .. n -> S] : IsRecursion(f, n, r, step)
  <1> DEFINE Solves(f, m) == f[0] = r /\ \A i \in 1 .. m : f[i] = step[<<i, f[i - 1]>>]
             P == {m \in 0 .. n : \E f \in [0 .. m -> S] : Solves(f, m)}
  <1>1. 0 \in P
    <2> DEFINE f == [i \in 0 .. 0 |-> r]
    <2>1. f \in [0 .. 0 -> S] /\ Solves(f, 0)
      OBVIOUS
    <2> HIDE DEF f, Solves
    <2> QED BY <2>1
  <1>2. ASSUME NEW m \in 1 .. n, m - 1 \in P PROVE m \in P
    <2> PICK f \in [0 .. m - 1 -> S] : Solves(f, m - 1)
      BY <1>2
    <2> DEFINE next == step[<<m, f[m - 1]>>]
               g == [i \in 0 .. m |-> IF i = m THEN next ELSE f[i]]
    <2>1. m - 1 \in 0 .. m - 1 /\ m \in 0 .. n
      OBVIOUS
    <2>2. next \in S
      BY <2>1
    <2> HIDE DEF next
    <2>3. g \in [0 .. m -> S]
      BY <2>2
    <2>4. g[0] = r
      OBVIOUS
    <2>5. ASSUME NEW i \in 1 .. m PROVE g[i] = step[<<i, g[i - 1]>>]
      <3>1. i - 1 \in 0 .. m /\ i - 1 # m /\ g[i - 1] = f[i - 1]
        OBVIOUS
      <3>2. CASE i = m
        BY <3>1, <3>2 DEF next
      <3>3. CASE i # m
        <4>1. i \in 1 .. m - 1 /\ i \in 0 .. m
          BY <3>3
        <4> QED BY <4>1, <3>1, <3>3
      <3> QED BY <3>2, <3>3
    <2> HIDE DEF g
    <2>6. Solves(g, m)
      BY <2>4, <2>5
    <2> QED BY <2>1, <2>3, <2>6
  <1>3. n \in P
    <2>1. n \in 0 .. n
      OBVIOUS
    <2> HIDE DEF P
    <2> QED BY <1>1, <1>2, <2>1, UpTo
  <1> QED BY <1>3 DEF IsRecursion

-----------------------------------------------------------------------------
(* Induction over the subsets of a finite set. *)

\* What holds of the empty set and passes on when an element is added holds of all
\* subsets of a finite set.
LEMMA SubsetInduction ==
  ASSUME NEW D, IsFiniteSet(D), NEW P, {} \in P,
         \A T \in SUBSET D : \A x \in D \ T : T \in P => T \cup {x} \in P
  PROVE  \A T \in SUBSET D : T \in P
  <1> DEFINE n == Cardinality(D)
             Q == {i \in 0 .. n : \A T \in SUBSET D : Cardinality(T) = i => T \in P}
  <1>1. n \in Nat
    BY FS_CardinalityType
  <1>2. \A T \in SUBSET D : IsFiniteSet(T) /\ Cardinality(T) \in 0 .. n /\ (Cardinality(T) = 0 <=> T = {})
    BY <1>1, FS_Subset, FS_CardinalityType, FS_EmptySet
  <1>3. 0 \in Q
    BY <1>1, <1>2
  <1>4. ASSUME NEW i \in 1 .. n, i - 1 \in Q PROVE i \in Q
    <2> SUFFICES ASSUME NEW T \in SUBSET D, Cardinality(T) = i PROVE T \in P
      BY <1>1
    <2>1. T # {}
      BY <1>2
    <2> PICK x \in T : TRUE
      BY <2>1
    <2> DEFINE U == T \ {x}
    <2>2. Cardinality(U) = i - 1 /\ U \in SUBSET D /\ x \in D \ U /\ U \cup {x} = T
      BY <1>2, FS_RemoveElement
    <2> HIDE DEF U
    <2> QED BY <1>4, <2>2
  <1>5. \A i \in 0 .. n : i \in Q
    <2> HIDE DEF Q, n
    <2> QED BY <1>1, <1>3, <1>4, UpTo
  <1> QED BY <1>2, <1>5

-----------------------------------------------------------------------------
(* Sums of a function over a finite set. *)

\* The sums of f over the subsets of D, one element at a time.
Picked(T) == CHOOSE x \in T : TRUE
IsSummation(g, D, f) ==
  /\ g \in [SUBSET D -> Int]
  /\ g[{}] = 0
  /\ \A T \in SUBSET D : T # {} => g[T] = f[Picked(T)] + g[T \ {Picked(T)}]

LEMMA SummationExists ==
  ASSUME NEW D, IsFiniteSet(D), NEW f, \A x \in D : f[x] \in Int
  PROVE  \E g : IsSummation(g, D, f)
  <1> DEFINE n == Cardinality(D)
             Upto(i) == {T \in SUBSET D : Cardinality(T) <= i}
             Sums(g, i) == /\ g[{}] = 0
                           /\ \A T \in Upto(i) : T # {} => g[T] = f[Picked(T)] + g[T \ {Picked(T)}]
             Q == {i \in 0 .. n : \E g \in [Upto(i) -> Int] : Sums(g, i)}
  <1>1. n \in Nat
    BY FS_CardinalityType
  <1>2. \A T \in SUBSET D : IsFiniteSet(T) /\ Cardinality(T) \in 0 .. n /\ (Cardinality(T) = 0 <=> T = {})
    BY <1>1, FS_Subset, FS_CardinalityType, FS_EmptySet
  <1>3. \A T \in SUBSET D : T # {} =>
          /\ Picked(T) \in T /\ f[Picked(T)] \in Int
          /\ Cardinality(T \ {Picked(T)}) = Cardinality(T) - 1
    BY <1>2, FS_RemoveElement DEF Picked
  <1>4. 0 \in Q
    <2> DEFINE g == [T \in Upto(0) |-> 0]
    <2>1. \A T \in Upto(0) : T = {}
      BY <1>2
    <2>2. {} \in Upto(0)
      BY <1>2
    <2>3. g \in [Upto(0) -> Int] /\ g[{}] = 0
      BY <2>2
    <2>4. Sums(g, 0)
      BY <2>1, <2>3
    <2> HIDE DEF g, Upto, Sums
    <2> QED BY <1>1, <2>3, <2>4
  <1>5. ASSUME NEW i \in 1 .. n, i - 1 \in Q PROVE i \in Q
    <2> PICK g \in [Upto(i - 1) -> Int] : Sums(g, i - 1)
      BY <1>5
    <2> DEFINE h == [T \in Upto(i) |-> IF Cardinality(T) = i THEN f[Picked(T)] + g[T \ {Picked(T)}] ELSE g[T]]
    <2>1. ASSUME NEW T \in Upto(i), T # {}
          PROVE  T \ {Picked(T)} \in Upto(i - 1) /\ Cardinality(T \ {Picked(T)}) # i
      <3>1. /\ Cardinality(T) \in Nat /\ Cardinality(T) <= i
            /\ Cardinality(T \ {Picked(T)}) = Cardinality(T) - 1
        BY <2>1, <1>2, <1>3
      <3>2. /\ Cardinality(T \ {Picked(T)}) <= i - 1
            /\ Cardinality(T \ {Picked(T)}) # i
        BY <3>1
      <3> QED BY <3>2
    <2>2. \A T \in Upto(i) : Cardinality(T) = i => T # {}
      BY <1>2
    <2>3. \A T \in Upto(i) : Cardinality(T) # i => T \in Upto(i - 1)
      BY <1>1, <1>2
    <2>4. {} \in Upto(i - 1) /\ {} \in Upto(i) /\ Cardinality({}) # i
      BY <1>1, <1>2
    <2>5. \A T \in Upto(i - 1) : T \in Upto(i)
      BY <1>1, <1>2
    <2>6. \A T \in Upto(i) : T # {} => f[Picked(T)] \in Int
      BY <1>3
    <2>7. \A T \in Upto(i) : T # {} => g[T \ {Picked(T)}] \in Int
      BY <2>1
    <2> HIDE DEF Upto
    <2>8. h \in [Upto(i) -> Int]
      BY <2>2, <2>3, <2>6, <2>7
    <2>9. h[{}] = 0
      BY <2>4
    <2>10. ASSUME NEW T \in Upto(i), T # {} PROVE h[T] = f[Picked(T)] + h[T \ {Picked(T)}]
      <3>1. h[T \ {Picked(T)}] = g[T \ {Picked(T)}]
        BY <2>1, <2>5, <2>10
      <3>2. CASE Cardinality(T) = i
        BY <3>1, <3>2
      <3>3. CASE Cardinality(T) # i
        BY <2>3, <2>10, <3>1, <3>3
      <3> QED BY <3>2, <3>3
    <2> HIDE DEF h
    <2>11. Sums(h, i)
      BY <2>9, <2>10
    <2>12. i \in 0 .. n
      BY <1>1
    <2> HIDE DEF Sums, n
    <2> QED BY <2>8, <2>11, <2>12
  <1>6. n \in Q
    <2>1. n \in 0 .. n
      BY <1>1
    <2> HIDE DEF Q, n
    <2> QED BY <1>1, <1>4, <1>5, <2>1, UpTo
  <1>7. Upto(n) = SUBSET D
    BY <1>1, <1>2
  <1> HIDE DEF Upto
  <1> QED BY <1>6, <1>7 DEF IsSummation

\* Sums do not depend on the order.
LEMMA SummedInAnyOrder ==
  ASSUME NEW D, NEW f, NEW g, NEW S, NEW a,
         IsFiniteSet(D), \A x \in D : f[x] \in Int, IsSummation(g, D, f), S \in SUBSET D, a \in S
  PROVE  g[S] = f[a] + g[S \ {a}]
  <1> DEFINE n == Cardinality(D)
             Q == {i \in 0 .. n : \A T \in SUBSET D : Cardinality(T) = i =>
                                    \A x \in T : g[T] = f[x] + g[T \ {x}]}
  <1>1. n \in Nat
    BY FS_CardinalityType
  <1>2. \A T \in SUBSET D : IsFiniteSet(T) /\ Cardinality(T) \in 0 .. n /\ (Cardinality(T) = 0 <=> T = {})
    BY <1>1, FS_Subset, FS_CardinalityType, FS_EmptySet
  <1>3. 0 \in Q
    BY <1>1, <1>2
  <1>4. ASSUME NEW i \in 1 .. n, i - 1 \in Q PROVE i \in Q
    <2> SUFFICES ASSUME NEW T \in SUBSET D, Cardinality(T) = i, NEW x \in T
                 PROVE  g[T] = f[x] + g[T \ {x}]
      BY <1>1
    <2> DEFINE y == Picked(T)
    <2>1. y \in T /\ g[T] = f[y] + g[T \ {y}]
      BY DEF Picked, IsSummation
    <2> HIDE DEF y
    <2>2. CASE x = y
      BY <2>1, <2>2
    <2>3. CASE x # y
      <3> DEFINE U == T \ {y}
                 V == T \ {x}
                 W == T \ {x, y}
      <3>1. Cardinality(U) = i - 1 /\ Cardinality(V) = i - 1
        BY <1>2, <2>1, FS_RemoveElement
      <3>2. x \in U /\ y \in V /\ U \ {x} = W /\ V \ {y} = W /\ U \in SUBSET D /\ V \in SUBSET D /\ W \in SUBSET D
        BY <2>1, <2>3
      <3> HIDE DEF U, V, W
      <3>3. g[U] = f[x] + g[W] /\ g[V] = f[y] + g[W]
        BY <1>4, <3>1, <3>2
      <3>4. f[x] \in Int /\ f[y] \in Int /\ g[W] \in Int
        BY <2>1, <3>2 DEF IsSummation
      <3> QED BY <2>1, <3>3, <3>4 DEF U, V
    <2> QED BY <2>2, <2>3
  <1>5. \A i \in 0 .. n : i \in Q
    <2> HIDE DEF Q, n
    <2> QED BY <1>1, <1>3, <1>4, UpTo
  <1> QED BY <1>2, <1>5

\* SumFunctionOnSet is a summation.
LEMMA SummedOver ==
  ASSUME NEW S, IsFiniteSet(S), NEW f, \A x \in S : f[x] \in Int,
         NEW g, IsSummation(g, S, f)
  PROVE  SumFunctionOnSet(f, S) = g[S]
  <1> DEFINE Rec(h) == h = [s \in SUBSET S |-> IF s = {} THEN 0
                              ELSE f[CHOOSE x \in s : TRUE] + h[s \ {CHOOSE x \in s : TRUE}]]
             iter == CHOOSE h : Rec(h)
  <1>1. Rec(g)
    <2>1. g = [s \in SUBSET S |-> g[s]]
      BY DEF IsSummation
    <2>2. \A s \in SUBSET S : g[s] = IF s = {} THEN 0 
               ELSE f[CHOOSE x \in s : TRUE] + g[s \ {CHOOSE x \in s : TRUE}]
      BY DEF IsSummation, Picked
    <2> QED BY <2>1, <2>2
  <1>2. Rec(iter)
    <2> HIDE DEF Rec
    <2> QED BY <1>1
  <1>3. SumFunctionOnSet(f, S) = iter[S]
    BY DEF SumFunctionOnSet, FoldFunctionOnSet, MapThenFoldSet
  <1>4. \A s \in SUBSET S : iter[s] = IF s = {} THEN 0
               ELSE f[CHOOSE x \in s : TRUE] + iter[s \ {CHOOSE x \in s : TRUE}]
    BY <1>2
  <1> HIDE DEF iter, Rec
  <1> DEFINE n == Cardinality(S)
             Q == {i \in 0 .. n : \A T \in SUBSET S : Cardinality(T) = i => iter[T] = g[T]}
  <1>5. n \in Nat
    BY FS_CardinalityType
  <1>6. \A T \in SUBSET S : IsFiniteSet(T) /\ Cardinality(T) \in 0 .. n /\ (Cardinality(T) = 0 <=> T = {})
    BY <1>5, FS_Subset, FS_CardinalityType, FS_EmptySet
  <1>7. iter[{}] = g[{}]
    BY <1>4 DEF IsSummation
  <1>8. 0 \in Q
    BY <1>5, <1>6, <1>7
  <1>9. ASSUME NEW i \in 1 .. n, i - 1 \in Q PROVE i \in Q
    <2> SUFFICES ASSUME NEW T \in SUBSET S, Cardinality(T) = i PROVE iter[T] = g[T]
      BY <1>5
    <2> DEFINE x == Picked(T)
    <2>1. T # {}
      BY <1>6
    <2>2. x \in T
      BY <2>1 DEF Picked
    <2>3. iter[T] = f[x] + iter[T \ {x}]
      BY <1>4, <2>1 DEF Picked
    <2>4. g[T] = f[x] + g[T \ {x}]
      BY <2>1 DEF IsSummation
    <2> HIDE DEF x
    <2>5. Cardinality(T \ {x}) = i - 1 /\ T \ {x} \in SUBSET S
      BY <1>6, <2>2, FS_RemoveElement
    <2>6. iter[T \ {x}] = g[T \ {x}]
      BY <1>9, <2>5
    <2> QED BY <2>3, <2>4, <2>6
  <1>10. S \in SUBSET S /\ n \in 0 .. n
    BY <1>5
  <1>11. \A i \in 0 .. n : i \in Q
    <2> HIDE DEF Q, n
    <2> QED BY <1>5, <1>8, <1>9, UpTo
  <1> QED BY <1>3, <1>10, <1>11

\* What a sum over a finite set is: nothing for the empty set, and any element
\* plus the sum over the others.
LEMMA SumUnfolds ==
  ASSUME NEW D, IsFiniteSet(D), NEW f, \A x \in D : f[x] \in Int
  PROVE  /\ SumFunctionOnSet(f, {}) = 0
         /\ \A T \in SUBSET D : /\ SumFunctionOnSet(f, T) \in Int
                                /\ \A x \in T : SumFunctionOnSet(f, T) = f[x] + SumFunctionOnSet(f, T \ {x})
  <1> PICK g : IsSummation(g, D, f)
    BY SummationExists
  <1>1. ASSUME NEW T \in SUBSET D PROVE SumFunctionOnSet(f, T) = g[T]
    <2> DEFINE h == [s \in SUBSET T |-> g[s]]
    <2>1. IsFiniteSet(T) /\ \A x \in T : f[x] \in Int
      BY FS_Subset
    <2>2. h \in [SUBSET T -> Int] /\ h[{}] = 0 /\ h[T] = g[T]
      BY DEF IsSummation
    <2>3. ASSUME NEW s \in SUBSET T, s # {} PROVE h[s] = f[Picked(s)] + h[s \ {Picked(s)}]
      BY <2>3 DEF IsSummation
    <2>4. IsSummation(h, T, f)
      <3> HIDE DEF h
      <3> QED BY <2>2, <2>3 DEF IsSummation
    <2> HIDE DEF h
    <2> QED BY <2>1, <2>2, <2>4, SummedOver
  <1>2. g[{}] = 0 /\ \A T \in SUBSET D : g[T] \in Int
    BY DEF IsSummation
  <1>3. ASSUME NEW T \in SUBSET D, NEW x \in T
        PROVE  SumFunctionOnSet(f, T) = f[x] + SumFunctionOnSet(f, T \ {x})
    <2>2. g[T] = f[x] + g[T \ {x}]
      BY SummedInAnyOrder
    <2>3. T \ {x} \in SUBSET D
      OBVIOUS
    <2> QED BY <1>1, <2>2, <2>3
  <1> QED BY <1>1, <1>2, <1>3

\* The same for an element added.
LEMMA SumGrows ==
  ASSUME NEW D, IsFiniteSet(D), NEW f, \A x \in D : f[x] \in Int,
         NEW T \in SUBSET D, NEW x \in D \ T
  PROVE  SumFunctionOnSet(f, T \cup {x}) = f[x] + SumFunctionOnSet(f, T)
  <1>1. T \cup {x} \in SUBSET D /\ x \in T \cup {x} /\ (T \cup {x}) \ {x} = T
    OBVIOUS
  <1> QED BY <1>1, SumUnfolds

\* Only the values on the set matter.
LEMMA SumsAgree ==
  ASSUME NEW D, IsFiniteSet(D), NEW f, NEW h, \A x \in D : f[x] \in Int /\ h[x] = f[x]
  PROVE  SumFunctionOnSet(f, D) = SumFunctionOnSet(h, D)
  <1> DEFINE P == {T \in SUBSET D : SumFunctionOnSet(f, T) = SumFunctionOnSet(h, T)}
  <1>0. (\A x \in D : f[x] \in Int) /\ (\A x \in D : h[x] \in Int)
    OBVIOUS
  <1>1. {} \in P
    BY <1>0, SumUnfolds
  <1>2. ASSUME NEW T \in SUBSET D, NEW x \in D \ T, T \in P PROVE T \cup {x} \in P
    <2>1. SumFunctionOnSet(f, T \cup {x}) = f[x] + SumFunctionOnSet(f, T)
      BY <1>0, SumGrows
    <2>2. SumFunctionOnSet(h, T \cup {x}) = h[x] + SumFunctionOnSet(h, T)
      BY <1>0, SumGrows
    <2> QED BY <1>2, <2>1, <2>2
  <1>3. \A T \in SUBSET D : T \in P
    <2> HIDE DEF P
    <2> QED BY <1>1, <1>2, SubsetInduction
  <1> QED BY <1>3

\* A sum leaves out what counts for nothing.
LEMMA SumWithoutZeros ==
  ASSUME NEW D, IsFiniteSet(D), NEW f, \A x \in D : f[x] \in Int,
         NEW S \in SUBSET D, \A x \in D \ S : f[x] = 0
  PROVE  SumFunctionOnSet(f, D) = SumFunctionOnSet(f, S)
  <1> DEFINE P == {T \in SUBSET D : SumFunctionOnSet(f, T) = SumFunctionOnSet(f, T \cap S)}
  <1>1. {} \in P
    <2>1. {} \cap S = {}
      OBVIOUS
    <2> QED BY <2>1
  <1>2. ASSUME NEW T \in SUBSET D, NEW x \in D \ T, T \in P PROVE T \cup {x} \in P
    <2>1. SumFunctionOnSet(f, T \cup {x}) = f[x] + SumFunctionOnSet(f, T)
      BY SumGrows
    <2>2. SumFunctionOnSet(f, T) = SumFunctionOnSet(f, T \cap S) /\ SumFunctionOnSet(f, T) \in Int
      BY <1>2, SumUnfolds
    <2>3. CASE x \in S
      <3>1. (T \cup {x}) \cap S = (T \cap S) \cup {x} /\ T \cap S \in SUBSET D /\ x \in D \ (T \cap S)
        BY <2>3
      <3>2. SumFunctionOnSet(f, (T \cap S) \cup {x}) = f[x] + SumFunctionOnSet(f, T \cap S)
        BY <3>1, SumGrows
      <3> QED BY <2>1, <2>2, <3>1, <3>2
    <2>4. CASE x \notin S
      <3>1. (T \cup {x}) \cap S = T \cap S /\ f[x] = 0
        BY <2>4
      <3>2. SumFunctionOnSet(f, T \cup {x}) = SumFunctionOnSet(f, T)
        BY <2>1, <2>2, <3>1
      <3> QED BY <2>2, <3>1, <3>2
    <2> QED BY <2>3, <2>4
  <1>3. \A T \in SUBSET D : T \in P
    <2> HIDE DEF P
    <2> QED BY <1>1, <1>2, SubsetInduction
  <1>4. D \in SUBSET D /\ D \cap S = S
    OBVIOUS
  <1> QED BY <1>3, <1>4

\* The sum of sums.
LEMMA SumOfSums ==
  ASSUME NEW D, IsFiniteSet(D), NEW f, NEW g, NEW h,
         \A x \in D : f[x] \in Int /\ g[x] \in Int /\ h[x] = f[x] + g[x]
  PROVE  SumFunctionOnSet(h, D) = SumFunctionOnSet(f, D) + SumFunctionOnSet(g, D)
  <1> DEFINE P == {T \in SUBSET D : SumFunctionOnSet(h, T) = SumFunctionOnSet(f, T) + SumFunctionOnSet(g, T)}
  <1>0. /\ \A x \in D : f[x] \in Int
        /\ \A x \in D : g[x] \in Int
        /\ \A x \in D : h[x] \in Int
    <2>1. ASSUME NEW x \in D PROVE h[x] \in Int
      <3>1. f[x] \in Int /\ g[x] \in Int /\ h[x] = f[x] + g[x]
        OBVIOUS
      <3> QED BY <3>1
    <2> QED BY <2>1
  <1>1. {} \in P
    <2>1. SumFunctionOnSet(f, {}) = 0 /\ SumFunctionOnSet(g, {}) = 0 /\ SumFunctionOnSet(h, {}) = 0
      BY <1>0, SumUnfolds
    <2> QED BY <2>1
  <1>2. ASSUME NEW T \in SUBSET D, NEW x \in D \ T, T \in P PROVE T \cup {x} \in P
    <2>1. /\ SumFunctionOnSet(f, T \cup {x}) = f[x] + SumFunctionOnSet(f, T)
          /\ SumFunctionOnSet(g, T \cup {x}) = g[x] + SumFunctionOnSet(g, T)
          /\ SumFunctionOnSet(h, T \cup {x}) = h[x] + SumFunctionOnSet(h, T)
      BY <1>0, SumGrows
    <2>2. SumFunctionOnSet(f, T) \in Int /\ SumFunctionOnSet(g, T) \in Int
      BY <1>0, SumUnfolds
    <2>3. f[x] \in Int /\ g[x] \in Int /\ h[x] = f[x] + g[x]
      OBVIOUS
    <2>4. SumFunctionOnSet(h, T) = SumFunctionOnSet(f, T) + SumFunctionOnSet(g, T)
      BY <1>2
    <2>5. SumFunctionOnSet(h, T \cup {x}) = SumFunctionOnSet(f, T \cup {x}) + SumFunctionOnSet(g, T \cup {x})
      BY <2>1, <2>2, <2>3, <2>4
    <2> QED BY <2>5
  <1>3. \A T \in SUBSET D : T \in P
    <2> HIDE DEF P
    <2> QED BY <1>1, <1>2, SubsetInduction
  <1> QED BY <1>3

\* The sum of a table by rows is its sum by columns.
LEMMA SumsExchange ==
  ASSUME NEW A, IsFiniteSet(A), NEW D, IsFiniteSet(D), NEW m, \A x \in A : \A c \in D : m[x][c] \in Int
  PROVE  SumFunctionOnSet([x \in A |-> SumFunctionOnSet(m[x], D)], A)
           = SumFunctionOnSet([c \in D |-> SumFunctionOnSet([x \in A |-> m[x][c]], A)], D)
  <1> DEFINE row == [x \in A |-> SumFunctionOnSet(m[x], D)]
             column(c) == [x \in A |-> m[x][c]]
             columns(T) == [c \in D |-> SumFunctionOnSet(column(c), T)]
             P == {T \in SUBSET A : SumFunctionOnSet(row, T) = SumFunctionOnSet(columns(T), D)}
  <1>1. \A x \in A : row[x] \in Int
    <2>1. ASSUME NEW x \in A PROVE SumFunctionOnSet(m[x], D) \in Int
      <3>1. \A c \in D : m[x][c] \in Int
        OBVIOUS
      <3> DEFINE f == m[x]
      <3> HIDE DEF f
      <3>2. SumFunctionOnSet(f, D) \in Int
        BY <3>1, SumUnfolds DEF f
      <3> QED BY <3>2 DEF f
    <2> QED BY <2>1
  <1>2. ASSUME NEW c \in D PROVE \A x \in A : column(c)[x] \in Int /\ column(c)[x] = m[x][c]
    OBVIOUS
  <1>3. ASSUME NEW T \in SUBSET A PROVE \A c \in D : columns(T)[c] \in Int /\ columns(T)[c] = SumFunctionOnSet(column(c), T)
    <2> HIDE DEF column
    <2>1. \A c \in D : SumFunctionOnSet(column(c), T) \in Int
      BY <1>2, SumUnfolds
    <2> QED BY <2>1
  <1> HIDE DEF row, column, columns
  <1>4. {} \in P
    <2>1. \A c \in D : columns({})[c] = 0
      BY <1>2, <1>3, SumUnfolds
    <2>2. SumFunctionOnSet(columns({}), D) = SumFunctionOnSet(columns({}), {})
      <3> DEFINE f == columns({})
      <3>1. \A c \in D : f[c] = 0
        BY <2>1
      <3> HIDE DEF f
      <3>2. /\ \A c \in D : f[c] \in Int
            /\ {} \in SUBSET D /\ \A c \in D \ {} : f[c] = 0
        BY <3>1
      <3>3. SumFunctionOnSet(f, D) = SumFunctionOnSet(f, {})
        BY <3>2, SumWithoutZeros
      <3> QED BY <3>3 DEF f
    <2>3. SumFunctionOnSet(columns({}), {}) = 0 /\ SumFunctionOnSet(row, {}) = 0
      BY <1>1, <1>3, SumUnfolds
    <2> QED BY <2>2, <2>3
  <1>5. ASSUME NEW T \in SUBSET A, NEW x \in A \ T, T \in P PROVE T \cup {x} \in P
    <2> DEFINE U == T \cup {x}
    <2>1. U \in SUBSET A
      OBVIOUS
    <2>2. \A c \in D : SumFunctionOnSet(column(c), U) = m[x][c] + SumFunctionOnSet(column(c), T)
      <3>1. ASSUME NEW c \in D PROVE SumFunctionOnSet(column(c), U) = column(c)[x] + SumFunctionOnSet(column(c), T)
        BY <1>2, SumGrows
      <3> QED BY <1>2, <3>1
    <2>3. SumFunctionOnSet(row, U) = row[x] + SumFunctionOnSet(row, T)
      BY <1>1, SumGrows
    <2>4. row[x] = SumFunctionOnSet(m[x], D)
      BY DEF row
    <2> HIDE DEF U
    <2> DEFINE f == m[x]
               g == columns(T)
               h == columns(U)
    <2>5. \A c \in D : f[c] \in Int /\ g[c] \in Int /\ h[c] = f[c] + g[c]
      BY <1>3, <2>1, <2>2
    <2> HIDE DEF f, g, h
    <2>6. SumFunctionOnSet(h, D) = SumFunctionOnSet(f, D) + SumFunctionOnSet(g, D)
      BY <2>5, SumOfSums
    <2>7. SumFunctionOnSet(row, T) = SumFunctionOnSet(g, D)
      BY <1>5 DEF g
    <2>8. SumFunctionOnSet(row, U) = SumFunctionOnSet(h, D)
      BY <2>3, <2>4, <2>6, <2>7 DEF f
    <2> QED BY <2>1, <2>8 DEF U, h
  <1>6. \A T \in SUBSET A : T \in P
    <2> HIDE DEF P
    <2> QED BY <1>4, <1>5, SubsetInduction
  <1>7. SumFunctionOnSet(row, A) = SumFunctionOnSet(columns(A), D)
    BY <1>6
  <1> QED BY <1>7 DEF row, columns, column

-----------------------------------------------------------------------------
\* What a recursive function over 0..n is, when its steps stay in a set.
LEMMA RecursionSolved ==
  ASSUME NEW S, NEW n, NEW r, NEW step, NEW f,
         n \in Nat, r \in S, step \in [(1 .. n) \X S -> S], DOMAIN f = 0 .. n, f[0] = r, \A i \in 1 .. n : f[i - 1] \in S => f[i] = step[<<i, f[i - 1]>>]
  PROVE  /\ \A i \in 0 .. n : f[i] \in S
         /\ \A i \in 1 .. n : f[i] = step[<<i, f[i - 1]>>]
  <1> DEFINE P == {i \in 0 .. n : f[i] \in S}
  <1>1. 0 \in P
    OBVIOUS
  <1>2. ASSUME NEW i \in 1 .. n, i - 1 \in P PROVE i \in P
    <2>1. f[i - 1] \in S /\ i \in 0 .. n
      BY <1>2
    <2>2. step[<<i, f[i - 1]>>] \in S
      BY <2>1
    <2> QED BY <2>1, <2>2
  <1>3. \A i \in 0 .. n : i \in P
    <2> HIDE DEF P
    <2> QED BY <1>1, <1>2, UpTo
  <1>4. \A i \in 0 .. n : f[i] \in S
    BY <1>3
  <1>5. \A i \in 1 .. n : i - 1 \in 0 .. n
    OBVIOUS
  <1> QED BY <1>4, <1>5

-----------------------------------------------------------------------------
(* Finite sets in a total order R. *)

\* R orders C, and Below counts the place of an element.
IsTotalOrder(R, C) ==
  /\ \A f \in C : <<f, f>> \notin R
  /\ \A f, g \in C : f # g => <<f, g>> \in R \/ <<g, f>> \in R
  /\ \A f, g, h \in C : <<f, g>> \in R /\ <<g, h>> \in R => <<f, h>> \in R
Below(R, C, f) == {g \in C : <<g, f>> \in R}

\* Elements that are further up have more below them.
LEMMA MoreBelow ==
  ASSUME NEW C, NEW R, IsFiniteSet(C), IsTotalOrder(R, C), NEW f \in C, NEW g \in C, <<f, g>> \in R
  PROVE  Cardinality(Below(R, C, f)) < Cardinality(Below(R, C, g))
  <1>1. Below(R, C, f) \in SUBSET Below(R, C, g)
    BY DEF Below, IsTotalOrder
  <1>2. f \in Below(R, C, g) /\ f \notin Below(R, C, f)
    BY DEF Below, IsTotalOrder
  <1>3. IsFiniteSet(Below(R, C, g))
    BY FS_Subset DEF Below
  <1>4. Cardinality(Below(R, C, f)) \in Nat /\ Cardinality(Below(R, C, g)) \in Nat
    BY <1>1, <1>3, FS_Subset, FS_CardinalityType
  <1>5. /\ Cardinality(Below(R, C, f)) <= Cardinality(Below(R, C, g))
        /\ Cardinality(Below(R, C, f)) # Cardinality(Below(R, C, g))
    BY <1>1, <1>2, <1>3, FS_Subset
  <1> QED BY <1>4, <1>5

\* Counting what is below gives each element a place of its own, and fills all.
LEMMA PlacesFilled ==
  ASSUME NEW C, NEW R, IsFiniteSet(C), IsTotalOrder(R, C)
  PROVE  /\ Cardinality(C) \in Nat
         /\ \A k \in 1 .. Cardinality(C) : \E f \in C : Cardinality(Below(R, C, f)) = k - 1
         /\ \A f \in C : Cardinality(Below(R, C, f)) \in 0 .. Cardinality(C) - 1
         /\ \A f, g \in C : Cardinality(Below(R, C, f)) = Cardinality(Below(R, C, g)) => f = g
  <1> DEFINE n == Cardinality(C)
             count(f) == Cardinality(Below(R, C, f))
             place == [f \in C |-> count(f) + 1]
  <1>1. n \in Nat
    BY FS_CardinalityType
  <1>2. ASSUME NEW f \in C PROVE count(f) \in 0 .. n - 1
    <2>1. Below(R, C, f) \in SUBSET C /\ f \notin Below(R, C, f)
      BY DEF Below, IsTotalOrder
    <2>2. count(f) \in Nat /\ count(f) <= n /\ count(f) # n
      BY <2>1, FS_Subset, FS_CardinalityType
    <2> QED BY <1>1, <2>2
  <1>3. \A f, g \in C : count(f) = count(g) => f = g
    <2> SUFFICES ASSUME NEW f \in C, NEW g \in C, f # g PROVE count(f) # count(g)
      OBVIOUS
    <2>1. <<f, g>> \in R \/ <<g, f>> \in R
      BY DEF IsTotalOrder
    <2>2. count(f) \in Nat /\ count(g) \in Nat
      BY <1>1, <1>2
    <2>3. count(f) < count(g) \/ count(g) < count(f)
      BY <2>1, MoreBelow
    <2> HIDE DEF count
    <2> QED BY <2>2, <2>3
  <1> HIDE DEF count, n
  <1>4. place \in [C -> 1 .. n]
    <2>1. \A f \in C : count(f) + 1 \in 1 .. n
      BY <1>1, <1>2
    <2> QED BY <2>1
  <1>5. \A f \in C : count(f) \in Int /\ place[f] = count(f) + 1
    BY <1>1, <1>2
  <1> HIDE DEF place
  <1>6. place \in Injection(C, 1 .. n)
    <2>1. ASSUME NEW f \in C, NEW g \in C, place[f] = place[g] PROVE f = g
      <3>1. count(f) = count(g)
        BY <1>5, <2>1
      <3> QED BY <1>3, <3>1
    <2> QED BY <1>4, <2>1 DEF Injection, IsInjective
  <1>7. IsFiniteSet(1 .. n) /\ Cardinality(1 .. n) = n
    <2>1. n \in Int /\ ~(1 > n) => n - 1 + 1 = n
      BY <1>1
    <2>2. 1 > n => n = 0
      BY <1>1
    <2> QED BY <1>1, <2>1, <2>2, FS_Interval
  <1>8. place \in Surjection(C, 1 .. n)
    BY <1>6, <1>7, FS_Injection DEF n
  <1>9. ASSUME NEW k \in 1 .. n PROVE \E f \in C : count(f) = k - 1
    <2>1. PICK f \in C : place[f] = k
      BY <1>8 DEF Surjection
    <2>2. count(f) = k - 1
      BY <1>5, <2>1
    <2> QED BY <2>2
  <1> QED BY <1>1, <1>2, <1>3, <1>9 DEF n, count

\* The elements at some places of a sequence: as many as the places, when none is
\* repeated.
ElementsAt(s, I) == {s[i] : i \in I}

LEMMA CountedOnce ==
  ASSUME NEW S, NEW s, NEW I, s \in Seq(S), IsInjective(s), I \in SUBSET DOMAIN s
  PROVE  /\ IsFiniteSet(ElementsAt(s, I)) /\ Cardinality(ElementsAt(s, I)) = Cardinality(I)
         /\ Cardinality(ElementsAt(s, I)) \in Nat
  <1> DEFINE T == {s[i] : i \in I}
             f == [i \in I |-> s[i]]
  <1>1. IsFiniteSet(I)
    <2>1. DOMAIN s = 1 .. Len(s) /\ Len(s) \in Int
      BY LenProperties
    <2>2. IsFiniteSet(1 .. Len(s)) /\ I \in SUBSET (1 .. Len(s))
      BY <2>1, FS_Interval
    <2> QED BY <2>2, FS_Subset
  <1>2. f \in Surjection(I, T) /\ f \in Injection(I, T)
    <2>1. f \in [I -> T] /\ \A t \in T : \E i \in I : f[i] = t
      OBVIOUS
    <2>2. \A i, j \in I : f[i] = f[j] => i = j
      BY DEF IsInjective
    <2> QED BY <2>1, <2>2 DEF Surjection, Injection, IsInjective
  <1>3. IsFiniteSet(T) /\ Cardinality(T) = Cardinality(I) /\ Cardinality(T) \in Nat
    BY <1>1, <1>2, FS_Surjection, FS_CardinalityType
  <1> QED BY <1>3 DEF ElementsAt
=============================================================================

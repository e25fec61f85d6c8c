--------------------------- MODULE RoutingProofs ---------------------------
\* Proofs about Routing: what the strategies compute, for any number of stops, and the
\* invariant of the calls that ask them.  The folds of the strategies are functions on
\* sets of numbers; a set of numbers stands for the predicate of an induction, so that
\* what each step of a fold keeps can be carried to its end.
EXTENDS Routing, FiniteSetTheorems, TLAPS

-----------------------------------------------------------------------------
\* Induction, recursion and folds.

\* Every set of natural numbers that is not empty has a least element: of the segments
\* that end in its elements one contains no other.
LEMMA Least ==
    ASSUME NEW T \in SUBSET Nat, T # {}
    PROVE  \E n \in T : \A m \in T : n <= m
<1> DEFINE U == {0 .. n : n \in T}
<1>1. U \subseteq FiniteSubsetsOf(Nat)
  <2> SUFFICES ASSUME NEW n \in T PROVE 0 .. n \in FiniteSubsetsOf(Nat)
    OBVIOUS
  <2>1. IsFiniteSet(0 .. n) /\ 0 .. n \subseteq Nat
    BY FS_Interval
  <2> QED
    BY <2>1 DEF FiniteSubsetsOf
<1>2. U # {}
  OBVIOUS
<1>3. PICK x \in U : \A y \in U : <<y, x>> \notin StrictSubsetOrdering(Nat)
  BY <1>1, <1>2, WFMin, FS_StrictSubsetOrderingWellFounded
<1>4. PICK n \in T : x = 0 .. n
  OBVIOUS
<1>5. ASSUME NEW m \in T, m < n PROVE FALSE
  <2>1. n \in 0 .. n /\ n \notin 0 .. m /\ 0 .. m \subseteq 0 .. n
    BY <1>5
  <2>2. 0 .. m \in SUBSET Nat /\ 0 .. n \in SUBSET Nat
    OBVIOUS
  <2>3. <<0 .. m, x>> \in StrictSubsetOrdering(Nat)
    BY <2>1, <2>2, <1>4 DEF StrictSubsetOrdering
  <2> QED
    BY <2>3, <1>3
<1> QED
  BY <1>5

\* Induction, for a set of numbers in place of a predicate.
LEMMA Induction ==
    ASSUME NEW S, 0 \in S, \A n \in Nat : n \in S => n + 1 \in S
    PROVE  Nat \subseteq S
<1> SUFFICES ASSUME Nat \ S # {} PROVE FALSE
  OBVIOUS
<1>1. PICK n \in Nat \ S : \A m \in Nat \ S : n <= m
  <2> DEFINE T == Nat \ S
  <2>1. T \in SUBSET Nat /\ T # {}
    OBVIOUS
  <2> HIDE DEF T
  <2>2. \E n \in T : \A m \in T : n <= m
    BY <2>1, Least
  <2> QED
    BY <2>2 DEF T
<1>2. n # 0 /\ n - 1 \in Nat /\ n - 1 \notin Nat \ S
  BY <1>1
<1>3. (n - 1) + 1 \in S
  BY <1>2
<1> QED
  BY <1>1, <1>3

\* An element of each subset, and a function that is defined on each of them from its
\* value on the subset without that element.
Picks(S, pick) == \A T \in SUBSET S : T # {} => pick[T] \in T

Recurses(S, pick, base, next, f) ==
    \A T \in SUBSET S :
        f[T] = IF T = {} THEN base ELSE next[<<pick[T], f[T \ {pick[T]}]>>]

\* The subsets of a finite set can be defined upon one after the other, each from the
\* one without the element that is picked from it.
LEMMA SetRecursion ==
    ASSUME NEW S, IsFiniteSet(S), NEW V, NEW base \in V, NEW pick, Picks(S, pick),
           NEW next \in [S \X V -> V]
    PROVE  \E f \in [SUBSET S -> V] : Recurses(S, pick, base, next, f)
<1> DEFINE Small(n) == {T \in SUBSET S : Cardinality(T) <= n}
           Rest(T) == T \ {pick[T]}
           Solves(f, n) == \A T \in Small(n) :
               f[T] = IF T = {} THEN base ELSE next[<<pick[T], f[Rest(T)]>>]
           Solved == {n \in Nat : \E f \in [Small(n) -> V] : Solves(f, n)}
<1>1. ASSUME NEW T \in SUBSET S
      PROVE  Cardinality(T) \in Nat /\ (T # {} => /\ pick[T] \in S /\ Rest(T) \in SUBSET S
                                                  /\ Cardinality(Rest(T)) = Cardinality(T) - 1)
  <2>1. IsFiniteSet(T)
    BY FS_Subset
  <2> QED
    BY <2>1, FS_RemoveElement, FS_CardinalityType DEF Picks
<1>2. 0 \in Solved
  <2>1. \A T \in Small(0) : T = {}
    <3> TAKE T \in Small(0)
    <3>1. T \in SUBSET S /\ Cardinality(T) <= 0
      OBVIOUS
    <3>2. Cardinality(T) \in Nat /\ IsFiniteSet(T)
      BY <3>1, <1>1, FS_Subset
    <3>3. Cardinality(T) = 0
      BY <3>1, <3>2
    <3> QED
      BY <3>2, <3>3, FS_EmptySet
  <2> DEFINE g == [T \in Small(0) |-> base]
  <2>2. g \in [Small(0) -> V]
    OBVIOUS
  <2>3. Solves(g, 0)
    <3> SUFFICES ASSUME NEW T \in Small(0)
                 PROVE  g[T] = IF T = {} THEN base ELSE next[<<pick[T], g[Rest(T)]>>]
      OBVIOUS
    <3>1. T = {} /\ g[T] = base
      BY <2>1
    <3> QED
      BY <3>1
  <2> HIDE DEF Small, Solves, g
  <2> QED
    BY <2>2, <2>3
<1>3. ASSUME NEW n \in Nat, n \in Solved PROVE n + 1 \in Solved
  <2>1. PICK f \in [Small(n) -> V] : Solves(f, n)
    BY <1>3
  <2> DEFINE g == [T \in Small(n + 1) |->
                      IF T = {} THEN base ELSE next[<<pick[T], f[Rest(T)]>>]]
  <2>2. ASSUME NEW T \in Small(n + 1), T # {}
        PROVE  Rest(T) \in Small(n) /\ Rest(T) \in Small(n + 1) /\ pick[T] \in S
    <3>1. T \in SUBSET S /\ Cardinality(T) <= n + 1
      OBVIOUS
    <3>2. /\ Cardinality(T) \in Nat /\ pick[T] \in S /\ Rest(T) \in SUBSET S
          /\ Cardinality(Rest(T)) = Cardinality(T) - 1
      BY <2>2, <3>1, <1>1
    <3>3. Cardinality(Rest(T)) <= n /\ Cardinality(Rest(T)) <= n + 1
      BY <3>1, <3>2
    <3> QED
      BY <3>2, <3>3
  <2>3. ASSUME NEW T \in Small(n) PROVE T \in Small(n + 1)
    <3>1. T \in SUBSET S /\ Cardinality(T) <= n
      OBVIOUS
    <3>2. Cardinality(T) \in Nat
      BY <3>1, <1>1
    <3>3. Cardinality(T) <= n + 1
      BY <3>1, <3>2
    <3> QED
      BY <3>1, <3>3
  <2> HIDE DEF Small, Rest
  <2>4. g \in [Small(n + 1) -> V]
    <3>1. \A T \in Small(n + 1) :
              T # {} => <<pick[T], f[Rest(T)]>> \in S \X V
      BY <2>2
    <3> QED
      BY <3>1
  <2>5. \A T \in Small(n) : g[T] = f[T]
    BY <2>1, <2>3
  <2>6. Solves(g, n + 1)
    BY <2>2, <2>5
  <2> HIDE DEF g, Solves
  <2> QED
    BY <2>4, <2>6
<1>4. Cardinality(S) \in Solved
  <2> HIDE DEF Solved
  <2>1. Nat \subseteq Solved
    BY <1>2, <1>3, Induction
  <2> QED
    BY <2>1, FS_CardinalityType
<1>5. Small(Cardinality(S)) = SUBSET S
  BY FS_Subset
<1> HIDE DEF Small
<1> QED
  BY <1>4, <1>5 DEF Recurses

\* What holds in the beginning and is kept by each of n steps holds in the end.
LEMMA Steps ==
    ASSUME NEW n \in Nat, NEW g, NEW G, g[0] \in G[0],
           \A m \in 1 .. n : g[m - 1] \in G[m - 1] => g[m] \in G[m]
    PROVE  \A m \in 0 .. n : g[m] \in G[m]
<1> DEFINE S == {m \in Nat : m <= n => g[m] \in G[m]}
<1>1. 0 \in S
  OBVIOUS
<1>2. ASSUME NEW m \in Nat, m \in S PROVE m + 1 \in S
  <2>1. CASE m + 1 <= n
    <3>1. m + 1 \in 1 .. n /\ (m + 1) - 1 = m /\ g[m] \in G[m]
      BY <1>2, <2>1
    <3>2. g[(m + 1) - 1] \in G[(m + 1) - 1] => g[m + 1] \in G[m + 1]
      BY <3>1
    <3> QED
      BY <3>1, <3>2
  <2> QED
    BY <2>1
<1> HIDE DEF S
<1>3. Nat \subseteq S
  BY <1>1, <1>2, Induction
<1> QED
  BY <1>3 DEF S

\* A set of numbers from 1 to n has a greatest; that of a segment is its end.
LEMMA Greatest ==
    ASSUME NEW n \in Nat, NEW T \in SUBSET (1 .. n), T # {}
    PROVE  Max(T) \in T /\ \A m \in T : m <= Max(T)
<1> DEFINE U == {n - m : m \in T}
<1>1. U \in SUBSET Nat /\ U # {}
  <2>1. \A m \in T : n - m \in Nat
    OBVIOUS
  <2> QED
    BY <2>1
<1>2. PICK u \in U : \A v \in U : u <= v
  <2> HIDE DEF U
  <2> QED
    BY <1>1, Least
<1>3. PICK m \in T : u = n - m
  OBVIOUS
<1>4. \A k \in T : m >= k
  <2> TAKE k \in T
  <2>1. n - k \in U
    OBVIOUS
  <2>2. u <= n - k
    BY <1>2, <2>1
  <2> QED
    BY <1>3, <2>2
<1>5. \A k \in T : Max(T) >= k /\ Max(T) \in T
  BY <1>4 DEF Max
<1> QED
  BY <1>5

LEMMA GreatestOfSegment ==
    ASSUME NEW n \in Nat, NEW m \in 1 .. n
    PROVE  Max(1 .. m) = m /\ (1 .. m) \ {m} = 1 .. m - 1
<1>1. 1 .. m \in SUBSET (1 .. n) /\ m \in 1 .. m
  OBVIOUS
<1>2. Max(1 .. m) \in 1 .. m /\ m <= Max(1 .. m)
  BY <1>1, Greatest
<1> QED
  BY <1>2

\* FoldLeft picks the greatest element.
Descends(n, base, next, f) ==
    \A T \in SUBSET (1 .. n) :
        f[T] = IF T = {} THEN base ELSE next[<<Max(T), f[T \ {Max(T)}]>>]

LEMMA SegmentRecursion ==
    ASSUME NEW n \in Nat, NEW V, NEW base \in V, NEW next \in [(1 .. n) \X V -> V]
    PROVE  \E f \in [SUBSET (1 .. n) -> V] : Descends(n, base, next, f)
<1> DEFINE S == 1 .. n
           pick == [T \in SUBSET S |-> Max(T)]
<1>1. IsFiniteSet(S)
  BY FS_Interval
<1>2. \A T \in SUBSET S : pick[T] = Max(T)
  OBVIOUS
<1>3. Picks(S, pick)
  BY <1>2, Greatest DEF Picks
<1>4. next \in [S \X V -> V]
  OBVIOUS
<1> HIDE DEF S, pick
<1>5. PICK f \in [SUBSET S -> V] : Recurses(S, pick, base, next, f)
  BY <1>1, <1>3, <1>4, SetRecursion
<1>6. \A T \in SUBSET S :
          f[T] = IF T = {} THEN base ELSE next[<<Max(T), f[T \ {Max(T)}]>>]
  BY <1>2, <1>5 DEF Recurses
<1> QED
  BY <1>6 DEF S, Descends

\* Wherever a function descends in a set, and each step keeps to G.
DescendsIn(V, n, base, next, f) ==
    /\ f[{}] = base
    /\ \A T \in SUBSET (1 .. n) : T # {} /\ f[T \ {Max(T)}] \in V =>
           f[T] = next[<<Max(T), f[T \ {Max(T)}]>>]

StepsKeep(V, n, next, G) ==
    \A m \in 1 .. n, v \in V :
        v \in G[m - 1] => next[<<m, v>>] \in V /\ next[<<m, v>>] \in G[m]

LEMMA SegmentSteps ==
    ASSUME NEW n \in Nat, NEW V, NEW base \in V, NEW next, NEW f,
           DescendsIn(V, n, base, next, f),
           NEW G, base \in G[0], StepsKeep(V, n, next, G)
    PROVE  f[1 .. n] \in V /\ f[1 .. n] \in G[n]
<1> DEFINE g == [m \in 0 .. n |-> f[1 .. m]]
           W == [m \in 0 .. n |-> V \cap G[m]]
<1>1. g[0] \in W[0]
  <2>1. 1 .. 0 = {} /\ 0 \in 0 .. n
    OBVIOUS
  <2> QED
    BY <2>1 DEF DescendsIn
<1>2. ASSUME NEW m \in 1 .. n, g[m - 1] \in W[m - 1] PROVE g[m] \in W[m]
  <2>1. Max(1 .. m) = m /\ (1 .. m) \ {m} = 1 .. m - 1
    BY GreatestOfSegment
  <2>2. m \in 1 .. m /\ 1 .. m \in SUBSET (1 .. n) /\ m - 1 \in 0 .. n /\ m \in 0 .. n
    OBVIOUS
  <2>3. f[1 .. m - 1] \in V /\ f[1 .. m - 1] \in G[m - 1]
    BY <1>2, <2>2
  <2>4. f[1 .. m] = next[<<m, f[1 .. m - 1]>>]
    <3>1. f[(1 .. m) \ {Max(1 .. m)}] \in V /\ 1 .. m # {}
      BY <2>1, <2>2, <2>3
    <3>2. f[1 .. m] = next[<<Max(1 .. m), f[(1 .. m) \ {Max(1 .. m)}]>>]
      BY <2>2, <3>1 DEF DescendsIn
    <3> QED
      BY <2>1, <3>2
  <2>5. f[1 .. m] \in V /\ f[1 .. m] \in G[m]
    BY <2>3, <2>4 DEF StepsKeep
  <2> QED
    BY <2>2, <2>5
<1>3. n \in 0 .. n /\ g[n] = f[1 .. n] /\ W[n] = V \cap G[n]
  OBVIOUS
<1> HIDE DEF g, W
<1>4. g[n] \in W[n]
  BY <1>1, <1>2, <1>3, Steps
<1> QED
  BY <1>3, <1>4

\* The folds of the strategies: what each of their steps keeps holds of the whole.  V is
\* the set their values are in, and G[j] those that are fit after j steps.
LEMMA LoopOverK ==
    ASSUME NEW origin, NEW tour, NEW i \in Nat, NEW n \in Nat, n = Len(tour) - i,
           NEW V, NEW G, tour \in V, tour \in G[0],
           \A v \in V, j \in 1 .. n :
               /\ Improved(origin, v, i, i + j) \in V
               /\ v \in G[j - 1] => Improved(origin, v, i, i + j) \in G[j]
    PROVE  ImprovedFrom(origin, tour, i) \in V /\ ImprovedFrom(origin, tour, i) \in G[n]
<1> DEFINE seq == [j \in 1 .. n |-> j]
           Is(f) == f = [T \in SUBSET DOMAIN seq |->
                            IF T = {} THEN tour
                            ELSE Improved(origin, f[T \ {Max(T)}], i, i + seq[Max(T)])]
           next == [p \in (1 .. n) \X V |-> Improved(origin, p[2], i, i + p[1])]
<1>1. ImprovedFrom(origin, tour, i) = (CHOOSE f : Is(f))[DOMAIN seq]
  BY DEF ImprovedFrom, FoldLeft, MapThenFoldSet
<1>2. next \in [(1 .. n) \X V -> V]
  OBVIOUS
<1>3. \A j \in 1 .. n, v \in V : next[<<j, v>>] = Improved(origin, v, i, i + j)
  OBVIOUS
<1>4. DOMAIN seq = 1 .. n /\ \A j \in 1 .. n : seq[j] = j
  OBVIOUS
<1>5. \A T \in SUBSET (1 .. n) : T # {} => Max(T) \in 1 .. n
  BY Greatest
<1> HIDE DEF next, seq
<1>6. \E f : Is(f)
  <2>1. PICK f \in [SUBSET (1 .. n) -> V] : Descends(n, tour, next, f)
    BY <1>2, SegmentRecursion
  <2>2. ASSUME NEW T \in SUBSET (1 .. n), T # {}
        PROVE  f[T] = Improved(origin, f[T \ {Max(T)}], i, i + seq[Max(T)])
    <3>1. Max(T) \in 1 .. n /\ f[T \ {Max(T)}] \in V
      BY <1>5, <2>2
    <3>2. f[T] = next[<<Max(T), f[T \ {Max(T)}]>>]
      BY <2>1, <2>2 DEF Descends
    <3> QED
      BY <1>3, <1>4, <3>1, <3>2
  <2>3. f[{}] = tour
    BY <2>1 DEF Descends
  <2>4. Is(f)
    BY <1>4, <2>2, <2>3
  <2> QED
    BY <2>4
<1> DEFINE f == CHOOSE f : Is(f)
<1>7. Is(f)
  BY <1>6
<1> HIDE DEF f
<1>8. DescendsIn(V, n, tour, next, f)
  <2>1. f[{}] = tour
    BY <1>4, <1>7
  <2>2. ASSUME NEW T \in SUBSET (1 .. n), T # {}, f[T \ {Max(T)}] \in V
        PROVE  f[T] = next[<<Max(T), f[T \ {Max(T)}]>>]
    <3>1. Max(T) \in 1 .. n
      BY <1>5, <2>2
    <3>2. f[T] = Improved(origin, f[T \ {Max(T)}], i, i + seq[Max(T)])
      BY <1>4, <1>7, <2>2
    <3> QED
      BY <1>3, <1>4, <2>2, <3>1, <3>2
  <2> QED
    BY <2>1, <2>2 DEF DescendsIn
<1>9. StepsKeep(V, n, next, G)
  BY <1>3 DEF StepsKeep
<1>10. f[1 .. n] \in V /\ f[1 .. n] \in G[n]
  BY <1>8, <1>9, SegmentSteps
<1> QED
  BY <1>1, <1>4, <1>10 DEF f

\* The loop around it.
LEMMA LoopOverI ==
    ASSUME NEW origin, NEW tour, NEW n \in Nat, n = Len(tour) - 1,
           NEW V, NEW G, tour \in V, tour \in G[0],
           \A v \in V, j \in 1 .. n :
               /\ ImprovedFrom(origin, v, j) \in V
               /\ v \in G[j - 1] => ImprovedFrom(origin, v, j) \in G[j]
    PROVE  TwoOptPass(origin, tour) \in V /\ TwoOptPass(origin, tour) \in G[n]
<1> DEFINE seq == [i \in 1 .. n |-> i]
           Is(f) == f = [T \in SUBSET DOMAIN seq |->
                            IF T = {} THEN tour
                            ELSE ImprovedFrom(origin, f[T \ {Max(T)}], seq[Max(T)])]
           next == [p \in (1 .. n) \X V |-> ImprovedFrom(origin, p[2], p[1])]
<1>1. TwoOptPass(origin, tour) = (CHOOSE f : Is(f))[DOMAIN seq]
  BY DEF TwoOptPass, FoldLeft, MapThenFoldSet
<1>2. next \in [(1 .. n) \X V -> V]
  OBVIOUS
<1>3. \A j \in 1 .. n, v \in V : next[<<j, v>>] = ImprovedFrom(origin, v, j)
  OBVIOUS
<1>4. DOMAIN seq = 1 .. n /\ \A j \in 1 .. n : seq[j] = j
  OBVIOUS
<1>5. \A T \in SUBSET (1 .. n) : T # {} => Max(T) \in 1 .. n
  BY Greatest
<1> HIDE DEF next, seq
<1>6. \E f : Is(f)
  <2>1. PICK f \in [SUBSET (1 .. n) -> V] : Descends(n, tour, next, f)
    BY <1>2, SegmentRecursion
  <2>2. ASSUME NEW T \in SUBSET (1 .. n), T # {}
        PROVE  f[T] = ImprovedFrom(origin, f[T \ {Max(T)}], seq[Max(T)])
    <3>1. Max(T) \in 1 .. n /\ f[T \ {Max(T)}] \in V
      BY <1>5, <2>2
    <3>2. f[T] = next[<<Max(T), f[T \ {Max(T)}]>>]
      BY <2>1, <2>2 DEF Descends
    <3> QED
      BY <1>3, <1>4, <3>1, <3>2
  <2>3. f[{}] = tour
    BY <2>1 DEF Descends
  <2>4. Is(f)
    BY <1>4, <2>2, <2>3
  <2> QED
    BY <2>4
<1> DEFINE f == CHOOSE f : Is(f)
<1>7. Is(f)
  BY <1>6
<1> HIDE DEF f
<1>8. DescendsIn(V, n, tour, next, f)
  <2>1. f[{}] = tour
    BY <1>4, <1>7
  <2>2. ASSUME NEW T \in SUBSET (1 .. n), T # {}, f[T \ {Max(T)}] \in V
        PROVE  f[T] = next[<<Max(T), f[T \ {Max(T)}]>>]
    <3>1. Max(T) \in 1 .. n
      BY <1>5, <2>2
    <3>2. f[T] = ImprovedFrom(origin, f[T \ {Max(T)}], seq[Max(T)])
      BY <1>4, <1>7, <2>2
    <3> QED
      BY <1>3, <1>4, <2>2, <3>1, <3>2
  <2> QED
    BY <2>1, <2>2 DEF DescendsIn
<1>9. StepsKeep(V, n, next, G)
  BY <1>3 DEF StepsKeep
<1>10. f[1 .. n] \in V /\ f[1 .. n] \in G[n]
  BY <1>8, <1>9, SegmentSteps
<1> QED
  BY <1>1, <1>4, <1>10 DEF f

\* The rounds.
LEMMA Rounds ==
    ASSUME NEW origin, NEW tour, Len(tour) >= 4, Len(tour) \in Nat, NEW n \in Nat,
           n = Length(origin, tour),
           NEW V, NEW G, tour \in V, tour \in G[0],
           \A v \in V, j \in 1 .. n :
               /\ TwoOptPass(origin, v) \in V
               /\ v \in G[j - 1] => TwoOptPass(origin, v) \in G[j]
    PROVE  TwoOpt(origin, tour) \in V /\ TwoOpt(origin, tour) \in G[n]
<1> DEFINE seq == [m \in 1 .. n |-> m]
           Is(f) == f = [T \in SUBSET DOMAIN seq |->
                            IF T = {} THEN tour
                            ELSE TwoOptPass(origin, f[T \ {Max(T)}])]
           next == [p \in (1 .. n) \X V |-> TwoOptPass(origin, p[2])]
<1>1. TwoOpt(origin, tour) = (CHOOSE f : Is(f))[DOMAIN seq]
  BY DEF TwoOpt, FoldLeft, MapThenFoldSet
<1>2. next \in [(1 .. n) \X V -> V]
  OBVIOUS
<1>3. \A j \in 1 .. n, v \in V : next[<<j, v>>] = TwoOptPass(origin, v)
  OBVIOUS
<1>4. DOMAIN seq = 1 .. n /\ \A j \in 1 .. n : seq[j] = j
  OBVIOUS
<1>5. \A T \in SUBSET (1 .. n) : T # {} => Max(T) \in 1 .. n
  BY Greatest
<1> HIDE DEF next, seq
<1>6. \E f : Is(f)
  <2>1. PICK f \in [SUBSET (1 .. n) -> V] : Descends(n, tour, next, f)
    BY <1>2, SegmentRecursion
  <2>2. ASSUME NEW T \in SUBSET (1 .. n), T # {}
        PROVE  f[T] = TwoOptPass(origin, f[T \ {Max(T)}])
    <3>1. Max(T) \in 1 .. n /\ f[T \ {Max(T)}] \in V
      BY <1>5, <2>2
    <3>2. f[T] = next[<<Max(T), f[T \ {Max(T)}]>>]
      BY <2>1, <2>2 DEF Descends
    <3> QED
      BY <1>3, <1>4, <3>1, <3>2
  <2>3. f[{}] = tour
    BY <2>1 DEF Descends
  <2>4. Is(f)
    BY <1>4, <2>2, <2>3
  <2> QED
    BY <2>4
<1> DEFINE f == CHOOSE f : Is(f)
<1>7. Is(f)
  BY <1>6
<1> HIDE DEF f
<1>8. DescendsIn(V, n, tour, next, f)
  <2>1. f[{}] = tour
    BY <1>4, <1>7
  <2>2. ASSUME NEW T \in SUBSET (1 .. n), T # {}, f[T \ {Max(T)}] \in V
        PROVE  f[T] = next[<<Max(T), f[T \ {Max(T)}]>>]
    <3>1. Max(T) \in 1 .. n
      BY <1>5, <2>2
    <3>2. f[T] = TwoOptPass(origin, f[T \ {Max(T)}])
      BY <1>4, <1>7, <2>2
    <3> QED
      BY <1>3, <1>4, <2>2, <3>1, <3>2
  <2> QED
    BY <2>1, <2>2 DEF DescendsIn
<1>9. StepsKeep(V, n, next, G)
  BY <1>3 DEF StepsKeep
<1>10. f[1 .. n] \in V /\ f[1 .. n] \in G[n]
  BY <1>8, <1>9, SegmentSteps
<1> QED
  BY <1>1, <1>4, <1>10 DEF f

\* The visits of nearest neighbour.
LEMMA Visits ==
    ASSUME NEW first, NEW stops, NEW S, stops \in Seq(S), NEW n \in Nat, n = Len(stops),
           NEW V, NEW G, first \in V, first \in G[0],
           \A v \in V, j \in 1 .. n :
               /\ Visited(v) \in V
               /\ v \in G[j - 1] => Visited(v) \in G[j]
    PROVE  /\ FoldLeft(LAMBDA leg, s : Visited(leg), first, stops) \in V
           /\ FoldLeft(LAMBDA leg, s : Visited(leg), first, stops) \in G[n]
<1> DEFINE seq == stops
           Is(f) == f = [T \in SUBSET DOMAIN seq |->
                            IF T = {} THEN first
                            ELSE Visited(f[T \ {Max(T)}])]
           next == [p \in (1 .. n) \X V |-> Visited(p[2])]
<1>1. FoldLeft(LAMBDA leg, s : Visited(leg), first, stops) = (CHOOSE f : Is(f))[DOMAIN seq]
  BY DEF FoldLeft, MapThenFoldSet
<1>2. next \in [(1 .. n) \X V -> V]
  OBVIOUS
<1>3. \A j \in 1 .. n, v \in V : next[<<j, v>>] = Visited(v)
  OBVIOUS
<1>4. DOMAIN seq = 1 .. n /\ \A j \in 1 .. n : seq[j] = stops[j]
  OBVIOUS
<1>5. \A T \in SUBSET (1 .. n) : T # {} => Max(T) \in 1 .. n
  BY Greatest
<1> HIDE DEF next, seq
<1>6. \E f : Is(f)
  <2>1. PICK f \in [SUBSET (1 .. n) -> V] : Descends(n, first, next, f)
    BY <1>2, SegmentRecursion
  <2>2. ASSUME NEW T \in SUBSET (1 .. n), T # {}
        PROVE  f[T] = Visited(f[T \ {Max(T)}])
    <3>1. Max(T) \in 1 .. n /\ f[T \ {Max(T)}] \in V
      BY <1>5, <2>2
    <3>2. f[T] = next[<<Max(T), f[T \ {Max(T)}]>>]
      BY <2>1, <2>2 DEF Descends
    <3> QED
      BY <1>3, <1>4, <3>1, <3>2
  <2>3. f[{}] = first
    BY <2>1 DEF Descends
  <2>4. Is(f)
    BY <1>4, <2>2, <2>3
  <2> QED
    BY <2>4
<1> DEFINE f == CHOOSE f : Is(f)
<1>7. Is(f)
  BY <1>6
<1> HIDE DEF f
<1>8. DescendsIn(V, n, first, next, f)
  <2>1. f[{}] = first
    BY <1>4, <1>7
  <2>2. ASSUME NEW T \in SUBSET (1 .. n), T # {}, f[T \ {Max(T)}] \in V
        PROVE  f[T] = next[<<Max(T), f[T \ {Max(T)}]>>]
    <3>1. Max(T) \in 1 .. n
      BY <1>5, <2>2
    <3>2. f[T] = Visited(f[T \ {Max(T)}])
      BY <1>4, <1>7, <2>2
    <3> QED
      BY <1>3, <1>4, <2>2, <3>1, <3>2
  <2> QED
    BY <2>1, <2>2 DEF DescendsIn
<1>9. StepsKeep(V, n, next, G)
  BY <1>3 DEF StepsKeep
<1>10. f[1 .. n] \in V /\ f[1 .. n] \in G[n]
  BY <1>8, <1>9, SegmentSteps
<1> QED
  BY <1>1, <1>4, <1>10 DEF f

\* What FromMapbox makes of one position, and its loop.
Inputs(position, pos) == {i \in DOMAIN position : position[i] = pos}

Given(stops, position, pos) ==
    Inputs(position, pos) # {} /\ Max(Inputs(position, pos)) - 1 \in DOMAIN stops

Placed(stops, position, out, pos) ==
    IF Given(stops, position, pos)
    THEN Append(out, stops[Max(Inputs(position, pos)) - 1]) ELSE out

\* The positions of Mapbox's trip.
LEMMA Positions ==
    ASSUME NEW stops, NEW position, NEW n \in Nat, n = Len(position) - 1,
           NEW V, NEW G, <<>> \in V, <<>> \in G[0],
           \A v \in V, j \in 1 .. n :
               /\ Placed(stops, position, v, j) \in V
               /\ v \in G[j - 1] => Placed(stops, position, v, j) \in G[j]
    PROVE  FromMapbox(stops, position) \in V /\ FromMapbox(stops, position) \in G[n]
<1> DEFINE seq == [pos \in 1 .. n |-> pos]
           Is(f) == f = [T \in SUBSET DOMAIN seq |->
                            IF T = {} THEN <<>>
                            ELSE Placed(stops, position, f[T \ {Max(T)}], seq[Max(T)])]
           next == [p \in (1 .. n) \X V |-> Placed(stops, position, p[2], p[1])]
<1>1. FromMapbox(stops, position) = (CHOOSE f : Is(f))[DOMAIN seq]
  BY DEF FromMapbox, Placed, Given, Inputs, FoldLeft, MapThenFoldSet
<1>2. next \in [(1 .. n) \X V -> V]
  OBVIOUS
<1>3. \A j \in 1 .. n, v \in V : next[<<j, v>>] = Placed(stops, position, v, j)
  OBVIOUS
<1>4. DOMAIN seq = 1 .. n /\ \A j \in 1 .. n : seq[j] = j
  OBVIOUS
<1>5. \A T \in SUBSET (1 .. n) : T # {} => Max(T) \in 1 .. n
  BY Greatest
<1> HIDE DEF next, seq
<1>6. \E f : Is(f)
  <2>1. PICK f \in [SUBSET (1 .. n) -> V] : Descends(n, <<>>, next, f)
    BY <1>2, SegmentRecursion
  <2>2. ASSUME NEW T \in SUBSET (1 .. n), T # {}
        PROVE  f[T] = Placed(stops, position, f[T \ {Max(T)}], seq[Max(T)])
    <3>1. Max(T) \in 1 .. n /\ f[T \ {Max(T)}] \in V
      BY <1>5, <2>2
    <3>2. f[T] = next[<<Max(T), f[T \ {Max(T)}]>>]
      BY <2>1, <2>2 DEF Descends
    <3> QED
      BY <1>3, <1>4, <3>1, <3>2
  <2>3. f[{}] = <<>>
    BY <2>1 DEF Descends
  <2>4. Is(f)
    BY <1>4, <2>2, <2>3
  <2> QED
    BY <2>4
<1> DEFINE f == CHOOSE f : Is(f)
<1>7. Is(f)
  BY <1>6
<1> HIDE DEF f
<1>8. DescendsIn(V, n, <<>>, next, f)
  <2>1. f[{}] = <<>>
    BY <1>4, <1>7
  <2>2. ASSUME NEW T \in SUBSET (1 .. n), T # {}, f[T \ {Max(T)}] \in V
        PROVE  f[T] = next[<<Max(T), f[T \ {Max(T)}]>>]
    <3>1. Max(T) \in 1 .. n
      BY <1>5, <2>2
    <3>2. f[T] = Placed(stops, position, f[T \ {Max(T)}], seq[Max(T)])
      BY <1>4, <1>7, <2>2
    <3> QED
      BY <1>3, <1>4, <2>2, <3>1, <3>2
  <2> QED
    BY <2>1, <2>2 DEF DescendsIn
<1>9. StepsKeep(V, n, next, G)
  BY <1>3 DEF StepsKeep
<1>10. f[1 .. n] \in V /\ f[1 .. n] \in G[n]
  BY <1>8, <1>9, SegmentSteps
<1> QED
  BY <1>1, <1>4, <1>10 DEF f

-----------------------------------------------------------------------------
\* Lengths.

\* The stops whose destination is known.
Sites == {s \in Stops : place[s] \in Int}

\* A sum of natural numbers is one, in whatever order FoldFunction adds them.
LEMMA SumOfNaturals ==
    ASSUME NEW n \in Nat, NEW g \in [1 .. n -> Nat]
    PROVE  FoldFunction(+, 0, g) \in Nat
<1> DEFINE S == 1 .. n
           Is(f) == f = [T \in SUBSET DOMAIN g |->
                            IF T = {} THEN 0
                            ELSE g[CHOOSE x \in T : TRUE] + f[T \ {CHOOSE x \in T : TRUE}]]
           pick == [T \in SUBSET S |-> CHOOSE x \in T : TRUE]
           next == [p \in S \X Nat |-> g[p[1]] + p[2]]
<1>1. FoldFunction(+, 0, g) = (CHOOSE f : Is(f))[DOMAIN g]
  BY DEF FoldFunction, FoldFunctionOnSet, MapThenFoldSet
<1>2. next \in [S \X Nat -> Nat] /\ \A x \in S, v \in Nat : next[<<x, v>>] = g[x] + v
  OBVIOUS
<1>3. \A T \in SUBSET S : T # {} => (CHOOSE x \in T : TRUE) \in T
  OBVIOUS
<1>4. \A T \in SUBSET S : pick[T] = CHOOSE x \in T : TRUE
  OBVIOUS
<1>5. Picks(S, pick)
  BY <1>3, <1>4 DEF Picks
<1>6. IsFiniteSet(S) /\ DOMAIN g = S
  BY FS_Interval
<1> HIDE DEF next, pick, S
<1>7. \E f : Is(f)
  <2>1. PICK f \in [SUBSET S -> Nat] : Recurses(S, pick, 0, next, f)
    BY <1>2, <1>5, <1>6, SetRecursion
  <2>2. ASSUME NEW T \in SUBSET S, T # {}
        PROVE  f[T] = g[CHOOSE x \in T : TRUE] + f[T \ {CHOOSE x \in T : TRUE}]
    <3>1. f[T] = next[<<pick[T], f[T \ {pick[T]}]>>]
      BY <2>1, <2>2 DEF Recurses
    <3>2. pick[T] \in S /\ f[T \ {pick[T]}] \in Nat
      BY <1>5, <2>2 DEF Picks
    <3> QED
      BY <1>2, <1>4, <3>1, <3>2
  <2>3. f[{}] = 0
    BY <2>1 DEF Recurses
  <2>4. Is(f)
    BY <1>6, <2>2, <2>3
  <2> QED
    BY <2>4
<1> DEFINE f == CHOOSE f : Is(f)
<1>8. Is(f)
  BY <1>7
<1> HIDE DEF f
<1> DEFINE Natural == {m \in Nat : \A T \in SUBSET S : Cardinality(T) <= m => f[T] \in Nat}
<1>9. 0 \in Natural
  <2> SUFFICES ASSUME NEW T \in SUBSET S, Cardinality(T) <= 0 PROVE f[T] \in Nat
    OBVIOUS
  <2>1. IsFiniteSet(T) /\ Cardinality(T) \in Nat
    BY <1>6, FS_Subset, FS_CardinalityType
  <2>2. T = {}
    BY <2>1, FS_EmptySet
  <2> QED
    BY <1>6, <1>8, <2>2
<1>10. ASSUME NEW m \in Nat, m \in Natural PROVE m + 1 \in Natural
  <2>1. ASSUME NEW T \in SUBSET S, Cardinality(T) <= m + 1, T # {} PROVE f[T] \in Nat
    <3> DEFINE x == CHOOSE x \in T : TRUE
    <3>1. x \in T /\ f[T] = g[x] + f[T \ {x}]
      BY <1>6, <1>8, <2>1
    <3> HIDE DEF x
    <3>2. IsFiniteSet(T) /\ Cardinality(T) \in Nat
      BY <1>6, FS_Subset, FS_CardinalityType
    <3>3. Cardinality(T \ {x}) = Cardinality(T) - 1
      BY <3>1, <3>2, FS_RemoveElement
    <3>4. Cardinality(T \ {x}) <= m /\ T \ {x} \in SUBSET S
      BY <2>1, <3>2, <3>3
    <3>5. f[T \ {x}] \in Nat
      BY <1>10, <3>4
    <3>6. g[x] \in Nat
      BY <1>6, <3>1
    <3> QED
      BY <3>1, <3>5, <3>6
  <2>2. f[{}] \in Nat
    BY <1>6, <1>8
  <2>3. ASSUME NEW T \in SUBSET S, Cardinality(T) <= m + 1 PROVE f[T] \in Nat
    <3>1. CASE T = {}
      BY <2>2, <3>1
    <3> QED
      BY <2>1, <2>3, <3>1
  <2>4. m + 1 \in Nat
    OBVIOUS
  <2> QED
    BY <2>3, <2>4
<1>11. Cardinality(S) \in Natural
  <2> HIDE DEF Natural
  <2>1. Nat \subseteq Natural
    BY <1>9, <1>10, Induction
  <2> QED
    BY <1>6, <2>1, FS_CardinalityType
<1>12. f[S] \in Nat
  <2>1. Cardinality(S) \in Nat
    BY <1>6, FS_CardinalityType
  <2> QED
    BY <1>11, <2>1
<1> QED
  BY <1>1, <1>6, <1>12 DEF f

\* So is the length of a tour.
LEMMA LengthIsNatural ==
    ASSUME NEW origin \in Int, NEW tour \in Seq(Sites)
    PROVE  Length(origin, tour) \in Nat
<1> DEFINE from == [i \in DOMAIN tour |-> IF i = 1 THEN origin ELSE place[tour[i - 1]]]
           n == Len(tour)
           legs == [i \in DOMAIN tour |-> Distance(from[i], place[tour[i]])]
<1>1. n \in Nat /\ DOMAIN tour = 1 .. n /\ \A i \in 1 .. n : place[tour[i]] \in Int
  BY DEF Sites
<1>2. \A i \in 1 .. n : from[i] \in Int
  <2> TAKE i \in 1 .. n
  <2>1. CASE i = 1
    BY <1>1, <2>1
  <2>2. CASE i # 1
    <3>1. i - 1 \in 1 .. n
      BY <1>1, <2>2
    <3> QED
      BY <1>1, <2>2, <3>1
  <2> QED
    BY <2>1, <2>2
<1> HIDE DEF from, n
<1>3. \A i \in 1 .. n : Distance(from[i], place[tour[i]]) \in Nat
  BY <1>1, <1>2 DEF Distance
<1>4. legs \in [1 .. n -> Nat]
  BY <1>1, <1>3
<1>5. Length(origin, tour) = FoldFunction(+, 0, legs)
  BY DEF Length, from
<1> HIDE DEF legs
<1> QED
  BY <1>1, <1>4, <1>5, SumOfNaturals

-----------------------------------------------------------------------------
\* Tours.

\* The tours that visit the stops that are given, in any order.
Rearranged(stops) ==
    {tour \in Seq(Sites) : Len(tour) = Len(stops) /\ Range(tour) = Range(stops)}

\* A segment that is turned round stays in the tour.
LEMMA SwapsRearrange ==
    ASSUME NEW stops, NEW tour \in Rearranged(stops),
           NEW i \in DOMAIN tour, NEW k \in DOMAIN tour, i < k
    PROVE  Swapped(tour, i, k) \in Rearranged(stops)
<1> DEFINE n == Len(tour)
           swapped == Swapped(tour, i, k)
           at(j) == IF j \in i .. k THEN i + k - j ELSE j
<1>1. tour \in Seq(Sites) /\ n \in Nat /\ DOMAIN tour = 1 .. n /\ i \in 1 .. n /\ k \in 1 .. n
  BY DEF Rearranged
<1>2. \A j \in 1 .. n : at(j) \in 1 .. n /\ at(at(j)) = j
  BY <1>1
<1>3. DOMAIN swapped = 1 .. n /\ \A j \in 1 .. n : swapped[j] = tour[at(j)]
  BY <1>1 DEF Swapped
<1> HIDE DEF swapped, at
<1>4. \A j \in 1 .. n : tour[at(j)] \in Sites
  BY <1>1, <1>2
<1>5. swapped \in [1 .. n -> Sites]
  <2>1. swapped = [j \in 1 .. n |-> swapped[j]]
    BY <1>1 DEF swapped, Swapped
  <2> QED
    BY <1>3, <1>4, <2>1
<1>6. swapped \in Seq(Sites) /\ Len(swapped) = n
  BY <1>1, <1>5
<1>7. Range(swapped) = Range(tour)
  <2>1. ASSUME NEW j \in 1 .. n
        PROVE  /\ \E m \in 1 .. n : swapped[j] = tour[m]
               /\ \E m \in 1 .. n : tour[j] = swapped[m]
    <3>1. at(j) \in 1 .. n /\ swapped[j] = tour[at(j)] /\ swapped[at(j)] = tour[at(at(j))]
      BY <1>2, <1>3
    <3> QED
      BY <1>2, <3>1
  <2>2. /\ Range(swapped) = {swapped[j] : j \in 1 .. n}
        /\ Range(tour) = {tour[j] : j \in 1 .. n}
    BY <1>1, <1>3 DEF Range
  <2>3. {swapped[j] : j \in 1 .. n} = {tour[j] : j \in 1 .. n}
    <3>1. \A y : y \in {swapped[j] : j \in 1 .. n} <=> \E j \in 1 .. n : y = swapped[j]
      OBVIOUS
    <3>2. \A y : y \in {tour[j] : j \in 1 .. n} <=> \E j \in 1 .. n : y = tour[j]
      OBVIOUS
    <3> DEFINE X == {swapped[j] : j \in 1 .. n}
               Y == {tour[j] : j \in 1 .. n}
    <3>3. /\ \A y : y \in X <=> \E j \in 1 .. n : y = swapped[j]
          /\ \A y : y \in Y <=> \E j \in 1 .. n : y = tour[j]
      BY <3>1, <3>2
    <3> HIDE DEF X, Y, n
    <3>4. \A y : y \in X <=> y \in Y
      BY <2>1, <3>3
    <3>5. X = Y
      BY <3>4
    <3> QED
      BY <3>5 DEF X, Y
  <2> QED
    BY <2>2, <2>3
<1> QED
  BY <1>6, <1>7 DEF swapped, Rearranged

\* What a step of 2-opt does: it keeps the stops, and what it changes it shortens.
LEMMA ImprovedRearranges ==
    ASSUME NEW origin \in Int, NEW stops, NEW tour \in Rearranged(stops),
           NEW i \in DOMAIN tour, NEW k \in DOMAIN tour, i < k
    PROVE  /\ Improved(origin, tour, i, k) \in Rearranged(stops)
           /\ \/ /\ Improved(origin, tour, i, k) = tour
                 /\ Length(origin, Swapped(tour, i, k)) >= Length(origin, tour)
              \/ Length(origin, Improved(origin, tour, i, k)) < Length(origin, tour)
<1>1. Swapped(tour, i, k) \in Rearranged(stops)
  BY SwapsRearrange
<1>2. Length(origin, Swapped(tour, i, k)) \in Nat /\ Length(origin, tour) \in Nat
  BY <1>1, LengthIsNatural DEF Rearranged
<1> QED
  BY <1>1, <1>2 DEF Improved

\* A pass either shortens the tour, or leaves it as it is because no swap would.
LocalFrom(origin, tour, i, k) ==
    \A j \in i + 1 .. k : Length(origin, Swapped(tour, i, j)) >= Length(origin, tour)

\* The loop over k, the loop over i around it, and the rounds.
LEMMA LoopOverKImproves ==
    ASSUME NEW origin \in Int, NEW stops, NEW tour \in Rearranged(stops),
           NEW i \in DOMAIN tour
    PROVE  /\ ImprovedFrom(origin, tour, i) \in Rearranged(stops)
           /\ \/ /\ ImprovedFrom(origin, tour, i) = tour
                 /\ LocalFrom(origin, tour, i, Len(tour))
              \/ Length(origin, ImprovedFrom(origin, tour, i)) < Length(origin, tour)
<1> DEFINE n == Len(tour) - i
           V == Rearranged(stops)
           G == [j \in 0 .. n |->
                    {t \in V : \/ t = tour /\ LocalFrom(origin, tour, i, i + j)
                               \/ Length(origin, t) < Length(origin, tour)}]
<1>1. /\ Len(tour) \in Nat /\ DOMAIN tour = 1 .. Len(tour) /\ i \in Nat /\ n \in Nat
      /\ i \in 1 .. Len(tour)
  BY DEF Rearranged
<1>2. tour \in G[0]
  BY <1>1 DEF LocalFrom
<1>3. ASSUME NEW t \in V, NEW j \in 1 .. n
      PROVE  /\ Improved(origin, t, i, i + j) \in V
             /\ t \in G[j - 1] => Improved(origin, t, i, i + j) \in G[j]
  <2>1. i \in DOMAIN t /\ i + j \in DOMAIN t /\ i < i + j
    BY <1>1 DEF Rearranged
  <2> DEFINE u == Improved(origin, t, i, i + j)
  <2>2. /\ u \in V
        /\ \/ u = t /\ Length(origin, Swapped(t, i, i + j)) >= Length(origin, t)
           \/ Length(origin, u) < Length(origin, t)
    BY <2>1, ImprovedRearranges
  <2>3. Length(origin, t) \in Nat /\ Length(origin, u) \in Nat /\ Length(origin, tour) \in Nat
    BY <2>2, LengthIsNatural DEF Rearranged
  <2> HIDE DEF u
  <2>4. ASSUME t \in G[j - 1] PROVE u \in G[j]
    <3>1. j - 1 \in 0 .. n /\ j \in 0 .. n /\ i + j - 1 = i + (j - 1)
      BY <1>1
    <3>2. CASE Length(origin, t) < Length(origin, tour)
      BY <2>2, <2>3, <3>1, <3>2
    <3>3. CASE t = tour /\ LocalFrom(origin, tour, i, i + (j - 1))
      <4>1. u = t /\ Length(origin, Swapped(t, i, i + j)) >= Length(origin, t) =>
                LocalFrom(origin, tour, i, i + j)
        BY <1>1, <3>3 DEF LocalFrom
      <4> QED
        BY <2>2, <2>3, <3>1, <3>3, <4>1
    <3> QED
      BY <2>4, <3>1, <3>2, <3>3
  <2> QED
    BY <2>2, <2>4 DEF u
<1>4. n = Len(tour) - i /\ tour \in V
  OBVIOUS
<1> HIDE DEF V, G, n
<1>5. ImprovedFrom(origin, tour, i) \in V /\ ImprovedFrom(origin, tour, i) \in G[n]
  BY <1>1, <1>2, <1>3, <1>4, LoopOverK
<1>6. i + n = Len(tour) /\ n \in 0 .. n
  BY <1>1, <1>4
<1> QED
  BY <1>5, <1>6 DEF V, G

\* No swap of a segment that begins at i or before makes the tour shorter.
Local(origin, tour, i) ==
    \A j \in 1 .. i : LocalFrom(origin, tour, j, Len(tour))

LEMMA PassImproves ==
    ASSUME NEW origin \in Int, NEW stops, NEW tour \in Rearranged(stops), Len(tour) >= 1
    PROVE  /\ TwoOptPass(origin, tour) \in Rearranged(stops)
           /\ \/ TwoOptPass(origin, tour) = tour /\ Local(origin, tour, Len(tour) - 1)
              \/ Length(origin, TwoOptPass(origin, tour)) < Length(origin, tour)
<1> DEFINE n == Len(tour) - 1
           V == Rearranged(stops)
           G == [j \in 0 .. n |->
                    {t \in V : \/ t = tour /\ Local(origin, tour, j)
                               \/ Length(origin, t) < Length(origin, tour)}]
<1>1. Len(tour) \in Nat /\ DOMAIN tour = 1 .. Len(tour) /\ n \in Nat
  BY DEF Rearranged
<1>2. tour \in G[0]
  BY <1>1 DEF Local
<1>3. ASSUME NEW t \in V, NEW j \in 1 .. n
      PROVE  /\ ImprovedFrom(origin, t, j) \in V
             /\ t \in G[j - 1] => ImprovedFrom(origin, t, j) \in G[j]
  <2>1. j \in DOMAIN t
    BY <1>1 DEF Rearranged
  <2> DEFINE u == ImprovedFrom(origin, t, j)
  <2>2. /\ u \in V
        /\ \/ u = t /\ LocalFrom(origin, t, j, Len(t))
           \/ Length(origin, u) < Length(origin, t)
    BY <2>1, LoopOverKImproves
  <2>3. Length(origin, t) \in Nat /\ Length(origin, u) \in Nat /\ Length(origin, tour) \in Nat
    BY <2>2, LengthIsNatural DEF Rearranged
  <2> HIDE DEF u
  <2>4. ASSUME t \in G[j - 1] PROVE u \in G[j]
    <3>1. j - 1 \in 0 .. n /\ j \in 0 .. n
      BY <1>1
    <3>2. CASE Length(origin, t) < Length(origin, tour)
      BY <2>2, <2>3, <3>1, <3>2
    <3>3. CASE t = tour /\ Local(origin, tour, j - 1)
      <4>1. u = t /\ LocalFrom(origin, t, j, Len(t)) => Local(origin, tour, j)
        BY <1>1, <3>3 DEF Local
      <4> QED
        BY <2>2, <2>3, <3>1, <3>3, <4>1
    <3> QED
      BY <2>4, <3>1, <3>2, <3>3
  <2> QED
    BY <2>2, <2>4 DEF u
<1>4. n = Len(tour) - 1 /\ tour \in V
  OBVIOUS
<1> HIDE DEF V, G, n
<1>5. TwoOptPass(origin, tour) \in V /\ TwoOptPass(origin, tour) \in G[n]
  BY <1>1, <1>2, <1>3, <1>4, LoopOverI
<1>6. n \in 0 .. n
  BY <1>1
<1> QED
  BY <1>4, <1>5, <1>6 DEF V, G

\* As many rounds as the tour is long are enough: each of them makes it shorter, but
\* for the last, which finds nothing to improve.
LEMMA TwoOptEnds ==
    ASSUME NEW origin \in Int, NEW stops, NEW tour \in Rearranged(stops), Len(tour) >= 4
    PROVE  /\ TwoOpt(origin, tour) \in Rearranged(stops)
           /\ Length(origin, TwoOpt(origin, tour)) <= Length(origin, tour)
           /\ Local(origin, TwoOpt(origin, tour), Len(tour) - 1)
<1> DEFINE n == Length(origin, tour)
           V == Rearranged(stops)
           Fit(t, j) == /\ Length(origin, t) <= n
                        /\ TwoOptPass(origin, t) = t \/ Length(origin, t) + j <= n
           G == [j \in 0 .. n |-> {t \in V : Fit(t, j)}]
<1>1. Len(tour) \in Nat /\ \A t \in V : Len(t) = Len(tour)
  BY DEF Rearranged
<1>2. \A t \in V : Length(origin, t) \in Nat
  BY LengthIsNatural DEF Rearranged
<1>3. n \in Nat
  BY <1>2
<1>4. tour \in G[0]
  BY <1>3
<1>5. ASSUME NEW t \in V, NEW j \in 1 .. n
      PROVE  /\ TwoOptPass(origin, t) \in V
             /\ t \in G[j - 1] => TwoOptPass(origin, t) \in G[j]
  <2> DEFINE u == TwoOptPass(origin, t)
  <2>1. /\ u \in V
        /\ u = t \/ Length(origin, u) < Length(origin, t)
    BY <1>1, PassImproves
  <2>2. Length(origin, u) \in Nat /\ Length(origin, t) \in Nat
    BY <1>2, <2>1
  <2> HIDE DEF u, V, n
  <2>3. j - 1 \in 0 .. n /\ j \in 0 .. n
    BY <1>3
  <2>4. ASSUME Fit(t, j - 1) PROVE Fit(u, j)
    <3>1. CASE u = t
      BY <1>3, <2>2, <2>4, <3>1 DEF u
    <3>2. CASE Length(origin, u) < Length(origin, t)
      <4>1. TwoOptPass(origin, t) # t
        BY <2>2, <3>2 DEF u
      <4>2. Length(origin, t) <= n /\ Length(origin, t) + (j - 1) <= n
        BY <2>4, <4>1
      <4> QED
        BY <1>3, <2>2, <3>2, <4>2
    <3> QED
      BY <2>1, <3>1, <3>2
  <2> QED
    BY <2>1, <2>3, <2>4 DEF u
<1>6. Len(tour) >= 4 /\ n = Length(origin, tour) /\ tour \in V
  OBVIOUS
<1> HIDE DEF V, G, n
<1>7. TwoOpt(origin, tour) \in V /\ TwoOpt(origin, tour) \in G[n]
  BY <1>1, <1>3, <1>4, <1>5, <1>6, Rounds
<1>8. n \in 0 .. n
  BY <1>3
<1>9. Fit(TwoOpt(origin, tour), n)
  BY <1>7, <1>8 DEF G
<1> DEFINE u == TwoOpt(origin, tour)
           w == TwoOptPass(origin, u)
<1>10. u \in V /\ Len(u) = Len(tour) /\ Length(origin, u) \in Nat
  BY <1>1, <1>2, <1>7
<1> HIDE DEF u
<1>11. /\ w \in V
       /\ \/ w = u /\ Local(origin, u, Len(u) - 1)
          \/ Length(origin, w) < Length(origin, u)
  BY <1>1, <1>6, <1>10, PassImproves DEF V
<1>12. Length(origin, w) \in Nat
  BY <1>2, <1>11
<1>13. w = u \/ Length(origin, u) + n <= n
  BY <1>9 DEF u
<1>14. ~(Length(origin, w) < Length(origin, u))
  <2> HIDE DEF w
  <2>1. CASE w = u
    BY <1>10, <2>1
  <2>2. CASE Length(origin, u) + n <= n
    BY <1>3, <1>10, <1>12, <2>2
  <2> QED
    BY <1>13, <2>1, <2>2
<1>15. u \in Rearranged(stops)
  BY <1>10 DEF V
<1>16. Length(origin, u) <= Length(origin, tour)
  BY <1>9 DEF u, n
<1>17. Local(origin, u, Len(tour) - 1)
  BY <1>10, <1>11, <1>14
<1> QED
  BY <1>15, <1>16, <1>17 DEF u
-----------------------------------------------------------------------------
\* Nearest neighbour.

\* Of the stops that remain one is closest, the first of those that are as close.
LEMMA ClosestExists ==
    ASSUME NEW cursor \in Int, NEW stops \in Seq(Sites), stops # <<>>
    PROVE  Closest(cursor, stops) \in DOMAIN stops
<1> DEFINE D(i) == Distance(cursor, place[stops[i]])
           Ds == {D(i) : i \in DOMAIN stops}
<1>1. DOMAIN stops = 1 .. Len(stops) /\ Len(stops) \in Nat /\ 1 \in DOMAIN stops
  OBVIOUS
<1>2. \A i \in DOMAIN stops : place[stops[i]] \in Int
  BY DEF Sites
<1>3. \A i \in DOMAIN stops : D(i) \in Nat
  BY <1>2 DEF Distance
<1>4. Ds \in SUBSET Nat /\ Ds # {}
  BY <1>1, <1>3
<1>5. PICK d \in Ds : \A e \in Ds : d <= e
  <2> HIDE DEF Ds
  <2> QED
    BY <1>4, Least
<1> DEFINE Is == {i \in DOMAIN stops : D(i) = d}
<1>6. Is \in SUBSET Nat /\ Is # {}
  BY <1>1
<1>7. PICK i \in Is : \A j \in Is : i <= j
  <2> HIDE DEF Is
  <2> QED
    BY <1>6, Least
<1>8. d \in Nat /\ D(i) = d /\ i \in DOMAIN stops
  BY <1>4
<1>9. ASSUME NEW j \in DOMAIN stops
      PROVE  D(i) < D(j) \/ (D(i) = D(j) /\ i <= j)
  <2>1. d <= D(j) /\ D(j) \in Nat
    BY <1>3, <1>5
  <2>2. CASE D(j) = d
    BY <1>7, <1>8, <2>2
  <2>3. CASE D(j) # d
    BY <1>8, <2>1, <2>3
  <2> QED
    BY <2>2, <2>3
<1>10. \E m \in DOMAIN stops : \A j \in DOMAIN stops :
          D(m) < D(j) \/ (D(m) = D(j) /\ m <= j)
  BY <1>8, <1>9
<1> QED
  BY <1>10 DEF Closest

\* What is left of a sequence without one of its elements.
LEMMA RemovalKeepsTheRest ==
    ASSUME NEW S, NEW seq \in Seq(S), NEW i \in DOMAIN seq
    PROVE  /\ RemoveAt(seq, i) \in Seq(S) /\ Len(RemoveAt(seq, i)) = Len(seq) - 1
           /\ Range(RemoveAt(seq, i)) \cup {seq[i]} = Range(seq)
<1> DEFINE n == Len(seq)
           rest == RemoveAt(seq, i)
<1>1. n \in Nat /\ DOMAIN seq = 1 .. n /\ i \in 1 .. n
  OBVIOUS
<1>2. /\ SubSeq(seq, 1, i - 1) \in Seq(S) /\ Len(SubSeq(seq, 1, i - 1)) = i - 1
      /\ \A j \in 1 .. i - 1 : SubSeq(seq, 1, i - 1)[j] = seq[j]
  BY <1>1
<1>3. /\ SubSeq(seq, i + 1, n) \in Seq(S) /\ Len(SubSeq(seq, i + 1, n)) = n - i
      /\ \A j \in 1 .. n - i : SubSeq(seq, i + 1, n)[j] = seq[i + j]
  BY <1>1
<1>4. rest = SubSeq(seq, 1, i - 1) \o SubSeq(seq, i + 1, n)
  BY DEF RemoveAt
<1> DEFINE before == SubSeq(seq, 1, i - 1)
           after == SubSeq(seq, i + 1, n)
<1>0. /\ before \in Seq(S) /\ Len(before) = i - 1 /\ \A j \in 1 .. i - 1 : before[j] = seq[j]
      /\ after \in Seq(S) /\ Len(after) = n - i
      /\ \A j \in 1 .. n - i : after[j] = seq[i + j]
      /\ rest = before \o after
  BY <1>2, <1>3, <1>4
<1> HIDE DEF rest, before, after, n
<1>5. rest \in Seq(S) /\ Len(rest) = n - 1
  <2>1. rest \in Seq(S) /\ Len(rest) = Len(before) + Len(after)
    BY <1>0
  <2>2. (i - 1) + (n - i) = n - 1
    BY <1>1
  <2> QED
    BY <1>0, <2>1, <2>2
<1>6. \A j \in 1 .. n - 1 : rest[j] = IF j < i THEN seq[j] ELSE seq[j + 1]
  <2> TAKE j \in 1 .. n - 1
  <2>1. CASE j < i
    <3>1. j \in 1 .. i - 1
      BY <1>1, <2>1
    <3>2. rest[j] = before[j]
      BY <1>0, <1>1, <3>1
    <3> QED
      BY <1>0, <2>1, <3>1, <3>2
  <2>2. CASE ~(j < i)
    <3>0. j - (i - 1) \in 1 .. n - i
      BY <1>1, <2>2
    <3>1. rest[j] = after[j - (i - 1)]
      BY <1>0, <1>1, <2>2
    <3>2. i + (j - (i - 1)) = j + 1
      BY <1>1
    <3>3. rest[j] = seq[i + (j - (i - 1))]
      BY <1>0, <3>0, <3>1
    <3> QED
      BY <2>2, <3>2, <3>3
  <2> QED
    BY <2>1, <2>2
<1>7. DOMAIN rest = 1 .. n - 1
  BY <1>1, <1>5
<1>8. ASSUME NEW j \in 1 .. n - 1 PROVE \E m \in 1 .. n : rest[j] = seq[m]
  <2>1. j \in 1 .. n /\ j + 1 \in 1 .. n
    BY <1>1
  <2> QED
    BY <1>6, <2>1
<1>9. ASSUME NEW m \in 1 .. n, m # i PROVE \E j \in 1 .. n - 1 : seq[m] = rest[j]
  <2>1. CASE m < i
    <3>1. m \in 1 .. n - 1
      BY <1>1, <2>1
    <3> QED
      BY <1>6, <2>1, <3>1
  <2>2. CASE ~(m < i)
    <3>1. m - 1 \in 1 .. n - 1 /\ ~(m - 1 < i) /\ (m - 1) + 1 = m
      BY <1>1, <1>9, <2>2
    <3> QED
      BY <1>6, <3>1
  <2> QED
    BY <2>1, <2>2
<1>10. \A y : y \in Range(rest) <=> \E j \in 1 .. n - 1 : y = rest[j]
  BY <1>7 DEF Range
<1>11. \A y : y \in Range(seq) <=> \E j \in 1 .. n : y = seq[j]
  BY <1>1 DEF Range
<1>12. \A y : y \in Range(rest) \cup {seq[i]} <=> y \in Range(seq)
  <2> QED
    BY <1>1, <1>8, <1>9, <1>10, <1>11
<1>13. Range(rest) \cup {seq[i]} = Range(seq)
  BY <1>12
<1> QED
  BY <1>5, <1>13 DEF rest, n

\* What is appended is visited.
LEMMA AppendAddsToRange ==
    ASSUME NEW S, NEW seq \in Seq(S), NEW e \in S
    PROVE  Range(Append(seq, e)) = Range(seq) \cup {e}
<1> DEFINE n == Len(seq)
           longer == Append(seq, e)
<1>1. n \in Nat /\ DOMAIN seq = 1 .. n /\ DOMAIN longer = 1 .. n + 1
  OBVIOUS
<1>2. longer[n + 1] = e /\ \A j \in 1 .. n : longer[j] = seq[j]
  OBVIOUS
<1> HIDE DEF longer, n
<1>3. \A y : y \in Range(longer) <=> \E j \in 1 .. n + 1 : y = longer[j]
  BY <1>1 DEF Range
<1>4. \A y : y \in Range(seq) <=> \E j \in 1 .. n : y = seq[j]
  BY <1>1 DEF Range
<1>5. \A j \in 1 .. n + 1 : j = n + 1 \/ j \in 1 .. n
  BY <1>1
<1>6. \A j \in 1 .. n : j \in 1 .. n + 1
  BY <1>1
<1>7. n + 1 \in 1 .. n + 1
  BY <1>1
<1>8. \A y : y \in Range(longer) <=> y \in Range(seq) \cup {e}
  BY <1>2, <1>3, <1>4, <1>5, <1>6, <1>7
<1> QED
  BY <1>8 DEF longer

\* A leg of the trip: where it has been and what remains.
Legs == [tour : Seq(Sites), remaining : Seq(Sites), cursor : Int]

\* A visit moves one stop from what remains to the tour.
LEMMA VisitMovesOneStop ==
    ASSUME NEW leg \in Legs
    PROVE  /\ Visited(leg) \in Legs
           /\ leg.remaining # <<>> =>
                 /\ Len(Visited(leg).tour) = Len(leg.tour) + 1
                 /\ Len(Visited(leg).remaining) = Len(leg.remaining) - 1
                 /\ Range(Visited(leg).tour) \cup Range(Visited(leg).remaining) =
                        Range(leg.tour) \cup Range(leg.remaining)
<1>1. CASE leg.remaining = <<>>
  BY <1>1 DEF Visited
<1>2. CASE leg.remaining # <<>>
  <2> DEFINE i == Closest(leg.cursor, leg.remaining)
             next == leg.remaining[i]
             rest == RemoveAt(leg.remaining, i)
  <2>1. leg.tour \in Seq(Sites) /\ leg.remaining \in Seq(Sites) /\ leg.cursor \in Int
    BY DEF Legs
  <2>2. i \in DOMAIN leg.remaining
    BY <1>2, <2>1, ClosestExists
  <2>3. Visited(leg) = [tour |-> Append(leg.tour, next), remaining |-> rest,
                        cursor |-> place[next]]
    BY <1>2 DEF Visited
  <2> HIDE DEF i
  <2>4. next \in Sites /\ place[next] \in Int
    BY <2>1, <2>2 DEF Sites
  <2>5. /\ rest \in Seq(Sites) /\ Len(rest) = Len(leg.remaining) - 1
        /\ Range(rest) \cup {next} = Range(leg.remaining)
    BY <2>1, <2>2, RemovalKeepsTheRest
  <2> HIDE DEF next, rest
  <2>6. /\ Append(leg.tour, next) \in Seq(Sites)
        /\ Len(Append(leg.tour, next)) = Len(leg.tour) + 1
    BY <2>1, <2>4
  <2>7. Range(Append(leg.tour, next)) = Range(leg.tour) \cup {next}
    BY <2>1, <2>4, AppendAddsToRange
  <2>8. /\ Visited(leg).tour = Append(leg.tour, next)
        /\ Visited(leg).remaining = rest
    BY <2>3
  <2>9. Visited(leg) \in Legs
    BY <2>3, <2>4, <2>5, <2>6 DEF Legs
  <2>10. Range(leg.tour) \cup {next} \cup Range(rest) = Range(leg.tour) \cup Range(leg.remaining)
    BY <2>5
  <2> QED
    BY <2>5, <2>6, <2>7, <2>8, <2>9, <2>10
<1> QED
  BY <1>1, <1>2

\* After as many visits as there are stops none remains.
LEMMA NearestNeighbourRearranges ==
    ASSUME NEW origin \in Int, NEW stops \in Seq(Sites)
    PROVE  NearestNeighbour(origin, stops) \in Rearranged(stops)
<1> DEFINE n == Len(stops)
           first == [tour |-> <<>>, remaining |-> stops, cursor |-> origin]
           Fit(v, m) == /\ Len(v.tour) = m /\ Len(v.remaining) = n - m
                        /\ Range(v.tour) \cup Range(v.remaining) = Range(stops)
           G == [m \in 0 .. n |-> {v \in Legs : Fit(v, m)}]
           last == FoldLeft(LAMBDA leg, s : Visited(leg), first, stops)
<1>1. n \in Nat /\ n = Len(stops)
  OBVIOUS
<1>2. first \in Legs
  BY DEF Legs
<1>3. first \in G[0]
  <2>1. Range(<<>>) = {}
    BY DEF Range
  <2> QED
    BY <1>1, <1>2, <2>1
<1>4. ASSUME NEW v \in Legs, NEW m \in 1 .. n
      PROVE  Visited(v) \in Legs /\ (v \in G[m - 1] => Visited(v) \in G[m])
  <2>1. Visited(v) \in Legs
    BY VisitMovesOneStop
  <2>2. m - 1 \in 0 .. n /\ m \in 0 .. n
    BY <1>1
  <2>3. ASSUME Fit(v, m - 1) PROVE Fit(Visited(v), m)
    <3>1. v.remaining # <<>>
      BY <1>1, <2>3
    <3>2. v.tour \in Seq(Sites) /\ v.remaining \in Seq(Sites)
      BY DEF Legs
    <3>3. /\ Len(Visited(v).tour) = Len(v.tour) + 1
          /\ Len(Visited(v).remaining) = Len(v.remaining) - 1
          /\ Range(Visited(v).tour) \cup Range(Visited(v).remaining) =
                Range(v.tour) \cup Range(v.remaining)
      BY <3>1, VisitMovesOneStop
    <3> QED
      BY <1>1, <2>3, <3>3
  <2> HIDE DEF Fit
  <2> QED
    BY <2>1, <2>2, <2>3
<1> HIDE DEF G, first, n
<1>5. last \in Legs /\ last \in G[n]
  BY <1>1, <1>2, <1>3, <1>4, Visits
<1>6. NearestNeighbour(origin, stops) = last.tour
  BY DEF NearestNeighbour, first
<1> HIDE DEF last
<1>7. Fit(last, n) /\ last.tour \in Seq(Sites) /\ last.remaining \in Seq(Sites)
  BY <1>1, <1>5 DEF G, Legs
<1>8. Len(last.tour) = Len(stops) /\ Len(last.remaining) = 0
  BY <1>1, <1>7
<1>9. Range(last.remaining) = {}
  BY <1>7, <1>8 DEF Range
<1> QED
  BY <1>6, <1>7, <1>8, <1>9 DEF Rearranged

-----------------------------------------------------------------------------
\* The answers of the two services.

\* Where stops has the stops of a tour.
LEMMA Places ==
    ASSUME NEW stops \in Seq(Sites), NEW tour \in Seq(Sites), Range(tour) \subseteq Range(stops)
    PROVE  \E q \in [1 .. Len(tour) -> 1 .. Len(stops)] :
               \A i \in 1 .. Len(tour) : stops[q[i]] = tour[i]
<1> DEFINE q == [i \in 1 .. Len(tour) |-> CHOOSE j \in 1 .. Len(stops) : stops[j] = tour[i]]
<1>1. ASSUME NEW i \in 1 .. Len(tour)
      PROVE  q[i] \in 1 .. Len(stops) /\ stops[q[i]] = tour[i]
  <2>1. tour[i] \in Range(stops)
    BY DEF Range
  <2>2. \E j \in 1 .. Len(stops) : stops[j] = tour[i]
    BY <2>1 DEF Range
  <2> QED
    BY <2>2
<1> HIDE DEF q
<1>2. q \in [1 .. Len(tour) -> 1 .. Len(stops)]
  <2>1. q = [i \in 1 .. Len(tour) |-> q[i]]
    BY DEF q
  <2> QED
    BY <1>1, <2>1
<1> QED
  BY <1>1, <1>2

\* A tour that visits no stop twice is not longer than the stops, and if it is as long it
\* visits all of them.
LEMMA NoStopTwice ==
    ASSUME NEW stops \in Seq(Sites), NEW tour \in Seq(Sites), Range(tour) \subseteq Range(stops),
           IsInjective(tour)
    PROVE  /\ Len(tour) <= Len(stops)
           /\ Len(tour) = Len(stops) => tour \in Rearranged(stops)
<1> DEFINE m == Len(tour)
           n == Len(stops)
<1>1. PICK q \in [1 .. m -> 1 .. n] : \A i \in 1 .. m : stops[q[i]] = tour[i]
  BY Places
<1>2. m \in Nat /\ n \in Nat /\ DOMAIN tour = 1 .. m /\ DOMAIN stops = 1 .. n
  OBVIOUS
<1> HIDE DEF m, n
<1>3. /\ IsFiniteSet(1 .. m) /\ Cardinality(1 .. m) = m
      /\ IsFiniteSet(1 .. n) /\ Cardinality(1 .. n) = n
  BY <1>2, FS_Interval
<1>4. q \in Injection(1 .. m, 1 .. n)
  <2>1. \A i, j \in 1 .. m : q[i] = q[j] => i = j
    <3> SUFFICES ASSUME NEW i \in 1 .. m, NEW j \in 1 .. m, q[i] = q[j] PROVE i = j
      OBVIOUS
    <3>1. tour[i] = tour[j]
      BY <1>1
    <3> QED
      BY <1>2, <3>1 DEF IsInjective
  <2> QED
    BY <2>1 DEF Injection, IsInjective
<1>5. m <= n /\ (m = n => q \in Surjection(1 .. m, 1 .. n))
  BY <1>3, <1>4, FS_Injection
<1>6. ASSUME m = n PROVE Range(tour) = Range(stops)
  <2>1. ASSUME NEW j \in 1 .. n PROVE stops[j] \in Range(tour)
    <3>1. PICK i \in 1 .. m : q[i] = j
      BY <1>5, <1>6 DEF Surjection
    <3>2. stops[j] = tour[i]
      BY <1>1, <3>1
    <3> QED
      BY <1>2, <3>2 DEF Range
  <2>2. Range(stops) \subseteq Range(tour)
    BY <1>2, <2>1 DEF Range
  <2> QED
    BY <2>2
<1> QED
  BY <1>5, <1>6 DEF Rearranged, m, n

\* Conversely a tour of all the stops that is as long as they are visits none twice.
LEMMA EachStopOnce ==
    ASSUME NEW stops \in Seq(Sites), IsInjective(stops), NEW tour \in Rearranged(stops)
    PROVE  IsInjective(tour)
<1> DEFINE n == Len(stops)
<1>1. /\ tour \in Seq(Sites) /\ Len(tour) = n /\ Range(tour) = Range(stops) /\ n \in Nat
      /\ DOMAIN tour = 1 .. n /\ DOMAIN stops = 1 .. n
  BY DEF Rearranged
<1>2. PICK q \in [1 .. n -> 1 .. n] : \A i \in 1 .. n : tour[q[i]] = stops[i]
  <2>1. Range(stops) \subseteq Range(tour)
    BY <1>1
  <2>2. \E q \in [1 .. Len(stops) -> 1 .. Len(tour)] :
            \A i \in 1 .. Len(stops) : tour[q[i]] = stops[i]
    BY <1>1, <2>1, Places
  <2> QED
    BY <1>1, <2>2
<1> HIDE DEF n
<1>3. IsFiniteSet(1 .. n) /\ Cardinality(1 .. n) = n
  BY <1>1, FS_Interval
<1>4. q \in Injection(1 .. n, 1 .. n)
  <2>1. \A i, j \in 1 .. n : q[i] = q[j] => i = j
    <3> SUFFICES ASSUME NEW i \in 1 .. n, NEW j \in 1 .. n, q[i] = q[j] PROVE i = j
      OBVIOUS
    <3>1. stops[i] = stops[j]
      BY <1>2
    <3> QED
      BY <1>1, <3>1 DEF IsInjective
  <2> QED
    BY <2>1 DEF Injection, IsInjective
<1>5. q \in Surjection(1 .. n, 1 .. n)
  BY <1>3, <1>4, FS_Injection
<1>6. ASSUME NEW i \in 1 .. n, NEW j \in 1 .. n, tour[i] = tour[j] PROVE i = j
  <2>1. PICK a \in 1 .. n : q[a] = i
    BY <1>5 DEF Surjection
  <2>2. PICK b \in 1 .. n : q[b] = j
    BY <1>5 DEF Surjection
  <2>3. stops[a] = stops[b]
    BY <1>2, <1>6, <2>1, <2>2
  <2>4. a = b
    BY <1>1, <2>3 DEF IsInjective
  <2> QED
    BY <2>1, <2>2, <2>4
<1> QED
  BY <1>1, <1>6 DEF IsInjective

\* Whatever index Google sends that is not refused, the tour has as many visits as there
\* are stops, all of them to one of these; an index that counts gives each stop once.
LEMMA GoogleAnswers ==
    ASSUME NEW stops \in Seq(Sites), Len(stops) >= 2, NEW index \in Seq(Int),
           Len(index) = Len(stops) - 1, Range(index) \subseteq 0 .. Len(stops) - 2
    PROVE  /\ FromGoogle(stops, index) \in Seq(Sites)
           /\ Range(FromGoogle(stops, index)) \subseteq Range(stops)
           /\ Len(FromGoogle(stops, index)) = Len(stops)
           /\ Counts(index, Len(stops) - 1) => FromGoogle(stops, index) \in Rearranged(stops)
<1> DEFINE n == Len(stops)
           m == n - 1
           between == [i \in 1 .. m |-> stops[index[i] + 1]]
           out == Append(between, stops[n])
<1>1. /\ n \in Nat /\ n >= 2 /\ DOMAIN stops = 1 .. n /\ DOMAIN index = 1 .. m /\ m \in Nat
      /\ \A j \in 1 .. n : stops[j] \in Sites
  OBVIOUS
<1>2. Range(index) \subseteq 0 .. m - 1
  OBVIOUS
<1> HIDE DEF n
<1>3. \A i \in 1 .. m : index[i] \in 0 .. m - 1 /\ index[i] + 1 \in 1 .. m
                        /\ index[i] + 1 \in 1 .. n
  <2> TAKE i \in 1 .. m
  <2>1. index[i] \in Range(index)
    BY <1>1 DEF Range
  <2>2. index[i] \in 0 .. m - 1
    BY <1>2, <2>1
  <2> QED
    BY <1>1, <2>2
<1>4. FromGoogle(stops, index) = out
  <2>1. Front(stops) = [i \in 1 .. m |-> stops[i]]
    BY <1>1 DEF Front, n
  <2>2. \A i \in 1 .. m : Front(stops)[index[i] + 1] = stops[index[i] + 1]
    BY <1>3, <2>1
  <2>3. [i \in DOMAIN index |-> Front(stops)[index[i] + 1]] = between
    BY <1>1, <2>2
  <2>4. Last(stops) = stops[n]
    BY DEF Last, n
  <2> QED
    BY <2>3, <2>4 DEF FromGoogle
<1>5. stops[n] \in Sites /\ \A i \in 1 .. m : stops[index[i] + 1] \in Sites
  <2>1. n \in 1 .. n
    BY <1>1
  <2> QED
    BY <1>1, <1>3, <2>1
<1>6. between \in Seq(Sites) /\ Len(between) = m
  <2>1. between \in [1 .. m -> Sites]
    BY <1>5
  <2> QED
    BY <1>1, <2>1
<1>7. \A i \in 1 .. m : between[i] = stops[index[i] + 1]
  OBVIOUS
<1> HIDE DEF between
<1>8. out \in Seq(Sites) /\ Len(out) = m + 1 /\ m + 1 = n
  BY <1>1, <1>5, <1>6
<1>9. Range(out) = Range(between) \cup {stops[n]}
  BY <1>5, <1>6, AppendAddsToRange
<1>10. \A y : y \in Range(between) <=> \E i \in 1 .. m : y = stops[index[i] + 1]
  <2>1. DOMAIN between = 1 .. m
    BY <1>1, <1>6
  <2> QED
    BY <1>7, <2>1 DEF Range
<1>11. \A y : y \in Range(stops) <=> \E j \in 1 .. n : y = stops[j]
  BY <1>1 DEF Range
<1>12. Range(out) \subseteq Range(stops)
  <2>1. stops[n] \in Range(stops)
    <3>1. n \in 1 .. n
      BY <1>1
    <3> QED
      BY <1>11, <3>1
  <2>2. Range(between) \subseteq Range(stops)
    BY <1>3, <1>10, <1>11
  <2> QED
    BY <1>9, <2>1, <2>2
<1>13. ASSUME Counts(index, m) PROVE Range(stops) \subseteq Range(out)
  <2> SUFFICES ASSUME NEW j \in 1 .. n PROVE stops[j] \in Range(out)
    BY <1>11
  <2>1. CASE j = n
    BY <1>9, <2>1
  <2>2. CASE j # n
    <3>1. j - 1 \in 0 .. m - 1 /\ (j - 1) + 1 = j
      BY <1>1, <2>2
    <3>2. j - 1 \in Range(index)
      BY <1>13, <3>1 DEF Counts
    <3>3. PICK i \in 1 .. m : index[i] = j - 1
      BY <1>1, <3>2 DEF Range
    <3>4. stops[j] \in Range(between)
      BY <1>10, <3>1, <3>3
    <3> QED
      BY <1>9, <3>4
  <2> QED
    BY <2>1, <2>2
<1> HIDE DEF out, m
<1>14. out \in Seq(Sites) /\ Len(out) = n
  BY <1>8
<1>15. Counts(index, m) => out \in Rearranged(stops)
  BY <1>12, <1>13, <1>14 DEF Rearranged, n
<1> QED
  BY <1>4, <1>12, <1>14, <1>15 DEF m, n

\* Whatever numbers Mapbox sends, no stop is visited twice: a position has one input and an
\* input one position.  Positions that count, the origin's first, lose no stop.
LEMMA MapboxAnswers ==
    ASSUME NEW stops \in Seq(Sites), Len(stops) >= 2, IsInjective(stops),
           NEW position \in Seq(Int), position # <<>>
    PROVE  /\ FromMapbox(stops, position) \in Seq(Sites)
           /\ Range(FromMapbox(stops, position)) \subseteq Range(stops)
           /\ IsInjective(FromMapbox(stops, position))
           /\ (Counts(position, Len(stops) + 1) /\ position[1] = 0) =>
                  Len(FromMapbox(stops, position)) = Len(stops)
<1> DEFINE n == Len(position) - 1
           input(pos) == Max(Inputs(position, pos))
           given(pos) == Given(stops, position, pos)
           whole == Counts(position, Len(stops) + 1) /\ position[1] = 0
           Fit(v, m) ==
               /\ IsInjective(v)
               /\ \A i \in DOMAIN v : \E p \in 1 .. m : given(p) /\ v[i] = stops[input(p) - 1]
               /\ whole => Len(v) = m
           V == Seq(Sites)
           G == [m \in 0 .. n |-> {v \in V : Fit(v, m)}]
<1>1. n \in Nat /\ DOMAIN position = 1 .. n + 1 /\ DOMAIN stops = 1 .. Len(stops)
      /\ Len(stops) \in Nat
  OBVIOUS
<1>2. ASSUME NEW pos \in 1 .. n, Inputs(position, pos) # {}
      PROVE  input(pos) \in 1 .. n + 1 /\ position[input(pos)] = pos
  <2>1. Inputs(position, pos) \in SUBSET (1 .. n + 1) /\ n + 1 \in Nat
    BY <1>1 DEF Inputs
  <2>2. input(pos) \in Inputs(position, pos)
    BY <1>2, <2>1, Greatest
  <2> QED
    BY <1>1, <2>2 DEF Inputs
<1>3. ASSUME NEW pos \in 1 .. n, given(pos)
      PROVE  /\ input(pos) \in 1 .. n + 1 /\ position[input(pos)] = pos
             /\ input(pos) - 1 \in 1 .. Len(stops) /\ stops[input(pos) - 1] \in Sites
  BY <1>1, <1>2, <1>3 DEF Given
<1>4. ASSUME NEW pos \in 1 .. n, NEW p \in 1 .. n, given(pos), given(p),
             stops[input(pos) - 1] = stops[input(p) - 1]
      PROVE  pos = p
  <2>1. input(pos) - 1 = input(p) - 1
    BY <1>1, <1>3, <1>4 DEF IsInjective
  <2>2. input(pos) = input(p)
    BY <1>3, <1>4, <2>1
  <2> QED
    BY <1>3, <1>4, <2>2
<1>5. ASSUME whole, NEW pos \in 1 .. n PROVE given(pos)
  <2>1. Len(position) = Len(stops) + 1 /\ Range(position) = 0 .. Len(stops) + 1 - 1
    BY <1>5 DEF Counts
  <2>2. n = Len(stops)
    BY <1>1, <2>1
  <2>3. pos \in Range(position)
    BY <1>1, <2>1, <2>2
  <2>4. Inputs(position, pos) # {}
    BY <2>3 DEF Inputs, Range
  <2>5. input(pos) \in 1 .. n + 1 /\ position[input(pos)] = pos /\ pos # 0
    BY <1>2, <2>4
  <2>6. input(pos) # 1
    BY <1>5, <2>5
  <2>7. input(pos) - 1 \in DOMAIN stops
    BY <1>1, <2>2, <2>5, <2>6
  <2> QED
    BY <2>4, <2>7 DEF Given
<1>6. \A v, pos : Placed(stops, position, v, pos) =
          IF given(pos) THEN Append(v, stops[input(pos) - 1]) ELSE v
  BY DEF Placed
<1> HIDE DEF n, input, given, whole
<1>7. ASSUME NEW v \in V, NEW m \in 1 .. n
      PROVE  /\ Placed(stops, position, v, m) \in V
             /\ v \in G[m - 1] => Placed(stops, position, v, m) \in G[m]
  <2>1. CASE ~given(m)
    <3>1. Placed(stops, position, v, m) = v /\ ~whole
      BY <1>5, <1>6, <2>1
    <3>2. \A p \in 1 .. m - 1 : p \in 1 .. m
      OBVIOUS
    <3>3. m - 1 \in 0 .. n /\ m \in 0 .. n
      BY <1>1
    <3>4. Fit(v, m - 1) => Fit(v, m)
      BY <3>1, <3>2
    <3> HIDE DEF Fit, V
    <3> QED
      BY <3>1, <3>3, <3>4
  <2>2. CASE given(m)
    <3> DEFINE e == stops[input(m) - 1]
               w == Append(v, e)
    <3>1. e \in Sites /\ v \in Seq(Sites) /\ Len(v) \in Nat /\ DOMAIN v = 1 .. Len(v)
      BY <1>3, <2>2
    <3>2. Placed(stops, position, v, m) = w
      BY <1>6, <2>2
    <3> HIDE DEF e
    <3>3. /\ w \in Seq(Sites) /\ Len(w) = Len(v) + 1 /\ w[Len(v) + 1] = e
          /\ DOMAIN w = 1 .. Len(v) + 1 /\ \A i \in 1 .. Len(v) : w[i] = v[i]
      BY <3>1
    <3> HIDE DEF w
    <3>4. m - 1 \in 0 .. n /\ m \in 0 .. n /\ m \in Nat /\ m \in 1 .. m
      BY <1>1
    <3>5. ASSUME Fit(v, m - 1) PROVE Fit(w, m)
      <4>1. \A p \in 1 .. m - 1 : p \in 1 .. n /\ p # m /\ p \in 1 .. m
        BY <1>1
      <4>2. \A i \in 1 .. Len(v) : v[i] # e
        <5> SUFFICES ASSUME NEW i \in 1 .. Len(v), v[i] = e PROVE FALSE
          OBVIOUS
        <5>1. PICK p \in 1 .. m - 1 : given(p) /\ v[i] = stops[input(p) - 1]
          BY <3>1, <3>5
        <5>2. p = m
          BY <1>4, <2>2, <4>1, <5>1 DEF e
        <5> QED
          BY <4>1, <5>2
      <4>3. \A i \in 1 .. Len(v) + 1 : i = Len(v) + 1 \/ i \in 1 .. Len(v)
        BY <3>1
      <4>4. IsInjective(w)
        <5> SUFFICES ASSUME NEW i \in 1 .. Len(v) + 1, NEW j \in 1 .. Len(v) + 1, w[i] = w[j]
                     PROVE  i = j
          BY <3>3 DEF IsInjective
        <5>1. CASE i = Len(v) + 1 \/ j = Len(v) + 1
          BY <3>3, <4>2, <4>3, <5>1
        <5>2. CASE i \in 1 .. Len(v) /\ j \in 1 .. Len(v)
          <6>1. v[i] = v[j]
            BY <3>3, <5>2
          <6> QED
            BY <3>1, <3>5, <5>2, <6>1 DEF IsInjective
        <5> QED
          BY <4>3, <5>1, <5>2
      <4>5. ASSUME NEW i \in DOMAIN w
            PROVE  \E p \in 1 .. m : given(p) /\ w[i] = stops[input(p) - 1]
        <5>1. CASE i = Len(v) + 1
          BY <2>2, <3>3, <3>4, <5>1 DEF e
        <5>2. CASE i \in 1 .. Len(v)
          <6>1. PICK p \in 1 .. m - 1 : given(p) /\ v[i] = stops[input(p) - 1]
            BY <3>1, <3>5, <5>2
          <6> QED
            BY <3>3, <4>1, <5>2, <6>1
        <5> QED
          BY <3>3, <4>3, <5>1, <5>2
      <4>6. whole => Len(w) = m
        BY <3>3, <3>4, <3>5
      <4> QED
        BY <4>4, <4>5, <4>6
    <3> HIDE DEF Fit
    <3> QED
      BY <3>2, <3>3, <3>4, <3>5
  <2> QED
    BY <2>1, <2>2
<1>8. <<>> \in V /\ <<>> \in G[0]
  <2>1. Fit(<<>>, 0)
    BY DEF IsInjective
  <2>2. 0 \in 0 .. n
    BY <1>1
  <2> HIDE DEF Fit
  <2> QED
    BY <2>1, <2>2
<1>9. n = Len(position) - 1 /\ n \in Nat /\ n \in 0 .. n
  BY <1>1 DEF n
<1> HIDE DEF V, G
<1>10. FromMapbox(stops, position) \in V /\ FromMapbox(stops, position) \in G[n]
  BY <1>7, <1>8, <1>9, Positions
<1> DEFINE out == FromMapbox(stops, position)
<1>11. out \in Seq(Sites) /\ Fit(out, n)
  BY <1>9, <1>10 DEF V, G
<1> HIDE DEF out
<1>12. Range(out) \subseteq Range(stops)
  <2> SUFFICES ASSUME NEW i \in DOMAIN out PROVE out[i] \in Range(stops)
    BY DEF Range
  <2>1. PICK p \in 1 .. n : given(p) /\ out[i] = stops[input(p) - 1]
    BY <1>11
  <2>2. input(p) - 1 \in DOMAIN stops
    BY <1>1, <1>3, <2>1
  <2> QED
    BY <2>1, <2>2 DEF Range
<1>13. whole => Len(out) = Len(stops)
  <2>1. whole => n = Len(stops)
    BY <1>1, <1>9 DEF whole, Counts
  <2> QED
    BY <1>11, <2>1
<1> QED
  BY <1>11, <1>12, <1>13 DEF out, whole

-----------------------------------------------------------------------------
\* What is promised of every strategy's tour.  That of 2-opt is not longer than the one
\* it starts from, and no swap makes it shorter.
Optimal(origin, stops, tour) ==
    /\ Length(origin, tour) <= Length(origin, NearestNeighbour(origin, stops))
    /\ Len(tour) >= 4 =>
           \A i, k \in 1 .. Len(tour) :
               i < k => Length(origin, Swapped(tour, i, k)) >= Length(origin, tour)

Promised(provider, origin, stops, result) ==
    /\ result.tour \in Seq(Sites)
    /\ Range(result.tour) \subseteq Range(stops) /\ Len(result.tour) <= Len(stops)
    /\ provider # "google_routes" => IsInjective(result.tour)
    /\ provider # "mapbox" => Len(result.tour) = Len(stops)
    /\ result.sound = TRUE => result.tour \in Rearranged(stops)
    /\ provider = "nn_2opt" => Optimal(origin, stops, result.tour)

\* A tour of all the stops keeps each promise but that of 2-opt.
LEMMA RearrangedIsPromised ==
    ASSUME NEW origin, NEW stops \in Seq(Sites), IsInjective(stops), NEW provider,
           NEW result, result.tour \in Rearranged(stops),
           provider = "nn_2opt" => Optimal(origin, stops, result.tour)
    PROVE  Promised(provider, origin, stops, result)
<1>1. IsInjective(result.tour)
  BY EachStopOnce
<1>2. /\ result.tour \in Seq(Sites) /\ Range(result.tour) = Range(stops)
      /\ Len(result.tour) = Len(stops) /\ Len(stops) \in Nat
  BY DEF Rearranged
<1> QED
  BY <1>1, <1>2 DEF Promised

LEMMA ToursAnswer ==
    ASSUME NEW origin \in Int, NEW stops \in Seq(Sites), Len(stops) >= 2, IsInjective(stops),
           NEW provider \in {"haversine", "nn_2opt", "google_routes", "mapbox"},
           Answers \subseteq Seq(Int), NEW result \in Tours(provider, origin, stops)
    PROVE  Promised(provider, origin, stops, result) /\ result.sound \in BOOLEAN
<1> DEFINE near == NearestNeighbour(origin, stops)
<1>1. near \in Rearranged(stops)
  BY NearestNeighbourRearranges
<1>2. Fallback(origin, stops) = near
  BY DEF Fallback
<1>3. CASE provider = "haversine"
  <2>1. result.tour = near /\ result.sound = TRUE
    BY <1>3 DEF Tours
  <2> QED
    BY <1>1, <1>3, <2>1, RearrangedIsPromised
<1>4. CASE provider = "nn_2opt"
  <2> DEFINE tour == result.tour
  <2>1. tour = TwoOpt(origin, near) /\ result.sound = TRUE
    BY <1>4 DEF Tours
  <2>2. near \in Seq(Sites) /\ Len(near) \in Nat /\ Length(origin, near) \in Nat
    BY <1>1, LengthIsNatural DEF Rearranged
  <2> HIDE DEF near, tour
  <2>3. CASE Len(near) < 4
    <3>1. tour = near
      BY <2>1, <2>3 DEF TwoOpt
    <3>2. ~(Len(tour) >= 4) /\ Length(origin, tour) <= Length(origin, near)
      BY <2>2, <2>3, <3>1
    <3> QED
      BY <1>1, <2>1, <3>1, <3>2, RearrangedIsPromised DEF Optimal, near, tour
  <2>4. CASE ~(Len(near) < 4)
    <3>1. Len(near) >= 4
      BY <2>2, <2>4
    <3>2. /\ tour \in Rearranged(stops) /\ Length(origin, tour) <= Length(origin, near)
          /\ Local(origin, tour, Len(near) - 1)
      BY <1>1, <2>1, <3>1, TwoOptEnds
    <3>3. Len(tour) = Len(near)
      BY <1>1, <3>2 DEF Rearranged
    <3>4. ASSUME NEW i \in 1 .. Len(tour), NEW k \in 1 .. Len(tour), i < k
          PROVE  Length(origin, Swapped(tour, i, k)) >= Length(origin, tour)
      <4>1. i \in 1 .. Len(near) - 1 /\ k \in i + 1 .. Len(tour)
        BY <2>2, <3>3, <3>4
      <4> QED
        BY <3>2, <4>1 DEF Local, LocalFrom
    <3>5. Optimal(origin, stops, tour)
      BY <3>2, <3>4 DEF Optimal, near
    <3> QED
      BY <2>1, <3>2, <3>5, RearrangedIsPromised DEF tour
  <2> QED
    BY <2>3, <2>4
<1>5. CASE provider = "google_routes"
  <2>1. \/ result.tour \in {near, stops} /\ result.sound = TRUE
        \/ \E index \in Indexes(stops) :
               result = [tour |-> FromGoogle(stops, index),
                         sound |-> Counts(index, Len(stops) - 1)]
    BY <1>2, <1>5 DEF Tours
  <2>2. CASE result.tour \in {near, stops} /\ result.sound = TRUE
    <3>1. result.tour \in Rearranged(stops)
      BY <1>1, <2>2 DEF Rearranged
    <3> QED
      BY <1>5, <2>2, <3>1, RearrangedIsPromised
  <2>3. CASE \E index \in Indexes(stops) :
                 result = [tour |-> FromGoogle(stops, index),
                           sound |-> Counts(index, Len(stops) - 1)]
    <3>1. PICK index \in Indexes(stops) :
              result = [tour |-> FromGoogle(stops, index),
                        sound |-> Counts(index, Len(stops) - 1)]
      BY <2>3
    <3> DEFINE tour == FromGoogle(stops, index)
    <3>2. index \in Seq(Int) /\ Len(index) = Len(stops) - 1
          /\ Range(index) \subseteq 0 .. Len(stops) - 2
      BY DEF Indexes
    <3>3. /\ tour \in Seq(Sites) /\ Range(tour) \subseteq Range(stops)
          /\ Len(tour) = Len(stops)
          /\ Counts(index, Len(stops) - 1) => tour \in Rearranged(stops)
      BY <3>2, GoogleAnswers
    <3>4. Counts(index, Len(stops) - 1) \in BOOLEAN
      BY DEF Counts
    <3>5. /\ result.tour = tour /\ result.sound \in BOOLEAN
          /\ result.sound = TRUE => Counts(index, Len(stops) - 1)
      BY <3>1, <3>4
    <3>6. Len(stops) \in Nat
      OBVIOUS
    <3> HIDE DEF tour
    <3> QED
      BY <1>5, <3>3, <3>5, <3>6 DEF Promised
  <2> QED
    BY <2>1, <2>2, <2>3
<1>6. CASE provider = "mapbox"
  <2> DEFINE whole(position) == Counts(position, Len(stops) + 1) /\ position[1] = 0
  <2>1. \/ result.tour = near /\ result.sound = TRUE
        \/ \E position \in Answers \ {<<>>} :
               result = [tour |-> FromMapbox(stops, position), sound |-> whole(position)]
    BY <1>2, <1>6 DEF Tours
  <2>2. CASE result.tour = near /\ result.sound = TRUE
    BY <1>1, <1>6, <2>2, RearrangedIsPromised
  <2>3. CASE \E position \in Answers \ {<<>>} :
                 result = [tour |-> FromMapbox(stops, position), sound |-> whole(position)]
    <3>1. PICK position \in Answers \ {<<>>} :
              result = [tour |-> FromMapbox(stops, position), sound |-> whole(position)]
      BY <2>3
    <3> DEFINE tour == FromMapbox(stops, position)
    <3>2. /\ tour \in Seq(Sites) /\ Range(tour) \subseteq Range(stops) /\ IsInjective(tour)
          /\ whole(position) => Len(tour) = Len(stops)
      BY MapboxAnswers
    <3>3. whole(position) \in BOOLEAN
      OBVIOUS
    <3>4. /\ result.tour = tour /\ result.sound \in BOOLEAN
          /\ result.sound = TRUE => whole(position)
      <4> HIDE DEF whole
      <4> QED
        BY <3>1, <3>3
    <3> HIDE DEF tour, whole
    <3>5. Len(tour) <= Len(stops) /\ (Len(tour) = Len(stops) => tour \in Rearranged(stops))
      BY <3>2, NoStopTwice
    <3> QED
      BY <1>6, <3>2, <3>4, <3>5 DEF Promised
  <2> QED
    BY <2>1, <2>2, <2>3
<1> QED
  BY <1>3, <1>4, <1>5, <1>6

-----------------------------------------------------------------------------
\* The calls.

\* Finitely many stops and calls, integer coordinates, the four providers, and arrays of
\* any numbers for what the two services send.
RoutingConstants ==
    /\ IsFiniteSet(Stops) /\ IsFiniteSet(Handlers)
    /\ Coordinates \subseteq Int
    /\ Providers \subseteq {"haversine", "nn_2opt", "google_routes", "mapbox"}
    /\ Answers \subseteq Seq(Int)
    /\ MaxCalls \in Nat

\* The run that is loaded can be optimized, which is what Load is for.
Routable == listed \in Seq(Sites) /\ Len(listed) >= 2 /\ IsInjective(listed)

GuardedCalls == [step : {"guarded"}]
CountedCalls == [step : {"counted"}, count : Nat]
LoadCalls == [step : {"load"}]
AskedCalls ==
    {call \in [step : {"asked"}, provider : Providers, origin : Int,
               stops : {listed}, row : Run] : Routable}
AnsweredCalls ==
    {call \in [step : {"answered"}, provider : Providers, origin : Int,
               stops : {listed}, sound : BOOLEAN, row : Run] :
        /\ Routable
        /\ Promised(call.provider, call.origin, listed,
                    [tour |-> call.row.sequence, sound |-> call.sound])}
NumberCalls ==
    {call \in [step : {"number"}, sequence : Seq(Stops), next : Nat] :
        Len(call.sequence) <= Cardinality(Stops) /\ call.next \in 1 .. Len(call.sequence)}
Call == {Null} \cup GuardedCalls \cup CountedCalls \cup LoadCalls \cup AskedCalls
            \cup AnsweredCalls \cup NumberCalls

RowTypes ==
    /\ place \in [Stops -> Coordinates \cup {Null}]
    /\ listed \in Seq(Stops) /\ Len(listed) <= Cardinality(Stops) /\ IsInjective(listed)
    /\ run \in Run /\ number \in [Stops -> 0 .. Cardinality(Stops)]

CallTypes == calls \in [Handlers -> Call]

\* The calls that passed the guard and have not yet written the counter.
Counted(h) == At(h, "guarded") \/ At(h, "counted")
Counting == {h \in Handlers : Counted(h)}

\* Each of them, and each that the counter counts, was begun.
CountsWithinBegun ==
    /\ counter \in Nat /\ begun \in 0 .. MaxCalls
    /\ counter + Cardinality(Counting) <= begun
    /\ \A h \in Handlers : At(h, "counted") => calls[h].count + Cardinality(Counting) <= begun

\* The inductive invariant.
IInv == RowTypes /\ CallTypes /\ CountsWithinBegun

\* The step of a call tells which it is.
LEMMA StepsTell ==
    ASSUME NEW h \in Handlers, CallTypes
    PROVE  /\ At(h, "counted") => calls[h] \in CountedCalls
           /\ At(h, "asked") => calls[h] \in AskedCalls
           /\ At(h, "answered") => calls[h] \in AnsweredCalls
           /\ At(h, "number") => calls[h] \in NumberCalls
           /\ calls[h] \in Call
<1>1. calls[h] \in Call
  BY DEF CallTypes
<1>2. /\ \A call \in CountedCalls : call.step = "counted"
      /\ \A call \in GuardedCalls : call.step = "guarded"
  BY DEF CountedCalls, GuardedCalls
<1>3. \A call \in LoadCalls : call.step = "load"
  BY DEF LoadCalls
<1>4. \A call \in AskedCalls : call.step = "asked"
  BY DEF AskedCalls
<1>5. \A call \in AnsweredCalls : call.step = "answered"
  BY DEF AnsweredCalls
<1>6. \A call \in NumberCalls : call.step = "number"
  BY DEF NumberCalls
<1> QED
  BY <1>1, <1>2, <1>3, <1>4, <1>5, <1>6 DEF At, Idle, Call

\* SetToSeq lists a set.
LEMMA ListsASet ==
    ASSUME NEW members, IsFiniteSet(members)
    PROVE  /\ SetToSeq(members) \in Seq(members) /\ IsInjective(SetToSeq(members))
           /\ Len(SetToSeq(members)) = Cardinality(members)
<1> DEFINE n == Cardinality(members)
<1>1. n \in Nat
  BY FS_CardinalityType
<1>2. IsFiniteSet(1 .. n) /\ Cardinality(1 .. n) = n
  BY <1>1, FS_Interval
<1>3. ExistsBijection(1 .. n, members)
  BY <1>2, FS_SameCardinalityBij
<1>4. \E f \in [1 .. n -> members] : IsInjective(f)
  BY <1>3 DEF ExistsBijection, Bijection, Injection
<1>5. SetToSeq(members) \in [1 .. n -> members] /\ IsInjective(SetToSeq(members))
  BY <1>4 DEF SetToSeq
<1> HIDE DEF n
<1>6. SetToSeq(members) \in Seq(members) /\ Len(SetToSeq(members)) = n
  BY <1>1, <1>5
<1> QED
  BY <1>5, <1>6 DEF n

LEMMA InvariantInit ==
    ASSUME RoutingConstants, Init
    PROVE  IInv
<1>1. PICK members \in SUBSET Stops : listed = SetToSeq(members)
  BY DEF Init
<1>2. IsFiniteSet(members) /\ Cardinality(members) <= Cardinality(Stops)
  BY FS_Subset DEF RoutingConstants
<1>3. listed \in Seq(Stops) /\ Len(listed) <= Cardinality(Stops) /\ IsInjective(listed)
  <2>1. /\ listed \in Seq(members) /\ Len(listed) = Cardinality(members)
        /\ IsInjective(listed)
    BY <1>1, <1>2, ListsASet
  <2> QED
    BY <1>2, <2>1
<1>4. Cardinality(Stops) \in Nat
  BY FS_CardinalityType DEF RoutingConstants
<1>5. RowTypes
  <2>1. run \in Run
    BY <1>3 DEF Init, Run
  <2>2. number \in [Stops -> 0 .. Cardinality(Stops)]
    <3>1. Len(listed) \in Nat /\ DOMAIN listed = 1 .. Len(listed)
      BY <1>3
    <3>2. ASSUME NEW s \in Stops, s \in Range(listed)
          PROVE  (CHOOSE i \in DOMAIN listed : listed[i] = s) \in 0 .. Cardinality(Stops)
      <4>1. (CHOOSE i \in DOMAIN listed : listed[i] = s) \in DOMAIN listed
        BY <3>2 DEF Range
      <4> QED
        BY <1>3, <1>4, <3>1, <4>1
    <3>3. 0 \in 0 .. Cardinality(Stops)
      BY <1>4
    <3> QED
      BY <3>2, <3>3 DEF Init
  <2>3. place \in [Stops -> Coordinates \cup {Null}]
    BY DEF Init
  <2> QED
    BY <1>3, <2>1, <2>2, <2>3 DEF RowTypes
<1>6. CallTypes
  BY DEF Init, CallTypes, Call
<1>7. CountsWithinBegun
  <2>1. Counting = {} /\ \A h \in Handlers : ~At(h, "counted")
    BY DEF Init, Counting, Counted, At, Idle
  <2>2. Cardinality(Counting) = 0
    BY <2>1, FS_EmptySet
  <2> QED
    BY <2>1, <2>2 DEF Init, CountsWithinBegun, RoutingConstants
<1> QED
  BY <1>5, <1>6, <1>7 DEF IInv

\* The strategies ask for nothing but the places, which stay as they are.
LEMMA StrategiesStay ==
    ASSUME place' = place
    PROVE  /\ Sites' = Sites
           /\ \A stops : Rearranged(stops)' = Rearranged(stops)
           /\ \A provider, origin, stops, result :
                  Promised(provider, origin, stops, result)'
                      <=> Promised(provider, origin, stops, result)
<1>1. ASSUME NEW origin, NEW tour PROVE Length(origin, tour)' = Length(origin, tour)
  BY DEF Length, FoldFunction, FoldFunctionOnSet, MapThenFoldSet
<1>2. ASSUME NEW origin, NEW stops
      PROVE  NearestNeighbour(origin, stops)' = NearestNeighbour(origin, stops)
  <2>1. ASSUME NEW cursor, NEW remaining PROVE Closest(cursor, remaining)' = Closest(cursor, remaining)
    BY DEF Closest
  <2>2. ASSUME NEW leg PROVE Visited(leg)' = Visited(leg)
    BY <2>1 DEF Visited
  <2> QED
    BY <2>2 DEF NearestNeighbour, FoldLeft, MapThenFoldSet
<1>3. Sites' = Sites /\ \A stops : Rearranged(stops)' = Rearranged(stops)
  BY DEF Sites, Rearranged
<1>4. ASSUME NEW origin, NEW stops, NEW tour
      PROVE  Optimal(origin, stops, tour)' <=> Optimal(origin, stops, tour)
  BY <1>1, <1>2 DEF Optimal
<1> QED
  BY <1>3, <1>4 DEF Promised

\* The sets of calls depend on the world alone.
LEMMA CallsStay ==
    ASSUME UNCHANGED world
    PROVE  Call' = Call
<1>1. listed' = listed /\ place' = place
  BY DEF world
<1>2. Routable' = Routable
  BY <1>1, StrategiesStay DEF Routable
<1>3. AskedCalls' = AskedCalls
  BY <1>1, <1>2 DEF AskedCalls, Run
<1>4. AnsweredCalls' = AnsweredCalls
  BY <1>1, <1>2, StrategiesStay DEF AnsweredCalls, Run
<1>5. NumberCalls' = NumberCalls
  BY DEF NumberCalls
<1> QED
  BY <1>3, <1>4, <1>5 DEF Call, GuardedCalls, CountedCalls, LoadCalls

LEMMA CallsKeepTypes ==
    ASSUME CallTypes, UNCHANGED world, NEW h \in Handlers, NEW call \in Call, Moves(h, call)
    PROVE  CallTypes'
<1>1. Call' = Call
  BY CallsStay
<1>2. calls' \in [Handlers -> Call]
  BY DEF CallTypes, Moves
<1> QED
  BY <1>1, <1>2 DEF CallTypes

\* What a step does to the calls that are counting.
LEMMA CountingMoves ==
    ASSUME NEW h \in Handlers, CallTypes, RoutingConstants, NEW call, Moves(h, call)
    PROVE  /\ IsFiniteSet(Counting) /\ Cardinality(Counting) \in Nat
           /\ IsFiniteSet(Counting') /\ Cardinality(Counting') \in Nat
           /\ Cardinality(Counting') <= Cardinality(Counting) + 1
           /\ Counted(h) => Cardinality(Counting) >= 1
           /\ ~Counted(h)' =>
                 /\ Counting' = Counting \ {h}
                 /\ Cardinality(Counting') =
                        IF Counted(h) THEN Cardinality(Counting) - 1
                        ELSE Cardinality(Counting)
           /\ \A g \in Counting' : g # h => g \in Counting /\ calls'[g] = calls[g]
           /\ h \in Counting' => calls'[h] = call
<1>1. \A S \in SUBSET Handlers : IsFiniteSet(S) /\ Cardinality(S) \in Nat
  BY FS_Subset, FS_CardinalityType DEF RoutingConstants
<1>2. Counting \in SUBSET Handlers /\ Counting' \in SUBSET Handlers
  BY DEF Counting
<1>3. calls'[h] = call /\ \A g \in Handlers : g # h => calls'[g] = calls[g]
  BY DEF CallTypes, Moves
<1>4. \A g \in Handlers : g # h => (Counted(g)' <=> Counted(g))
  BY <1>3 DEF Counted, At, Idle
<1>5. Counting' \subseteq Counting \cup {h} /\ Counting \subseteq Counting' \cup {h}
  BY <1>4 DEF Counting
<1>6. Cardinality(Counting') <= Cardinality(Counting) + 1
  <2>1. IsFiniteSet(Counting \cup {h}) /\ Cardinality(Counting \cup {h}) \in Nat
    BY <1>1, <1>2
  <2>2. Cardinality(Counting') <= Cardinality(Counting \cup {h})
    BY <1>5, <2>1, FS_Subset
  <2>3. Cardinality(Counting \cup {h}) <= Cardinality(Counting) + 1
    <3>1. CASE h \in Counting
      <4>1. Counting \cup {h} = Counting
        BY <3>1
      <4> QED
        BY <1>1, <1>2, <4>1
    <3>2. CASE h \notin Counting
      <4>1. Cardinality(Counting \cup {h}) = Cardinality(Counting) + 1
        BY <1>1, <1>2, <3>2, FS_AddElement
      <4> QED
        BY <1>1, <1>2, <4>1
    <3> QED
      BY <3>1, <3>2
  <2> QED
    BY <1>1, <1>2, <2>1, <2>2, <2>3
<1>7. ASSUME Counted(h) PROVE Cardinality(Counting) >= 1
  <2>1. h \in Counting
    BY <1>7 DEF Counting
  <2>2. Cardinality(Counting) # 0
    BY <1>1, <1>2, <2>1, FS_EmptySet
  <2> QED
    BY <1>1, <1>2, <2>2
<1>8. ASSUME ~Counted(h)'
      PROVE  /\ Counting' = Counting \ {h}
             /\ Cardinality(Counting') =
                    IF Counted(h) THEN Cardinality(Counting) - 1 ELSE Cardinality(Counting)
  <2>1. Counting' = Counting \ {h}
    BY <1>4, <1>8 DEF Counting
  <2>2. CASE Counted(h)
    <3>1. h \in Counting
      BY <2>2 DEF Counting
    <3> QED
      BY <1>1, <1>2, <2>1, <2>2, <3>1, FS_RemoveElement
  <2>3. CASE ~Counted(h)
    <3>1. Counting \ {h} = Counting
      BY <2>3 DEF Counting
    <3> QED
      BY <2>1, <2>3, <3>1
  <2> QED
    BY <2>1, <2>2, <2>3
<1>9. \A g \in Counting' : g # h => g \in Counting /\ calls'[g] = calls[g]
  BY <1>2, <1>3, <1>5
<1> QED
  BY <1>1, <1>2, <1>3, <1>6, <1>7, <1>8, <1>9

\* A call that is counting no more leaves room for the others.
LEMMA CountsStay ==
    ASSUME RoutingConstants, CallTypes, CountsWithinBegun, NEW h \in Handlers,
           NEW call, Moves(h, call), call = Null \/ call.step \notin {"guarded", "counted"},
           counter' = counter, begun' \in {begun, begun + 1}, begun' \in 0 .. MaxCalls
    PROVE  CountsWithinBegun'
<1>1. calls'[h] = call
  BY DEF CallTypes, Moves
<1>2. ~Counted(h)' /\ ~At(h, "counted")'
  BY <1>1 DEF Counted, At, Idle
<1>3. /\ Cardinality(Counting) \in Nat /\ Cardinality(Counting') \in Nat
      /\ Counted(h) => Cardinality(Counting) >= 1
      /\ Cardinality(Counting') =
             IF Counted(h) THEN Cardinality(Counting) - 1 ELSE Cardinality(Counting)
  BY <1>2, CountingMoves
<1>4. Cardinality(Counting') <= Cardinality(Counting)
  BY <1>3
<1>5. \A g \in Handlers : At(g, "counted") => calls[g].count \in Nat
  BY StepsTell DEF CountedCalls
<1>6. begun \in Nat /\ begun' >= begun
  BY DEF CountsWithinBegun
<1>7. ASSUME NEW g \in Handlers, At(g, "counted")'
      PROVE  calls'[g].count + Cardinality(Counting') <= begun'
  <2>1. g # h
    BY <1>2, <1>7
  <2>2. calls'[g] = calls[g]
    BY <2>1 DEF CallTypes, Moves
  <2>3. At(g, "counted")
    BY <1>7, <2>2 DEF At, Idle
  <2>4. calls[g].count + Cardinality(Counting) <= begun /\ calls[g].count \in Nat
    BY <1>5, <2>3 DEF CountsWithinBegun
  <2> QED
    BY <1>3, <1>4, <1>6, <2>2, <2>4
<1>8. counter + Cardinality(Counting') <= begun'
  BY <1>3, <1>4, <1>6 DEF CountsWithinBegun
<1> QED
  BY <1>7, <1>8 DEF CountsWithinBegun

LEMMA GuardKeeps ==
    ASSUME RoutingConstants, IInv, NEW h \in Handlers, Guard(h)
    PROVE  IInv'
<1>1. RowTypes'
  BY DEF Guard, IInv, RowTypes, world, Run
<1>2. PICK call \in {[step |-> "load"], [step |-> "guarded"]} : Moves(h, call)
  BY DEF Guard
<1>3. call \in Call
  BY <1>2 DEF Call, LoadCalls, GuardedCalls
<1>4. CallTypes'
  BY <1>2, <1>3, CallsKeepTypes DEF IInv, Guard
<1>5. /\ CallTypes /\ CountsWithinBegun /\ begun \in Nat /\ begun < MaxCalls
      /\ begun' = begun + 1 /\ begun' \in 0 .. MaxCalls /\ counter' = counter
      /\ counter \in Nat
  BY DEF Guard, IInv, CountsWithinBegun, RoutingConstants
<1>6. CASE call = [step |-> "load"]
  <2>1. call.step \notin {"guarded", "counted"}
    BY <1>6
  <2>2. CountsWithinBegun'
    BY <1>2, <1>5, <2>1, CountsStay
  <2> QED
    BY <1>1, <1>4, <2>2 DEF IInv
<1>7. CASE call = [step |-> "guarded"]
  <2>1. /\ Cardinality(Counting) \in Nat /\ Cardinality(Counting') \in Nat
        /\ Cardinality(Counting') <= Cardinality(Counting) + 1
    BY <1>2, <1>5, CountingMoves
  <2>2. counter + Cardinality(Counting) <= begun
    BY <1>5 DEF CountsWithinBegun
  <2>3. ASSUME NEW g \in Handlers, At(g, "counted")'
        PROVE  calls'[g].count + Cardinality(Counting') <= begun + 1
    <3>1. g # h
      <4>1. calls'[h] = [step |-> "guarded"]
        BY <1>2, <1>5, <1>7 DEF CallTypes, Moves
      <4> QED
        BY <2>3, <4>1 DEF At
    <3>2. calls'[g] = calls[g]
      BY <1>2, <1>5, <3>1 DEF CallTypes, Moves
    <3>3. At(g, "counted")
      BY <2>3, <3>2 DEF At, Idle
    <3>4. calls[g].count \in Nat
      BY <1>5, <3>3, StepsTell DEF CountedCalls
    <3>5. calls[g].count + Cardinality(Counting) <= begun
      BY <1>5, <3>3 DEF CountsWithinBegun
    <3> QED
      BY <1>5, <2>1, <3>2, <3>4, <3>5
  <2>4. CountsWithinBegun'
    BY <1>5, <2>1, <2>2, <2>3 DEF CountsWithinBegun
  <2> QED
    BY <1>1, <1>4, <2>4 DEF IInv
<1> QED
  BY <1>2, <1>6, <1>7

\* The second reading of the counter, or 0.
LEMMA ReadKeeps ==
    ASSUME RoutingConstants, IInv, NEW h \in Handlers, Read(h)
    PROVE  IInv'
<1>1. RowTypes'
  BY DEF Read, IInv, RowTypes, world, Run
<1>2. /\ CallTypes /\ CountsWithinBegun /\ counter \in Nat /\ counter' = counter
      /\ begun \in 0 .. MaxCalls /\ begun' = begun /\ At(h, "guarded")
  BY DEF Read, IInv, CountsWithinBegun, bounds
<1>3. PICK n \in Nat : n <= counter /\ Moves(h, [step |-> "counted", count |-> n])
  <2>1. \A n \in Readings : n \in Nat /\ n <= counter
    BY <1>2 DEF Readings
  <2> QED
    BY <2>1 DEF Read
<1> DEFINE call == [step |-> "counted", count |-> n]
<1>4. call \in Call
  BY DEF Call, CountedCalls
<1>5. CallTypes'
  BY <1>2, <1>3, <1>4, CallsKeepTypes DEF IInv, Read
<1>6. calls'[h] = call /\ \A g \in Handlers : g # h => calls'[g] = calls[g]
  BY <1>2, <1>3 DEF CallTypes, Moves
<1>7. /\ Cardinality(Counting) \in Nat /\ Cardinality(Counting') \in Nat
      /\ Cardinality(Counting') <= Cardinality(Counting)
  <2>1. Counting' \subseteq Counting
    BY <1>2, <1>6 DEF Counting, Counted, At, Idle
  <2>2. IsFiniteSet(Counting) /\ IsFiniteSet(Counting')
    BY FS_Subset DEF Counting, RoutingConstants
  <2> QED
    BY <2>1, <2>2, FS_Subset, FS_CardinalityType
<1>8. counter + Cardinality(Counting) <= begun
  BY <1>2 DEF CountsWithinBegun
<1>9. ASSUME NEW g \in Handlers, At(g, "counted")'
      PROVE  calls'[g].count + Cardinality(Counting') <= begun
  <2>1. CASE g = h
    <3>1. calls'[g].count = n
      BY <1>6, <2>1
    <3> QED
      BY <1>2, <1>3, <1>7, <1>8, <3>1
  <2>2. CASE g # h
    <3>1. calls'[g] = calls[g] /\ At(g, "counted")
      BY <1>6, <1>9, <2>2 DEF At, Idle
    <3>2. calls[g].count + Cardinality(Counting) <= begun /\ calls[g].count \in Nat
      BY <1>2, <3>1, StepsTell DEF CountsWithinBegun, CountedCalls
    <3> QED
      BY <1>2, <1>7, <3>1, <3>2
  <2> QED
    BY <2>1, <2>2
<1>10. CountsWithinBegun'
  BY <1>2, <1>7, <1>8, <1>9 DEF CountsWithinBegun
<1> QED
  BY <1>1, <1>5, <1>10 DEF IInv

LEMMA CountKeeps ==
    ASSUME RoutingConstants, IInv, NEW h \in Handlers, Count(h)
    PROVE  IInv'
<1> DEFINE call == [step |-> "load"]
<1>1. RowTypes'
  BY DEF Count, IInv, RowTypes, world, Run
<1>2. call \in Call
  BY DEF Call, LoadCalls
<1>3. CallTypes'
  BY <1>2, CallsKeepTypes DEF IInv, Count
<1>4. calls'[h] = call /\ \A g \in Handlers : g # h => calls'[g] = calls[g]
  BY DEF Count, IInv, CallTypes, Moves
<1>5. ~Counted(h)'
  BY <1>4 DEF Counted, At, Idle
<1>6. At(h, "counted") /\ Counted(h) /\ CallTypes
  BY DEF Count, Counted, IInv
<1>7. /\ Cardinality(Counting) \in Nat /\ Cardinality(Counting') \in Nat
      /\ Cardinality(Counting') = Cardinality(Counting) - 1
  BY <1>5, <1>6, CountingMoves DEF Count
<1>8. \A g \in Handlers : At(g, "counted") => calls[g].count \in Nat
  BY <1>6, StepsTell DEF CountedCalls
<1>9. /\ counter' = calls[h].count + 1 /\ begun' = begun /\ begun \in 0 .. MaxCalls
      /\ \A g \in Handlers : At(g, "counted") => calls[g].count + Cardinality(Counting) <= begun
  BY DEF Count, IInv, CountsWithinBegun, bounds
<1>10. counter' \in Nat /\ counter' + Cardinality(Counting') <= begun'
  BY <1>6, <1>7, <1>8, <1>9
<1>11. ASSUME NEW g \in Handlers, At(g, "counted")'
       PROVE  calls'[g].count + Cardinality(Counting') <= begun'
  <2>1. g # h
    BY <1>5, <1>11 DEF Counted
  <2>2. calls'[g] = calls[g] /\ At(g, "counted")
    BY <1>4, <1>11, <2>1 DEF At, Idle
  <2>3. calls[g].count + Cardinality(Counting) <= begun /\ calls[g].count \in Nat
    BY <1>8, <1>9, <2>2
  <2> QED
    BY <1>7, <1>9, <2>2, <2>3
<1> QED
  BY <1>1, <1>3, <1>9, <1>10, <1>11 DEF IInv, CountsWithinBegun

LEMMA CountFailsKeeps ==
    ASSUME RoutingConstants, IInv, NEW h \in Handlers, CountFails(h)
    PROVE  IInv'
<1>1. RowTypes'
  BY DEF CountFails, IInv, RowTypes, world, Run
<1>2. Null \in Call /\ Moves(h, Null)
  BY DEF CountFails, Call
<1>3. CallTypes'
  BY <1>2, CallsKeepTypes DEF IInv, CountFails
<1>4. /\ CallTypes /\ CountsWithinBegun /\ begun' = begun /\ begun' \in 0 .. MaxCalls
      /\ counter' = counter
  BY DEF IInv, CountFails, bounds, CountsWithinBegun
<1>5. CountsWithinBegun'
  BY <1>2, <1>4, CountsStay
<1> QED
  BY <1>1, <1>3, <1>5 DEF IInv

LEMMA LoadKeeps ==
    ASSUME RoutingConstants, IInv, NEW h \in Handlers, Load(h)
    PROVE  IInv'
<1>1. RowTypes'
  BY DEF Load, IInv, RowTypes, world, Run
<1>2. \E call \in Call : Moves(h, call) /\ (call = Null \/ call.step \notin {"guarded", "counted"})
  <2>1. CASE run.status # "planned" \/ Len(listed) < 2 \/ \E s \in Range(listed) : place[s] = Null
    <3>1. Moves(h, Null)
      BY <2>1 DEF Load
    <3> QED
      BY <3>1 DEF Call
  <2>2. CASE ~(run.status # "planned" \/ Len(listed) < 2 \/ \E s \in Range(listed) : place[s] = Null)
    <3>1. PICK provider \in Providers, origin \in {0, place[listed[1]]} :
             Moves(h, [step |-> "asked", provider |-> provider, origin |-> origin,
                       stops |-> listed, row |-> run])
      BY <2>2 DEF Load
    <3>2. listed \in Seq(Stops) /\ Len(listed) \in Nat /\ Len(listed) >= 2
      BY <2>2 DEF IInv, RowTypes
    <3>3. ASSUME NEW i \in 1 .. Len(listed) PROVE listed[i] \in Stops /\ place[listed[i]] \in Int
      <4>1. listed[i] \in Stops /\ listed[i] \in Range(listed)
        BY <3>2 DEF Range
      <4>2. place[listed[i]] \in Coordinates \cup {Null} /\ place[listed[i]] # Null
        BY <2>2, <4>1 DEF IInv, RowTypes
      <4> QED
        BY <4>1, <4>2 DEF RoutingConstants
    <3>4. listed \in Seq(Sites)
      <4>1. listed \in [1 .. Len(listed) -> Sites]
        BY <3>2, <3>3 DEF Sites
      <4> QED
        BY <3>2, <4>1
    <3>5. Routable
      BY <3>2, <3>4 DEF Routable, IInv, RowTypes
    <3>6. origin \in Int
      <4>1. 1 \in 1 .. Len(listed)
        BY <3>2
      <4> QED
        BY <3>3, <4>1
    <3>7. run \in Run
      BY DEF IInv, RowTypes
    <3> DEFINE call == [step |-> "asked", provider |-> provider, origin |-> origin,
                        stops |-> listed, row |-> run]
    <3>8. call \in AskedCalls
      BY <3>5, <3>6, <3>7 DEF AskedCalls
    <3>9. call.step \notin {"guarded", "counted"}
      OBVIOUS
    <3> HIDE DEF call
    <3> QED
      BY <3>1, <3>8, <3>9 DEF Call, call
  <2> QED
    BY <2>1, <2>2
<1>3. CallTypes'
  BY <1>2, CallsKeepTypes DEF IInv, Load
<1>4. CountsWithinBegun'
  BY <1>2, CountsStay DEF IInv, Load, bounds, CountsWithinBegun
<1> QED
  BY <1>1, <1>3, <1>4 DEF IInv

LEMMA AnsweredKeeps ==
    ASSUME RoutingConstants, IInv, NEW h \in Handlers, Answered(h)
    PROVE  IInv'
<1>1. RowTypes'
  BY DEF Answered, IInv, RowTypes, world, Run
<1>2. calls[h] \in AskedCalls
  BY StepsTell DEF Answered, IInv
<1>3. /\ calls[h].provider \in Providers /\ calls[h].origin \in Int /\ calls[h].stops = listed
      /\ calls[h].row \in Run /\ Routable
  BY <1>2 DEF AskedCalls
<1> DEFINE provider == calls[h].provider
           origin == calls[h].origin
           row == calls[h].row
<1>4. PICK result \in Tours(provider, origin, listed) :
         Moves(h, [step |-> "answered", provider |-> provider, origin |-> origin,
                   stops |-> listed, sound |-> result.sound,
                   row |-> [row EXCEPT !.sequence = result.tour]])
  BY <1>3 DEF Answered
<1>5. provider \in {"haversine", "nn_2opt", "google_routes", "mapbox"} /\ Answers \subseteq Seq(Int)
  BY <1>3 DEF RoutingConstants
<1> HIDE DEF provider, origin, row
<1>6. Promised(provider, origin, listed, result) /\ result.sound \in BOOLEAN
  BY <1>3, <1>4, <1>5, ToursAnswer DEF Routable, origin
<1>7. result.tour \in Seq(Stops)
  BY <1>6 DEF Promised, Sites
<1> DEFINE copy == [row EXCEPT !.sequence = result.tour]
           call == [step |-> "answered", provider |-> provider, origin |-> origin,
                    stops |-> listed, sound |-> result.sound, row |-> copy]
<1>8. copy \in Run /\ copy.sequence = result.tour
  BY <1>3, <1>7 DEF Run, row
<1>9. call.step \notin {"guarded", "counted"} /\ Moves(h, call)
  BY <1>4
<1>10. call \in Call
  <2> HIDE DEF copy
  <2>1. Promised(provider, origin, listed, [tour |-> copy.sequence, sound |-> result.sound])
    BY <1>6, <1>8 DEF Promised
  <2>2. call \in AnsweredCalls
    BY <1>3, <1>6, <1>8, <2>1 DEF AnsweredCalls, provider, origin
  <2> QED
    BY <2>2 DEF Call
<1> HIDE DEF call
<1>11. CallTypes'
  BY <1>9, <1>10, CallsKeepTypes DEF IInv, Answered
<1>12. CountsWithinBegun'
  BY <1>9, CountsStay DEF IInv, Answered, bounds, CountsWithinBegun
<1> QED
  BY <1>1, <1>11, <1>12 DEF IInv

LEMMA SaveRunKeeps ==
    ASSUME RoutingConstants, IInv, NEW h \in Handlers, SaveRun(h)
    PROVE  IInv'
<1> DEFINE sequence == calls[h].row.sequence
<1>1. calls[h] \in AnsweredCalls
  BY StepsTell DEF SaveRun, IInv
<1>2. /\ calls[h].row \in Run /\ sequence \in Seq(Stops) /\ Len(sequence) <= Len(listed)
      /\ Len(listed) <= Cardinality(Stops) /\ Len(listed) \in Nat
      /\ Cardinality(Stops) \in Nat
  BY <1>1, FS_CardinalityType
     DEF AnsweredCalls, Promised, Run, IInv, RowTypes, RoutingConstants
<1>3. RowTypes'
  BY <1>2 DEF SaveRun, IInv, RowTypes, world, Run
<1> DEFINE next == [step |-> "number", sequence |-> sequence, next |-> 1]
           call == IF sequence = <<>> THEN Null ELSE next
<1>4. call \in Call
  <2>1. CASE sequence = <<>>
    BY <2>1 DEF Call
  <2>2. CASE sequence # <<>>
    <3> HIDE DEF sequence
    <3>1. 1 \in 1 .. Len(sequence) /\ Len(sequence) <= Cardinality(Stops)
      BY <1>2, <2>2
    <3>2. next \in NumberCalls
      BY <1>2, <3>1 DEF NumberCalls
    <3> HIDE DEF next
    <3> QED
      BY <2>2, <3>2 DEF Call
  <2> QED
    BY <2>1, <2>2
<1>5. (call = Null \/ call.step \notin {"guarded", "counted"}) /\ Moves(h, call)
  BY DEF SaveRun
<1> HIDE DEF call
<1>6. CallTypes'
  BY <1>4, <1>5, CallsKeepTypes DEF IInv, SaveRun
<1>7. CountsWithinBegun'
  BY <1>5, CountsStay DEF IInv, SaveRun, bounds, CountsWithinBegun
<1> QED
  BY <1>3, <1>6, <1>7 DEF IInv

LEMMA NumberKeeps ==
    ASSUME RoutingConstants, IInv, NEW h \in Handlers, Number(h)
    PROVE  IInv'
<1> DEFINE sequence == calls[h].sequence
           next == calls[h].next
<1>1. calls[h] \in NumberCalls
  BY StepsTell DEF Number, IInv
<1>2. /\ sequence \in Seq(Stops) /\ next \in 1 .. Len(sequence) /\ next \in Nat
      /\ Len(sequence) <= Cardinality(Stops)
  BY <1>1 DEF NumberCalls
<1>3. Len(sequence) \in Nat /\ Cardinality(Stops) \in Nat /\ sequence[next] \in Stops
  <2>1. Cardinality(Stops) \in Nat
    BY FS_CardinalityType DEF RoutingConstants
  <2> HIDE DEF sequence, next
  <2> QED
    BY <1>2, <2>1
<1>4. RowTypes'
  <2>1. number' = [number EXCEPT ![sequence[next]] = next]
    BY DEF Number
  <2>2. next \in 0 .. Cardinality(Stops)
    <3> HIDE DEF sequence, next
    <3> QED
      BY <1>2, <1>3
  <2>3. number' \in [Stops -> 0 .. Cardinality(Stops)]
    <3> HIDE DEF sequence, next
    <3> QED
      BY <1>3, <2>1, <2>2 DEF IInv, RowTypes
  <2> QED
    BY <2>3 DEF Number, IInv, RowTypes, world, Run
<1> DEFINE call == IF next = Len(sequence) THEN Null ELSE [calls[h] EXCEPT !.next = @ + 1]
<1>5. Moves(h, call)
  BY DEF Number
<1>6. call \in Call /\ (call = Null \/ call.step \notin {"guarded", "counted"})
  <2>1. CASE next = Len(sequence)
    BY <2>1 DEF Call
  <2>2. CASE next # Len(sequence)
    <3>1. next + 1 \in 1 .. Len(sequence) /\ next + 1 \in Nat
      <4> HIDE DEF sequence, next
      <4> QED
        BY <1>2, <1>3, <2>2
    <3>2. call = [calls[h] EXCEPT !.next = next + 1]
      BY <2>2
    <3>3. calls[h] \in [step : {"number"}, sequence : Seq(Stops), next : Nat]
      BY <1>1 DEF NumberCalls
    <3>4. /\ call \in [step : {"number"}, sequence : Seq(Stops), next : Nat]
          /\ call.step = "number" /\ call.next = next + 1 /\ call.sequence = sequence
      BY <3>1, <3>2, <3>3
    <3>5. call \in NumberCalls
      BY <1>2, <3>1, <3>4 DEF NumberCalls
    <3> QED
      BY <3>4, <3>5 DEF Call
  <2> QED
    BY <2>1, <2>2
<1> HIDE DEF call
<1>7. CallTypes'
  BY <1>5, <1>6, CallsKeepTypes DEF IInv, Number
<1>8. CountsWithinBegun'
  BY <1>5, <1>6, CountsStay DEF IInv, Number, bounds, CountsWithinBegun
<1> QED
  BY <1>4, <1>7, <1>8 DEF IInv

LEMMA LoseKeeps ==
    ASSUME RoutingConstants, IInv, NEW h \in Handlers, Lose(h)
    PROVE  IInv'
<1>1. RowTypes'
  BY DEF Lose, IInv, RowTypes, world, Run
<1>2. Null \in Call /\ Moves(h, Null)
  BY DEF Lose, Call
<1>3. CallTypes'
  BY <1>2, CallsKeepTypes DEF IInv, Lose
<1>4. CountsWithinBegun'
  BY <1>2, CountsStay DEF IInv, Lose, CountsWithinBegun
<1> QED
  BY <1>1, <1>3, <1>4 DEF IInv

\* A start and a new day move no call.
LEMMA WorldKeeps ==
    ASSUME RoutingConstants, IInv, Start \/ NextDay \/ UNCHANGED vars
    PROVE  IInv'
<1>1. /\ UNCHANGED <<world, number, calls, begun>>
      /\ run' = run \/ run' = [run EXCEPT !.status = "in_progress"]
      /\ counter' = counter \/ counter' = 0
  BY DEF Start, NextDay, vars, bounds, world
<1>2. RowTypes'
  <2>1. run' \in Run
    BY <1>1 DEF IInv, RowTypes, Run
  <2> QED
    BY <1>1, <2>1 DEF IInv, RowTypes, world, Run
<1>3. CallTypes'
  <2>1. Call' = Call
    BY <1>1, CallsStay
  <2> QED
    BY <1>1, <2>1 DEF IInv, CallTypes
<1>4. CountsWithinBegun'
  <2>1. Counting' = Counting
    BY <1>1 DEF Counting, Counted, At, Idle
  <2>2. Cardinality(Counting) \in Nat
    <3>1. IsFiniteSet(Counting)
      BY FS_Subset DEF Counting, RoutingConstants
    <3> QED
      BY <3>1, FS_CardinalityType
  <2>3. counter' \in Nat /\ counter' <= counter /\ counter \in Nat
    BY <1>1 DEF IInv, CountsWithinBegun
  <2>4. counter' + Cardinality(Counting) <= begun
    BY <2>2, <2>3 DEF IInv, CountsWithinBegun
  <2>5. \A h \in Handlers : At(h, "counted")' <=> At(h, "counted")
    BY <1>1 DEF At, Idle
  <2> QED
    BY <1>1, <2>1, <2>3, <2>4, <2>5 DEF IInv, CountsWithinBegun
<1> QED
  BY <1>2, <1>3, <1>4 DEF IInv

LEMMA InvariantNext ==
    ASSUME RoutingConstants, IInv, [Next]_vars
    PROVE  IInv'
<1>1. ASSUME NEW h \in Handlers, Guard(h) \/ Continue(h) \/ Lose(h)
      PROVE  IInv'
  BY <1>1, GuardKeeps, ReadKeeps, CountKeeps, CountFailsKeeps, LoadKeeps, AnsweredKeeps,
     SaveRunKeeps, NumberKeeps, LoseKeeps DEF Continue
<1>2. CASE Start \/ NextDay \/ UNCHANGED vars
  BY <1>2, WorldKeeps
<1> QED
  BY <1>1, <1>2 DEF Next

LEMMA Invariant ==
    ASSUME RoutingConstants
    PROVE  Spec => []IInv
<1>1. Init => IInv
  BY InvariantInit
<1>2. IInv /\ [Next]_vars => IInv'
  BY InvariantNext
<1> QED
  BY <1>1, <1>2, PTL DEF Spec

\* Rows keep their types: a stop is never given a number beyond the stops there are, and
\* the day's counter never exceeds the calls that were begun, although each call writes
\* back a count it read earlier.
THEOREM RoutingTypesHold ==
    ASSUME RoutingConstants
    PROVE  Spec => []TypeOK
<1>1. IInv => TypeOK
  <2> SUFFICES ASSUME IInv PROVE TypeOK
    OBVIOUS
  <2>1. IsFiniteSet(Counting)
    BY FS_Subset DEF Counting, RoutingConstants
  <2>2. Cardinality(Counting) \in Nat
    BY <2>1, FS_CardinalityType
  <2>3. counter \in 0 .. MaxCalls
    BY <2>2 DEF IInv, CountsWithinBegun, RoutingConstants
  <2> QED
    BY <2>3 DEF IInv, RowTypes, TypeOK
<1> QED
  BY <1>1, Invariant, PTL

\* Whatever a service sends, a tour visits no stop of another run; it visits every stop of
\* its own exactly once if it was computed, fell back, or came from an array that counts;
\* Mapbox's may lose stops and never visits one twice, Google's may visit one in place of
\* another (the four strategies and their parsers): for any stops and any arrays.
THEOREM ToursKeepToTheirStops ==
    ASSUME RoutingConstants
    PROVE  Spec => []TourOfItsStops
<1>1. IInv => TourOfItsStops
  <2> SUFFICES ASSUME IInv, NEW h \in Handlers, At(h, "answered")
               PROVE  LET tour == calls[h].row.sequence
                          stops == calls[h].stops
                          provider == calls[h].provider
                      IN  /\ Range(tour) \subseteq Range(stops)
                          /\ provider # "google_routes" => IsInjective(tour)
                          /\ provider # "mapbox" => Len(tour) = Len(stops)
                          /\ calls[h].sound => Len(tour) = Len(stops) /\ Range(tour) = Range(stops)
    BY DEF TourOfItsStops
  <2>1. calls[h] \in AnsweredCalls
    BY StepsTell DEF IInv
  <2> QED
    BY <2>1 DEF AnsweredCalls, Promised, Rearranged
<1> QED
  BY <1>1, Invariant, PTL

-----------------------------------------------------------------------------
\* The numbers of the stops, when one call is handled after the other.

Serial == \A g, h \in Handlers : g = h

\* A call that is numbering is not idle.
NullIsNoCall ==
    \A sequence \in Seq(Stops), next \in Nat :
        [step |-> "number", sequence |-> sequence, next |-> next] # Null

Numbered == IInv /\ lost \in Nat /\ NumbersFollowSequence

\* A step that neither saves nor numbers, taken by a call that is not numbering.
LEMMA NumbersStay ==
    ASSUME NumbersFollowSequence, lost \in Nat, lost' \in {lost, lost + 1},
           run'.sequence = run.sequence, number' = number,
           \A h \in Handlers : calls'[h] # calls[h] => ~At(h, "number")',
           \A h \in Handlers : calls'[h] # calls[h] /\ At(h, "number") => lost' = lost + 1
    PROVE  NumbersFollowSequence'
<1>1. \A s : Follows(run.sequence, s)' <=> Follows(run.sequence, s)
  BY DEF Follows
<1>2. ASSUME NEW h \in Handlers, At(h, "number")'
      PROVE  calls'[h] = calls[h] /\ At(h, "number")
  BY <1>2 DEF At, Idle
<1>3. ASSUME NEW h \in Handlers, At(h, "number")'
      PROVE  /\ run'.sequence = calls'[h].sequence
             /\ \A i \in 1 .. calls'[h].next - 1 : Follows(run.sequence, run.sequence[i])'
  <2>1. /\ run.sequence = calls[h].sequence
        /\ \A i \in 1 .. calls[h].next - 1 : Follows(run.sequence, run.sequence[i])
    BY <1>2, <1>3 DEF NumbersFollowSequence
  <2> QED
    BY <1>1, <1>2, <1>3, <2>1
<1>4. ASSUME lost' = 0, \A h \in Handlers : ~At(h, "number")',
             NEW s \in Range(run'.sequence)
      PROVE  Follows(run.sequence, s)'
  <2>1. lost = 0 /\ lost' # lost + 1
    BY <1>4
  <2>2. \A h \in Handlers : ~At(h, "number")
    <3> SUFFICES ASSUME NEW h \in Handlers, At(h, "number") PROVE FALSE
      OBVIOUS
    <3>1. calls'[h] = calls[h]
      BY <2>1
    <3> QED
      BY <1>4, <3>1 DEF At, Idle
  <2>3. Follows(run.sequence, s)
    BY <1>4, <2>1, <2>2 DEF NumbersFollowSequence
  <2> QED
    BY <1>1, <2>3
<1> QED
  BY <1>3, <1>4 DEF NumbersFollowSequence

\* The saved sequence has no number yet.
LEMMA SaveKeepsNumbers ==
    ASSUME RoutingConstants, Serial, NullIsNoCall, IInv, NEW h \in Handlers, SaveRun(h)
    PROVE  NumbersFollowSequence'
<1> DEFINE sequence == calls[h].row.sequence
<1>1. run'.sequence = sequence /\ \A g \in Handlers : g = h
  BY DEF SaveRun, Serial
<1>2. calls'[h] = IF sequence = <<>> THEN Null
                  ELSE [step |-> "number", sequence |-> sequence, next |-> 1]
  BY DEF SaveRun, Moves, IInv, CallTypes
<1>3. sequence \in Seq(Stops)
  BY StepsTell DEF SaveRun, IInv, AnsweredCalls, Run
<1> HIDE DEF sequence
<1>4. CASE sequence = <<>>
  <2>1. ~At(h, "number")'
    BY <1>2, <1>4 DEF At, Idle
  <2>2. Range(run'.sequence) = {}
    BY <1>1, <1>4 DEF Range
  <2> QED
    BY <1>1, <2>1, <2>2 DEF NumbersFollowSequence
<1>5. CASE sequence # <<>>
  <2>1. calls'[h].sequence = run'.sequence /\ calls'[h].next = 1 /\ calls'[h].step = "number"
    BY <1>1, <1>2, <1>5
  <2>2. calls'[h] # Null
    BY <1>2, <1>3, <1>5 DEF NullIsNoCall
  <2>3. At(h, "number")'
    BY <2>1, <2>2 DEF At, Idle
  <2>4. 1 .. calls'[h].next - 1 = {}
    BY <2>1
  <2> QED
    BY <1>1, <2>1, <2>3, <2>4 DEF NumbersFollowSequence
<1> QED
  BY <1>4, <1>5

\* One more stop has the place of the sequence that it is given as its number; a stop that
\* the sequence names again moves to the later place.
LEMMA NumberKeepsNumbers ==
    ASSUME RoutingConstants, Serial, NullIsNoCall, Numbered, NEW h \in Handlers, Number(h)
    PROVE  NumbersFollowSequence'
<1> DEFINE sequence == calls[h].sequence
           next == calls[h].next
<1>1. calls[h] \in NumberCalls /\ At(h, "number") /\ \A g \in Handlers : g = h
  BY StepsTell DEF Number, Numbered, IInv, Serial
<1>2. /\ sequence \in Seq(Stops) /\ next \in 1 .. Len(sequence) /\ next \in Nat
      /\ Len(sequence) \in Nat /\ DOMAIN sequence = 1 .. Len(sequence)
      /\ calls[h] = [step |-> "number", sequence |-> sequence, next |-> next]
  BY <1>1 DEF NumberCalls
<1>3. /\ number' = [number EXCEPT ![sequence[next]] = next]
      /\ Moves(h, IF next = Len(sequence) THEN Null ELSE [calls[h] EXCEPT !.next = @ + 1])
      /\ run' = run
  BY DEF Number
<1>4. /\ run.sequence = sequence /\ number \in [Stops -> 0 .. Cardinality(Stops)]
      /\ \A i \in 1 .. next - 1 : Follows(run.sequence, run.sequence[i])
  BY <1>1 DEF Numbered, NumbersFollowSequence, IInv, RowTypes
<1>5. calls'[h] = IF next = Len(sequence) THEN Null ELSE [calls[h] EXCEPT !.next = @ + 1]
  BY <1>3 DEF Moves, Numbered, IInv, CallTypes
<1> HIDE DEF sequence, next
<1>6. ASSUME NEW i \in 1 .. next PROVE Follows(run.sequence, run.sequence[i])'
  <2>1. i \in 1 .. Len(sequence) /\ sequence[i] \in Stops /\ sequence[next] \in Stops
    BY <1>2
  <2>2. run'.sequence = sequence
    BY <1>3, <1>4
  <2>3. CASE sequence[i] = sequence[next]
    <3>1. number'[sequence[i]] = next
      BY <1>3, <1>4, <2>1, <2>3
    <3> QED
      BY <1>2, <2>2, <2>3, <3>1 DEF Follows
  <2>4. CASE sequence[i] # sequence[next]
    <3>1. i \in 1 .. next - 1
      BY <1>2, <2>4
    <3>2. number'[sequence[i]] = number[sequence[i]]
      BY <1>3, <1>4, <2>1, <2>4
    <3>3. Follows(sequence, sequence[i])
      BY <1>4, <3>1
    <3> QED
      BY <2>2, <3>2, <3>3 DEF Follows
  <2> QED
    BY <2>3, <2>4
<1>7. CASE next # Len(sequence)
  <2>1. calls'[h] = [step |-> "number", sequence |-> sequence, next |-> next + 1]
    BY <1>2, <1>5, <1>7
  <2>2. next + 1 \in Nat /\ calls'[h] # Null /\ (next + 1) - 1 = next
    BY <1>2, <2>1 DEF NullIsNoCall
  <2>3. At(h, "number")' /\ calls'[h].sequence = sequence /\ calls'[h].next = next + 1
    BY <2>1, <2>2 DEF At, Idle
  <2>4. /\ run'.sequence = calls'[h].sequence
        /\ \A i \in 1 .. calls'[h].next - 1 : Follows(run.sequence, run.sequence[i])'
    BY <1>3, <1>4, <1>6, <2>2, <2>3
  <2> QED
    BY <1>1, <2>3, <2>4 DEF NumbersFollowSequence
<1>8. CASE next = Len(sequence)
  <2>1. ~At(h, "number")'
    BY <1>5, <1>8 DEF At, Idle
  <2>2. \A s \in Range(run'.sequence) : Follows(run.sequence, s)'
    <3> SUFFICES ASSUME NEW i \in DOMAIN run'.sequence
                 PROVE  Follows(run.sequence, run.sequence[i])'
      BY DEF Range
    <3>1. i \in 1 .. next
      BY <1>2, <1>3, <1>4, <1>8
    <3> QED
      BY <1>6, <3>1
  <2> QED
    BY <1>1, <2>1, <2>2 DEF NumbersFollowSequence
<1> QED
  BY <1>7, <1>8

\* The other steps of a call leave the sequence and the numbers as they are.
LEMMA NumberedNext ==
    ASSUME RoutingConstants, Serial, NullIsNoCall, Numbered, [Next]_vars
    PROVE  Numbered'
<1>1. IInv'
  BY InvariantNext DEF Numbered
<1>2. IInv /\ CallTypes /\ run \in Run /\ lost \in Nat /\ NumbersFollowSequence
  BY DEF Numbered, IInv, RowTypes
<1>3. ASSUME NEW h \in Handlers, NEW call, Moves(h, call), ~At(h, "number"),
             call = Null \/ call.step # "number",
             run' = run, number' = number, lost' \in {lost, lost + 1}
      PROVE  Numbered'
  <2>1. calls'[h] = call /\ \A g \in Handlers : g = h
    BY <1>2, <1>3 DEF CallTypes, Moves, Serial
  <2>2. ~At(h, "number")'
    BY <1>3, <2>1 DEF At, Idle
  <2>3. NumbersFollowSequence'
    BY <1>2, <1>3, <2>1, <2>2, NumbersStay
  <2>4. lost' \in Nat
    BY <1>2, <1>3
  <2> QED
    BY <1>1, <2>3, <2>4 DEF Numbered
<1>4. ASSUME NEW h \in Handlers, Guard(h) PROVE Numbered'
  <2>1. ~At(h, "number")
    BY <1>4 DEF Guard, At
  <2>2. PICK call \in {[step |-> "load"], [step |-> "guarded"]} : Moves(h, call)
    BY <1>4 DEF Guard
  <2>3. call.step # "number"
    BY <2>2
  <2>4. run' = run /\ number' = number /\ lost' = lost
    BY <1>4 DEF Guard
  <2> QED
    BY <1>3, <2>1, <2>2, <2>3, <2>4
<1>5. ASSUME NEW h \in Handlers, Read(h) \/ Count(h) \/ CountFails(h) PROVE Numbered'
  <2>1. ~At(h, "number")
    BY <1>5 DEF Read, Count, CountFails, At
  <2>2. \E call : Moves(h, call) /\ (call = Null \/ call.step # "number")
    <3>1. CASE Read(h)
      <4>1. PICK n \in Readings : Moves(h, [step |-> "counted", count |-> n])
        BY <3>1 DEF Read
      <4> QED
        BY <4>1
    <3>2. CASE Count(h)
      <4>1. Moves(h, [step |-> "load"])
        BY <3>2 DEF Count
      <4> QED
        BY <4>1
    <3>3. CASE CountFails(h)
      BY <3>3 DEF CountFails
    <3> QED
      BY <1>5, <3>1, <3>2, <3>3
  <2>3. run' = run /\ number' = number /\ lost' = lost
    BY <1>5 DEF Read, Count, CountFails, bounds
  <2> QED
    BY <1>3, <2>1, <2>2, <2>3
<1>6. ASSUME NEW h \in Handlers, Load(h) \/ Answered(h) PROVE Numbered'
  <2>1. ~At(h, "number")
    BY <1>6 DEF Load, Answered, At
  <2>2. \E call : Moves(h, call) /\ (call = Null \/ call.step # "number")
    <3>1. CASE Load(h)
      <4>1. \/ Moves(h, Null)
            \/ \E provider, origin :
                   Moves(h, [step |-> "asked", provider |-> provider, origin |-> origin,
                             stops |-> listed, row |-> run])
        BY <3>1 DEF Load
      <4>2. \A provider, origin :
                [step |-> "asked", provider |-> provider, origin |-> origin,
                 stops |-> listed, row |-> run].step # "number"
        OBVIOUS
      <4> QED
        BY <4>1, <4>2
    <3>2. CASE Answered(h)
      <4>1. \E provider, origin, stops, sound, row :
                Moves(h, [step |-> "answered", provider |-> provider, origin |-> origin,
                          stops |-> stops, sound |-> sound, row |-> row])
        BY <3>2 DEF Answered
      <4>2. \A provider, origin, stops, sound, row :
                [step |-> "answered", provider |-> provider, origin |-> origin,
                 stops |-> stops, sound |-> sound, row |-> row].step # "number"
        OBVIOUS
      <4> QED
        BY <4>1, <4>2
    <3> QED
      BY <1>6, <3>1, <3>2
  <2>3. run' = run /\ number' = number /\ lost' = lost
    BY <1>6 DEF Load, Answered, bounds
  <2> QED
    BY <1>3, <2>1, <2>2, <2>3
<1>7. ASSUME NEW h \in Handlers, SaveRun(h) \/ Number(h) PROVE Numbered'
  <2>1. NumbersFollowSequence'
    BY <1>2, <1>7, SaveKeepsNumbers, NumberKeepsNumbers
  <2>2. lost' = lost
    BY <1>7 DEF SaveRun, Number, bounds
  <2> QED
    BY <1>1, <1>2, <2>1, <2>2 DEF Numbered
<1>8. ASSUME NEW h \in Handlers, Lose(h) PROVE Numbered'
  <2>1. /\ lost' = lost + 1 /\ Moves(h, Null) /\ run' = run /\ number' = number
        /\ \A g \in Handlers : g = h
    BY <1>8 DEF Lose, Serial
  <2>2. ~At(h, "number")'
    BY <1>2, <2>1 DEF CallTypes, Moves, At, Idle
  <2>3. NumbersFollowSequence'
    BY <1>2, <2>1, <2>2, NumbersStay
  <2> QED
    BY <1>1, <1>2, <2>1, <2>3 DEF Numbered
<1>9. CASE Start \/ NextDay \/ UNCHANGED vars
  <2>1. /\ run'.sequence = run.sequence /\ number' = number /\ calls' = calls /\ lost' = lost
    BY <1>2, <1>9 DEF Start, NextDay, vars, bounds, Run
  <2>2. NumbersFollowSequence'
    BY <1>2, <2>1, NumbersStay
  <2> QED
    BY <1>1, <1>2, <2>1, <2>2 DEF Numbered
<1> QED
  BY <1>4, <1>5, <1>6, <1>7, <1>8, <1>9 DEF Next, Continue

LEMMA NumberedInit ==
    ASSUME RoutingConstants, Init
    PROVE  Numbered
<1>1. IInv
  BY InvariantInit
<1>2. \A h \in Handlers : ~At(h, "number")
  BY DEF Init, At, Idle
<1>3. ASSUME NEW s \in Range(listed) PROVE Follows(listed, s)
  <2>1. s \in Stops /\ \E i \in DOMAIN listed : listed[i] = s
    BY <1>1, <1>3 DEF Range, IInv, RowTypes
  <2>2. number[s] = CHOOSE i \in DOMAIN listed : listed[i] = s
    BY <1>3, <2>1 DEF Init
  <2> QED
    BY <2>1, <2>2 DEF Follows
<1>4. run.sequence = listed /\ lost = 0
  BY DEF Init
<1> QED
  BY <1>1, <1>2, <1>3, <1>4 DEF Numbered, NumbersFollowSequence

\* One call after the other: the run's sequence is a tour of its stops, and each stop that
\* was numbered stands where its number says (OptimizationService.optimizeRun, one save and
\* one UPDATE for each stop): for any stops, places and arrays.
THEOREM NumbersFollowTheTour ==
    ASSUME RoutingConstants, Serial, NullIsNoCall
    PROVE  Spec => []StopsFollowTheTour
<1>1. Spec => []Numbered
  <2>1. Init => Numbered
    BY NumberedInit
  <2>2. Numbered /\ [Next]_vars => Numbered'
    BY NumberedNext
  <2> QED
    BY <2>1, <2>2, PTL DEF Spec
<1>2. Numbered => NumbersFollowSequence
  BY DEF Numbered
<1> QED
  BY <1>1, <1>2, ToursKeepToTheirStops, PTL DEF StopsFollowTheTour

\* nn_2opt is never longer than the nearest neighbour it starts from, and its while loop
\* ends, within as many rounds as the tour is long, where no reversal of a segment makes
\* the tour shorter (nearest-neighbor-2opt.optimizer.ts): for any number of stops.
THEOREM TwoOptEndsInALocalOptimum ==
    ASSUME RoutingConstants
    PROVE  Spec => []TwoOptImproves
<1>1. IInv => TwoOptImproves
  <2> SUFFICES ASSUME IInv, NEW h \in Handlers, At(h, "answered"),
                      calls[h].provider = "nn_2opt"
               PROVE  Optimal(calls[h].origin, calls[h].stops, calls[h].row.sequence)
    BY DEF TwoOptImproves, Optimal
  <2>1. calls[h] \in AnsweredCalls
    BY StepsTell DEF IInv
  <2> QED
    BY <2>1 DEF AnsweredCalls, Promised
<1> QED
  BY <1>1, Invariant, PTL
=============================================================================

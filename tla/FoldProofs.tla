----------------------------- MODULE FoldProofs ----------------------------
(* Lemmas for the proofs about lists and counts: what the folds of the     *)
(* community modules compute, for every list and every finite set.  The    *)
(* library's induction theorems take an operator; these take a set or a    *)
(* function instead, and rest on the least element of a set of naturals.   *)
EXTENDS Lists, SequencesExt, FiniteSetTheorems, SequenceTheorems, WellFoundedInduction, TLAPS

----------------------------------------------------------------------------
(* Naturals.                                                               *)

LEMMA NatLeast ==
    ASSUME NEW T \in SUBSET Nat, T # {}
    PROVE  \E m \in T : \A n \in T : m <= n
<1> DEFINE lt == OpToRel(<, Nat)
<1>1. lt = {ss \in Nat \X Nat : ss[1] < ss[2]}
  BY Zenon DEF OpToRel
<1>2. IsWellFoundedOn(lt, Nat)
  BY NatLessThanWellFounded
<1> HIDE DEF lt
<1>3. \E m \in T : \A n \in T : ~ (<<n, m>> \in lt)
  BY <1>2, WFMin
<1>4. ASSUME NEW m \in T, NEW n \in T, ~ (<<n, m>> \in lt) PROVE m <= n
  <2>1. m \in Nat /\ n \in Nat
    OBVIOUS
  <2> QED
    BY <1>1, <1>4, <2>1
<1> QED
  BY <1>3, <1>4

LEMMA NatMost ==
    ASSUME NEW N \in Nat, NEW T \in SUBSET (0..N), T # {}
    PROVE  \E m \in T : \A n \in T : n <= m
<1> DEFINE U == {N - t : t \in T}
<1>1. U \in SUBSET Nat /\ U # {}
  <2>1. \A t \in T : N - t \in Nat
    OBVIOUS
  <2>2. PICK t \in T : TRUE
    OBVIOUS
  <2>3. N - t \in U
    OBVIOUS
  <2>4. U \subseteq Nat
    BY <2>1
  <2> QED
    BY <2>3, <2>4
<1> HIDE DEF U
<1>2. PICK u \in U : \A v \in U : u <= v
  BY <1>1, NatLeast
<1>3. PICK m \in T : u = N - m
  BY <1>2 DEF U
<1>4. ASSUME NEW n \in T PROVE n <= m
  <2>1. N - n \in U
    BY DEF U
  <2>2. N - m <= N - n /\ m \in Int /\ n \in Int
    BY <2>1, <1>2, <1>3
  <2> QED
    BY <2>2
<1> QED
  BY <1>4

\* Induction up to N, over a set.
LEMMA UpTo ==
    ASSUME NEW N \in Nat, NEW T, 0 \in T,
           \A n \in 0..N : n \in T /\ n < N => n + 1 \in T
    PROVE  \A n \in 0..N : n \in T
<1> DEFINE U == {n \in 0..N : n \notin T}
<1>1. CASE U = {}
  BY <1>1
<1>2. CASE U # {}
  <2>1. U \in SUBSET Nat
    OBVIOUS
  <2>2. PICK m \in U : \A n \in U : m <= n
    BY <1>2, <2>1, NatLeast
  <2>3. m \in 0..N /\ m \notin T /\ m # 0
    OBVIOUS
  <2>4. m - 1 \in 0..N /\ m - 1 < N /\ ~(m <= m - 1)
    BY <2>3
  <2>5. m - 1 \in T
    BY <2>2, <2>4
  <2>6. (m - 1) + 1 \in T
    BY <2>4, <2>5
  <2> QED
    BY <2>3, <2>6
<1> QED
  BY <1>1, <1>2

\* Community Max, of a set of positions.
LEMMA MaxOf ==
    ASSUME NEW N \in Nat, NEW T \in SUBSET (0..N), T # {}
    PROVE  Max(T) \in T /\ \A n \in T : n <= Max(T)
<1>1. \E m \in T : \A n \in T : m >= n
  BY NatMost
<1> QED
  BY <1>1 DEF Max

----------------------------------------------------------------------------
(* Recursion over the subsets of a finite set, as MapThenFoldSet does it:  *)
(* pick takes an element out, step says what it contributes.               *)

\* The equation, on the subsets in D.
Folds(iter, D, base, pick, step) ==
    \A T \in D : iter[T] = IF T = {} THEN base
                           ELSE step[pick[T]][iter[T \ {pick[T]}]]

Picks(pick, S) == \A T \in SUBSET S : T # {} => pick[T] \in T

UpToSize(S, n) == {T \in SUBSET S : Cardinality(T) <= n}

LEMMA SubsetSizes ==
    ASSUME NEW S, IsFiniteSet(S)
    PROVE  /\ Cardinality(S) \in Nat
           /\ UpToSize(S, Cardinality(S)) = SUBSET S
           /\ UpToSize(S, 0) = {{}}
           /\ \A T \in SUBSET S : IsFiniteSet(T) /\ Cardinality(T) \in Nat
           /\ \A T \in SUBSET S : \A x \in T : Cardinality(T \ {x}) = Cardinality(T) - 1
<1>1. \A T \in SUBSET S : IsFiniteSet(T) /\ Cardinality(T) \in Nat /\ Cardinality(T) <= Cardinality(S)
  BY FS_Subset, FS_CardinalityType
<1>2. \A T \in SUBSET S : \A x \in T : Cardinality(T \ {x}) = Cardinality(T) - 1
  BY <1>1, FS_RemoveElement
<1>3. UpToSize(S, 0) = {{}}
  BY <1>1, FS_EmptySet DEF UpToSize
<1> QED
  BY <1>1, <1>2, <1>3, FS_CardinalityType DEF UpToSize

LEMMA FoldExists ==
    ASSUME NEW S, IsFiniteSet(S), NEW A, NEW base \in A,
           NEW pick, Picks(pick, S), NEW step \in [S -> [A -> A]]
    PROVE  \E iter \in [SUBSET S -> A] : Folds(iter, SUBSET S, base, pick, step)
<1> DEFINE N == Cardinality(S)
           G == {n \in 0..N : \E g \in [UpToSize(S, n) -> A] :
                    Folds(g, UpToSize(S, n), base, pick, step)}
<1>1. N \in Nat /\ UpToSize(S, N) = SUBSET S /\ UpToSize(S, 0) = {{}}
  BY SubsetSizes
<1>2. 0 \in G
  <2> DEFINE g == [T \in UpToSize(S, 0) |-> base]
  <2>1. g \in [UpToSize(S, 0) -> A] /\ Folds(g, UpToSize(S, 0), base, pick, step)
    BY <1>1 DEF Folds
  <2> QED
    BY <1>1, <2>1
<1>3. ASSUME NEW n \in 0..N, n \in G, n < N PROVE n + 1 \in G
  <2> DEFINE D == UpToSize(S, n)
             E == UpToSize(S, n + 1)
  <2>1. PICK g \in [D -> A] : Folds(g, D, base, pick, step)
    BY <1>3
  <2> DEFINE h == [T \in E |-> IF T = {} THEN base ELSE step[pick[T]][g[T \ {pick[T]}]]]
  <2>2. D \subseteq E
    BY SubsetSizes DEF UpToSize
  <2>3. ASSUME NEW T \in E, T # {} PROVE pick[T] \in S /\ T \ {pick[T]} \in D
    <3>1. T \in SUBSET S /\ pick[T] \in T
      BY <2>3 DEF Picks, UpToSize
    <3>2. Cardinality(T \ {pick[T]}) = Cardinality(T) - 1 /\ Cardinality(T) \in Nat
      BY <3>1, SubsetSizes
    <3> QED
      BY <3>1, <3>2 DEF UpToSize
  <2>4. h \in [E -> A]
    BY <2>3
  <2>5. \A T \in D : h[T] = g[T]
    BY <2>1, <2>2 DEF Folds
  <2> HIDE DEF D, E
  <2>6. Folds(h, E, base, pick, step)
    <3> SUFFICES ASSUME NEW T \in E
                 PROVE  h[T] = IF T = {} THEN base ELSE step[pick[T]][h[T \ {pick[T]}]]
      BY DEF Folds
    <3>1. CASE T = {}
      BY <3>1
    <3>2. CASE T # {}
      <4>1. h[T] = step[pick[T]][g[T \ {pick[T]}]]
        BY <3>2
      <4>2. h[T \ {pick[T]}] = g[T \ {pick[T]}]
        BY <2>3, <2>5, <3>2
      <4> QED
        BY <4>1, <4>2, <3>2
    <3> QED
      BY <3>1, <3>2
  <2>7. n + 1 \in 0..N
    BY <1>1, <1>3
  <2> QED
    BY <2>4, <2>6, <2>7 DEF E
<1> HIDE DEF G
<1>4. N \in G
  <2> HIDE DEF N
  <2> QED
    BY <1>1, <1>2, <1>3, UpTo
<1> QED
  BY <1>1, <1>4 DEF G

(* All solutions agree on the subsets they share.                          *)
LEMMA FoldUnique ==
    ASSUME NEW S, IsFiniteSet(S), NEW base, NEW pick, Picks(pick, S), NEW step,
           NEW f, Folds(f, SUBSET S, base, pick, step),
           NEW g, Folds(g, SUBSET S, base, pick, step)
    PROVE  \A T \in SUBSET S : f[T] = g[T]
<1> DEFINE G == {n \in Nat : \A T \in SUBSET S : Cardinality(T) = n => f[T] = g[T]}
           N == Cardinality(S)
<1>1. 0 \in G
  <2>1. ASSUME NEW T \in SUBSET S, Cardinality(T) = 0 PROVE f[T] = g[T]
    <3>1. T = {}
      BY <2>1, SubsetSizes, FS_EmptySet
    <3> QED
      BY <3>1 DEF Folds
  <2> QED
    BY <2>1
<1>2. ASSUME NEW n \in 0..N, n \in G, n < N PROVE n + 1 \in G
  <2>1. ASSUME NEW T \in SUBSET S, Cardinality(T) = n + 1 PROVE f[T] = g[T]
    <3>1. T # {}
      <4>1. n \in Nat /\ Cardinality({}) = 0
        BY <1>2, FS_EmptySet
      <4>2. n + 1 # 0
        BY <4>1
      <4>3. Cardinality(T) # Cardinality({})
        BY <2>1, <4>1, <4>2
      <4> QED
        BY <4>3
    <3>2. pick[T] \in T /\ T \ {pick[T]} \in SUBSET S
      BY <3>1 DEF Picks
    <3>3. Cardinality(T \ {pick[T]}) = n
      BY <2>1, <3>2, SubsetSizes
    <3>4. f[T \ {pick[T]}] = g[T \ {pick[T]}]
      BY <1>2, <3>2, <3>3
    <3> QED
      BY <3>1, <3>4 DEF Folds
  <2> QED
    BY <2>1
<1> HIDE DEF G
<1>3. \A n \in 0..N : n \in G
  BY <1>1, <1>2, UpTo, SubsetSizes
<1>4. ASSUME NEW T \in SUBSET S PROVE f[T] = g[T]
  <2>1. Cardinality(T) \in 0..N
    BY FS_Subset, FS_CardinalityType
  <2> QED
    BY <1>3, <2>1 DEF G
<1> QED
  BY <1>4

----------------------------------------------------------------------------
(* Sums over finite sets.                                                  *)

\* The choice SumFunctionOnSet makes.
AnyOf(S) == [T \in SUBSET S |-> CHOOSE x \in T : TRUE]

LEMMA AnyPicks == \A S : Picks(AnyOf(S), S)
<1> SUFFICES ASSUME NEW S, NEW T \in SUBSET S, T # {} PROVE AnyOf(S)[T] \in T
  BY DEF Picks
<1>1. \E x \in T : TRUE
  OBVIOUS
<1>2. (CHOOSE x \in T : TRUE) \in T
  BY <1>1
<1> QED
  BY <1>2 DEF AnyOf

\* f[T] is the sum of w over T, for each T of S.
Sums(f, w, S) ==
    f = [T \in SUBSET S |-> IF T = {} THEN 0
                            ELSE w[CHOOSE x \in T : TRUE] + f[T \ {CHOOSE x \in T : TRUE}]]

LEMMA SumsUnique ==
    ASSUME NEW S, IsFiniteSet(S), NEW w, NEW f, Sums(f, w, S), NEW g, Sums(g, w, S)
    PROVE  \A T \in SUBSET S : f[T] = g[T]
<1> DEFINE V == {f[T] : T \in SUBSET S} \union {g[T] : T \in SUBSET S}
           step == [x \in S |-> [n \in V |-> w[x] + n]]
<1>1. ASSUME NEW h, Sums(h, w, S), \A T \in SUBSET S : h[T] \in V
      PROVE  Folds(h, SUBSET S, 0, AnyOf(S), step)
  <2> SUFFICES ASSUME NEW T \in SUBSET S
               PROVE  h[T] = IF T = {} THEN 0 ELSE step[AnyOf(S)[T]][h[T \ {AnyOf(S)[T]}]]
    BY DEF Folds
  <2>1. CASE T = {}
    BY <1>1, <2>1 DEF Sums
  <2>2. CASE T # {}
    <3>1. AnyOf(S)[T] \in T /\ AnyOf(S)[T] = CHOOSE x \in T : TRUE
      BY <2>2, AnyPicks DEF AnyOf, Picks
    <3>2. h[T] = w[AnyOf(S)[T]] + h[T \ {AnyOf(S)[T]}]
      BY <1>1, <2>2, <3>1 DEF Sums
    <3>3. h[T \ {AnyOf(S)[T]}] \in V
      BY <1>1
    <3> HIDE DEF V
    <3> QED
      BY <2>2, <3>1, <3>2, <3>3
  <2> QED
    BY <2>1, <2>2
<1>2. Folds(f, SUBSET S, 0, AnyOf(S), step) /\ Folds(g, SUBSET S, 0, AnyOf(S), step)
  BY <1>1
<1> HIDE DEF step
<1> QED
  BY <1>2, AnyPicks, FoldUnique

LEMMA SumIsFold ==
    ASSUME NEW S, IsFiniteSet(S), NEW w, \A x \in S : w[x] \in Nat
    PROVE  \E f \in [SUBSET S -> Nat] : Sums(f, w, S) /\ SumFunctionOnSet(w, S) = f[S]
<1> DEFINE step == [x \in S |-> [n \in Nat |-> w[x] + n]]
<1>1. step \in [S -> [Nat -> Nat]]
  OBVIOUS
<1>2. PICK f \in [SUBSET S -> Nat] : Folds(f, SUBSET S, 0, AnyOf(S), step)
  BY <1>1, AnyPicks, FoldExists
<1>3. ASSUME NEW T \in SUBSET S
      PROVE  f[T] = IF T = {} THEN 0
                    ELSE w[CHOOSE x \in T : TRUE] + f[T \ {CHOOSE x \in T : TRUE}]
  <2>1. CASE T = {}
    BY <1>2, <2>1 DEF Folds
  <2>2. CASE T # {}
    <3>1. AnyOf(S)[T] \in T /\ AnyOf(S)[T] = CHOOSE x \in T : TRUE
      BY <2>2, AnyPicks DEF AnyOf, Picks
    <3>2. f[T] = step[AnyOf(S)[T]][f[T \ {AnyOf(S)[T]}]]
      BY <1>2, <2>2 DEF Folds
    <3>3. f[T \ {AnyOf(S)[T]}] \in Nat
      BY <1>2
    <3>4. f[T] = w[AnyOf(S)[T]] + f[T \ {AnyOf(S)[T]}]
      BY <3>1, <3>2, <3>3
    <3> QED
      BY <3>1, <3>4, <2>2
  <2> QED
    BY <2>1, <2>2
<1>4. Sums(f, w, S)
  BY <1>2, <1>3 DEF Sums
<1> DEFINE g == CHOOSE h : Sums(h, w, S)
<1>5. Sums(g, w, S)
  BY <1>4
<1>6. SumFunctionOnSet(w, S) = g[S]
  BY DEF SumFunctionOnSet, FoldFunctionOnSet, MapThenFoldSet, Sums
<1> HIDE DEF g, step
<1>7. g = f
  <2>1. \A T \in SUBSET S : f[T] = g[T]
    BY <1>4, <1>5, SumsUnique
  <2> QED
    BY <2>1, <1>4, <1>5 DEF Sums
<1> QED
  BY <1>2, <1>4, <1>6, <1>7

LEMMA SumZero == ASSUME NEW w PROVE SumFunctionOnSet(w, {}) = 0
<1>1. PICK f \in [SUBSET {} -> Nat] : Sums(f, w, {}) /\ SumFunctionOnSet(w, {}) = f[{}]
  BY SumIsFold, FS_EmptySet
<1> QED
  BY <1>1 DEF Sums

(* One function gives the sums over all subsets.                           *)
LEMMA SumTable ==
    ASSUME NEW S, IsFiniteSet(S), NEW w, \A x \in S : w[x] \in Nat,
           NEW f, Sums(f, w, S)
    PROVE  \A T \in SUBSET S : SumFunctionOnSet(w, T) = f[T] /\ f[T] \in Nat
<1> SUFFICES ASSUME NEW T \in SUBSET S PROVE SumFunctionOnSet(w, T) = f[T] /\ f[T] \in Nat
  OBVIOUS
<1>1. IsFiniteSet(T)
  BY FS_Subset
<1>2. PICK g \in [SUBSET T -> Nat] : Sums(g, w, T) /\ SumFunctionOnSet(w, T) = g[T]
  BY <1>1, SumIsFold
<1> DEFINE h == [U \in SUBSET T |-> f[U]]
<1>3. Sums(h, w, T)
  <2> SUFFICES ASSUME NEW U \in SUBSET T
               PROVE  h[U] = IF U = {} THEN 0
                             ELSE w[CHOOSE x \in U : TRUE] + h[U \ {CHOOSE x \in U : TRUE}]
    BY DEF Sums
  <2>1. f[U] = IF U = {} THEN 0
               ELSE w[CHOOSE x \in U : TRUE] + f[U \ {CHOOSE x \in U : TRUE}]
    BY DEF Sums
  <2>2. U \ {CHOOSE x \in U : TRUE} \in SUBSET T
    OBVIOUS
  <2> QED
    BY <2>1, <2>2
<1>4. \A U \in SUBSET T : g[U] = h[U]
  BY <1>1, <1>2, <1>3, SumsUnique
<1> QED
  BY <1>2, <1>4

(* The order of the summands does not matter: any of them can come first.  *)
LEMMA SumRemove ==
    ASSUME NEW S, IsFiniteSet(S), NEW w, \A x \in S : w[x] \in Nat
    PROVE  /\ SumFunctionOnSet(w, S) \in Nat
           /\ \A x \in S : SumFunctionOnSet(w, S) = w[x] + SumFunctionOnSet(w, S \ {x})
<1>1. PICK f \in [SUBSET S -> Nat] : Sums(f, w, S) /\ SumFunctionOnSet(w, S) = f[S]
  BY SumIsFold
<1>2. \A T \in SUBSET S : SumFunctionOnSet(w, T) = f[T] /\ f[T] \in Nat
  BY <1>1, SumTable
<1> DEFINE N == Cardinality(S)
           G == {n \in Nat : \A T \in SUBSET S : Cardinality(T) = n =>
                    \A x \in T : f[T] = w[x] + f[T \ {x}]}
<1>3. 0 \in G
  <2>1. ASSUME NEW T \in SUBSET S, Cardinality(T) = 0 PROVE T = {}
    BY <2>1, SubsetSizes, FS_EmptySet
  <2> QED
    BY <2>1
<1>4. ASSUME NEW n \in 0..N, n \in G, n < N PROVE n + 1 \in G
  <2> SUFFICES ASSUME NEW T \in SUBSET S, Cardinality(T) = n + 1, NEW x \in T
               PROVE  f[T] = w[x] + f[T \ {x}]
    BY <1>4
  <2> DEFINE c == CHOOSE y \in T : TRUE
  <2>1. c \in T
    OBVIOUS
  <2> HIDE DEF c
  <2>2. f[T] = w[c] + f[T \ {c}]
    BY <1>1, <2>1 DEF Sums, c
  <2>3. CASE x = c
    BY <2>2, <2>3
  <2>4. CASE x # c
    <3>1. Cardinality(T \ {c}) = n /\ Cardinality(T \ {x}) = n
      BY <1>4, <2>1, SubsetSizes
    <3>2. x \in T \ {c} /\ c \in T \ {x}
      BY <2>1, <2>4
    <3>3. f[T \ {c}] = w[x] + f[(T \ {c}) \ {x}]
      BY <1>4, <3>1, <3>2
    <3>4. f[T \ {x}] = w[c] + f[(T \ {x}) \ {c}]
      BY <1>4, <3>1, <3>2
    <3>5. (T \ {x}) \ {c} = (T \ {c}) \ {x}
      OBVIOUS
    <3>6. w[x] \in Nat /\ w[c] \in Nat /\ f[(T \ {c}) \ {x}] \in Nat
      BY <1>1, <2>1
    <3>7. f[(T \ {x}) \ {c}] = f[(T \ {c}) \ {x}]
      BY <3>5
    <3>8. \A a, b, d, e, r, t, u \in Int :
             t = b + d /\ d = a + r /\ e = b + u /\ u = r => t = a + e
      OBVIOUS
    <3>9. f[T] \in Int /\ f[T \ {c}] \in Int /\ f[T \ {x}] \in Int
      BY <1>1
    <3> QED
      BY <2>2, <3>3, <3>4, <3>6, <3>7, <3>8, <3>9
  <2> QED
    BY <2>3, <2>4
<1> HIDE DEF G
<1>5. N \in G
  <2>1. N \in Nat
    BY SubsetSizes
  <2> HIDE DEF N
  <2>2. \A n \in 0..N : n \in G
    BY <2>1, <1>3, <1>4, UpTo
  <2> QED
    BY <2>1, <2>2
<1>6. \A x \in S : f[S] = w[x] + f[S \ {x}]
  BY <1>5 DEF G
<1> QED
  BY <1>2, <1>6

LEMMA SumAdd ==
    ASSUME NEW S, IsFiniteSet(S), NEW x, x \notin S, NEW w, \A y \in S \union {x} : w[y] \in Nat
    PROVE  SumFunctionOnSet(w, S \union {x}) = w[x] + SumFunctionOnSet(w, S)
<1>1. IsFiniteSet(S \union {x}) /\ (S \union {x}) \ {x} = S
  BY FS_AddElement
<1> QED
  BY <1>1, SumRemove

(* Only the summands count.                                                *)
LEMMA SumSame ==
    ASSUME NEW S, IsFiniteSet(S), NEW w, NEW v, \A x \in S : w[x] \in Nat /\ v[x] = w[x]
    PROVE  SumFunctionOnSet(v, S) = SumFunctionOnSet(w, S)
<1>1. PICK f \in [SUBSET S -> Nat] : Sums(f, w, S) /\ SumFunctionOnSet(w, S) = f[S]
  BY SumIsFold
<1>2. Sums(f, v, S)
  <2> SUFFICES ASSUME NEW T \in SUBSET S
               PROVE  f[T] = IF T = {} THEN 0
                             ELSE v[CHOOSE x \in T : TRUE] + f[T \ {CHOOSE x \in T : TRUE}]
    BY <1>1 DEF Sums
  <2>1. f[T] = IF T = {} THEN 0
               ELSE w[CHOOSE x \in T : TRUE] + f[T \ {CHOOSE x \in T : TRUE}]
    BY <1>1 DEF Sums
  <2>2. T # {} => v[CHOOSE x \in T : TRUE] = w[CHOOSE x \in T : TRUE]
    <3>1. T # {} => (CHOOSE x \in T : TRUE) \in T
      OBVIOUS
    <3> QED
      BY <3>1
  <2> QED
    BY <2>1, <2>2
<1>3. SumFunctionOnSet(v, S) = f[S]
  BY <1>2, SumTable
<1> QED
  BY <1>1, <1>3

(* A set is the sum of its parts.                                          *)
LEMMA SumSplit ==
    ASSUME NEW S, IsFiniteSet(S), NEW w, \A x \in S : w[x] \in Nat, NEW R \in SUBSET S
    PROVE  SumFunctionOnSet(w, S) = SumFunctionOnSet(w, R) + SumFunctionOnSet(w, S \ R)
<1> DEFINE N == Cardinality(S)
           G == {n \in Nat : \A T \in SUBSET S : Cardinality(T) = n =>
                    SumFunctionOnSet(w, T) = SumFunctionOnSet(w, R \intersect T)
                                             + SumFunctionOnSet(w, T \ R)}
<1>0. \A T \in SUBSET S : /\ IsFiniteSet(T) /\ SumFunctionOnSet(w, T) \in Nat
                          /\ \A x \in T : SumFunctionOnSet(w, T)
                                          = w[x] + SumFunctionOnSet(w, T \ {x})
  <2> SUFFICES ASSUME NEW T \in SUBSET S
               PROVE  /\ IsFiniteSet(T) /\ SumFunctionOnSet(w, T) \in Nat
                      /\ \A x \in T : SumFunctionOnSet(w, T) = w[x] + SumFunctionOnSet(w, T \ {x})
    OBVIOUS
  <2>1. IsFiniteSet(T) /\ \A x \in T : w[x] \in Nat
    BY FS_Subset
  <2> QED
    BY <2>1, SumRemove
<1>1. 0 \in G
  <2>1. ASSUME NEW T \in SUBSET S, Cardinality(T) = 0
        PROVE  SumFunctionOnSet(w, T) = SumFunctionOnSet(w, R \intersect T)
                                        + SumFunctionOnSet(w, T \ R)
    <3>1. T = {} /\ R \intersect T = {} /\ T \ R = {}
      BY <2>1, SubsetSizes, FS_EmptySet
    <3>2. SumFunctionOnSet(w, {}) = 0
      BY SumZero
    <3> QED
      BY <3>1, <3>2
  <2> QED
    BY <2>1
<1>2. ASSUME NEW n \in 0..N, n \in G, n < N PROVE n + 1 \in G
  <2> SUFFICES ASSUME NEW T \in SUBSET S, Cardinality(T) = n + 1
               PROVE  SumFunctionOnSet(w, T) = SumFunctionOnSet(w, R \intersect T)
                                               + SumFunctionOnSet(w, T \ R)
    BY <1>2
  <2>1. PICK x \in T : TRUE
    BY <1>2, FS_EmptySet
  <2> DEFINE U == T \ {x}
  <2>2. /\ SumFunctionOnSet(w, U) = SumFunctionOnSet(w, R \intersect U) + SumFunctionOnSet(w, U \ R)
        /\ SumFunctionOnSet(w, T) = w[x] + SumFunctionOnSet(w, U) /\ w[x] \in Nat
        /\ SumFunctionOnSet(w, R \intersect U) \in Nat /\ SumFunctionOnSet(w, U \ R) \in Nat
    <3>1. Cardinality(U) = n
      BY <1>2, <2>1, SubsetSizes
    <3> QED
      BY <1>2, <3>1, <1>0
  <2>3. CASE x \in R
    <3>1. T \ R = U \ R /\ (R \intersect T) \ {x} = R \intersect U /\ x \in R \intersect T
      BY <2>3
    <3>2. SumFunctionOnSet(w, R \intersect T) = w[x] + SumFunctionOnSet(w, R \intersect U)
      BY <3>1, <1>0
    <3> HIDE DEF U
    <3> QED
      BY <2>2, <3>1, <3>2
  <2>4. CASE x \notin R
    <3>1. R \intersect T = R \intersect U /\ (T \ R) \ {x} = U \ R /\ x \in T \ R
      BY <2>4
    <3>2. SumFunctionOnSet(w, T \ R) = w[x] + SumFunctionOnSet(w, U \ R)
      BY <3>1, <1>0
    <3> HIDE DEF U
    <3>3. SumFunctionOnSet(w, R \intersect T) = SumFunctionOnSet(w, R \intersect U)
      BY <3>1
    <3> DEFINE a == SumFunctionOnSet(w, R \intersect U)
               b == SumFunctionOnSet(w, U \ R)
    <3>4. SumFunctionOnSet(w, T) = w[x] + (a + b) /\ a \in Nat /\ b \in Nat /\ w[x] \in Nat
      BY <2>2
    <3> HIDE DEF a, b
    <3>5. w[x] + (a + b) = a + (w[x] + b)
      BY <3>4
    <3> QED
      BY <3>2, <3>3, <3>4, <3>5 DEF a, b
  <2> QED
    BY <2>3, <2>4
<1> HIDE DEF G
<1>3. N \in G
  <2>1. N \in Nat
    BY SubsetSizes
  <2> HIDE DEF N
  <2>2. \A n \in 0..N : n \in G
    BY <2>1, <1>1, <1>2, UpTo
  <2> QED
    BY <2>1, <2>2
<1>4. R \intersect S = R
  OBVIOUS
<1> QED
  BY <1>3, <1>4 DEF G

----------------------------------------------------------------------------
(* Folds over lists, from the left.                                        *)

\* The choice FoldLeft makes: the last position first.
Last1(N) == [T \in SUBSET (1..N) |-> Max(T)]

LEMMA LastPicks == ASSUME NEW N \in Nat PROVE Picks(Last1(N), 1..N)
<1> SUFFICES ASSUME NEW T \in SUBSET (1..N), T # {} PROVE Max(T) \in T
  BY DEF Picks, Last1
<1>1. T \in SUBSET (0..N)
  OBVIOUS
<1> QED
  BY <1>1, MaxOf

LEMMA ListFoldExists ==
    ASSUME NEW N \in Nat, NEW A, NEW base \in A, NEW step \in [1..N -> [A -> A]]
    PROVE  \E iter \in [SUBSET (1..N) -> A] :
              \A T \in SUBSET (1..N) :
                  /\ iter[T] = IF T = {} THEN base ELSE step[Max(T)][iter[T \ {Max(T)}]]
                  /\ T # {} => Max(T) \in T
<1>1. PICK iter \in [SUBSET (1..N) -> A] : Folds(iter, SUBSET (1..N), base, Last1(N), step)
  <2>1. IsFiniteSet(1..N) /\ Picks(Last1(N), 1..N)
    BY LastPicks, FS_Interval
  <2> QED
    BY <2>1, FoldExists
<1>2. \A T \in SUBSET (1..N) : T # {} => Max(T) \in T
  BY LastPicks DEF Picks, Last1
<1>3. \A T \in SUBSET (1..N) :
          iter[T] = IF T = {} THEN base ELSE step[Max(T)][iter[T \ {Max(T)}]]
  BY <1>1 DEF Folds, Last1
<1> QED
  BY <1>2, <1>3

\* What FoldLeft has folded after n elements is its value on the set 1..n.
LEMMA PrefixMax ==
    ASSUME NEW N \in Nat, NEW n \in 1..N
    PROVE  /\ Max(1..n) = n /\ (1..n) \ {n} = 1..(n - 1)
           /\ 1..n # {} /\ 1..n \in SUBSET (1..N) /\ 1..0 = {}
<1>1. Max(1..n) \in 1..n /\ \A k \in 1..n : k <= Max(1..n)
  <2>1. 1..n \in SUBSET (0..N) /\ 1..n # {}
    OBVIOUS
  <2> QED
    BY <2>1, MaxOf
<1> QED
  BY <1>1

(* What the fold of a list has reached at its end.                         *)
LEMMA Reaches ==
    ASSUME NEW N \in Nat, NEW g, NEW good, g[{}] \in good[0],
           \A n \in 1..N : g[1..(n - 1)] \in good[n - 1] => g[1..n] \in good[n]
    PROVE  g[1..N] \in good[N]
<1> DEFINE G == {n \in 0..N : g[1..n] \in good[n]}
<1>1. 0 \in G
  <2>1. 1..0 = {}
    OBVIOUS
  <2> QED
    BY <2>1
<1>2. ASSUME NEW n \in 0..N, n \in G, n < N PROVE n + 1 \in G
  <2>1. n + 1 \in 1..N /\ (n + 1) - 1 = n
    BY <1>2
  <2>2. g[1..((n + 1) - 1)] \in good[(n + 1) - 1]
    BY <1>2, <2>1
  <2>3. g[1..(n + 1)] \in good[n + 1]
    BY <2>1, <2>2
  <2> QED
    BY <2>1, <2>3
<1>3. N \in G
  <2> HIDE DEF G
  <2>1. \A n \in 0..N : n \in G /\ n < N => n + 1 \in G
    BY <1>2
  <2>2. \A n \in 0..N : n \in G
    BY <1>1, <2>1, UpTo
  <2> QED
    BY <2>2
<1> QED
  BY <1>3

----------------------------------------------------------------------------
(* Without.                                                                *)

\* t has the first n elements of s that are not in gone, in their order.
Keeps(t, s, n, gone) ==
    /\ \A p \in DOMAIN t : \E i \in 1..n : t[p] = s[i] /\ s[i] \notin gone
    /\ \A i \in 1..n : s[i] \notin gone => \E p \in DOMAIN t : t[p] = s[i]
    /\ \A q \in DOMAIN t : \A p \in 1..(q - 1) :
          \E i, j \in 1..n : i < j /\ t[p] = s[i] /\ t[q] = s[j]
    /\ \A j \in 1..n : \A i \in 1..(j - 1) : s[i] \notin gone /\ s[j] \notin gone =>
          \E p, q \in DOMAIN t : p < q /\ t[p] = s[i] /\ t[q] = s[j]

LEMMA KeepsMore ==
    ASSUME NEW s, NEW gone, NEW n \in Nat \ {0}, NEW t, NEW u, NEW L \in Nat,
           DOMAIN t = 1..L, DOMAIN u = 1..(L + 1),
           u[L + 1] = s[n], \A p \in 1..L : u[p] = t[p],
           Keeps(t, s, n - 1, gone), s[n] \notin gone
    PROVE  Keeps(u, s, n, gone)
<1>1. \A p \in DOMAIN u : p = L + 1 \/ p \in 1..L
  OBVIOUS
<1>2. n \in 1..n /\ \A i \in 1..n : i = n \/ i \in 1..(n - 1)
  OBVIOUS
<1>3. \A i \in 1..(n - 1) : i \in 1..n /\ i < n
  OBVIOUS
<1>4. ASSUME NEW p \in DOMAIN u PROVE \E i \in 1..n : u[p] = s[i] /\ s[i] \notin gone
  <2>1. CASE p = L + 1
    BY <1>2, <2>1
  <2>2. CASE p \in 1..L
    <3>1. PICK i \in 1..(n - 1) : t[p] = s[i] /\ s[i] \notin gone
      BY <2>2 DEF Keeps
    <3> QED
      BY <1>3, <2>2, <3>1
  <2> QED
    BY <1>1, <2>1, <2>2
<1>5. ASSUME NEW i \in 1..n, s[i] \notin gone PROVE \E p \in DOMAIN u : u[p] = s[i]
  <2>1. CASE i = n
    <3>1. L + 1 \in DOMAIN u
      OBVIOUS
    <3> QED
      BY <2>1, <3>1
  <2>2. CASE i \in 1..(n - 1)
    <3>1. PICK p \in DOMAIN t : t[p] = s[i]
      BY <1>5, <2>2 DEF Keeps
    <3>2. p \in DOMAIN u
      OBVIOUS
    <3> QED
      BY <3>1, <3>2
  <2> QED
    BY <1>2, <2>1, <2>2
<1>6. ASSUME NEW q \in DOMAIN u, NEW p \in 1..(q - 1)
      PROVE  \E i, j \in 1..n : i < j /\ u[p] = s[i] /\ u[q] = s[j]
  <2>1. CASE q = L + 1
    <3>1. p \in 1..L
      BY <2>1
    <3>2. PICK i \in 1..(n - 1) : t[p] = s[i]
      BY <3>1 DEF Keeps
    <3>3. i \in 1..n /\ n \in 1..n /\ i < n /\ u[p] = s[i] /\ u[q] = s[n]
      BY <1>3, <2>1, <3>1, <3>2
    <3> QED
      BY <3>3
  <2>2. CASE q \in 1..L
    <3>1. PICK i, j \in 1..(n - 1) : i < j /\ t[p] = s[i] /\ t[q] = s[j]
      BY <2>2 DEF Keeps
    <3>2. p \in 1..L
      BY <2>2
    <3>3. i \in 1..n /\ j \in 1..n
      BY <1>3
    <3> QED
      BY <2>2, <3>1, <3>2, <3>3
  <2> QED
    BY <1>1, <2>1, <2>2
<1>7. ASSUME NEW j \in 1..n, NEW i \in 1..(j - 1), s[i] \notin gone, s[j] \notin gone
      PROVE  \E p, q \in DOMAIN u : p < q /\ u[p] = s[i] /\ u[q] = s[j]
  <2>1. CASE j = n
    <3>1. PICK p \in DOMAIN t : t[p] = s[i]
      BY <1>7, <2>1 DEF Keeps
    <3>2. p \in DOMAIN u /\ L + 1 \in DOMAIN u /\ p < L + 1
      OBVIOUS
    <3> QED
      BY <2>1, <3>1, <3>2
  <2>2. CASE j \in 1..(n - 1)
    <3>1. PICK p, q \in DOMAIN t : p < q /\ t[p] = s[i] /\ t[q] = s[j]
      BY <1>7, <2>2 DEF Keeps
    <3>2. p \in DOMAIN u /\ q \in DOMAIN u
      OBVIOUS
    <3> QED
      BY <3>1, <3>2
  <2> QED
    BY <1>2, <2>1, <2>2
<1> QED
  BY <1>4, <1>5, <1>6, <1>7 DEF Keeps

LEMMA KeepsAppend ==
    ASSUME NEW S, NEW s \in Seq(S), NEW gone, NEW n \in 1..Len(s), NEW t \in Seq(S),
           Keeps(t, s, n - 1, gone), s[n] \notin gone
    PROVE  Append(t, s[n]) \in Seq(S) /\ Keeps(Append(t, s[n]), s, n, gone)
<1> DEFINE u == Append(t, s[n])
           L == Len(t)
<1>1. /\ u \in Seq(S) /\ L \in Nat /\ DOMAIN t = 1..L /\ DOMAIN u = 1..(L + 1)
      /\ u[L + 1] = s[n] /\ \A p \in 1..L : u[p] = t[p]
  BY AppendProperties
<1>2. n \in Nat \ {0}
  OBVIOUS
<1> HIDE DEF u, L
<1>3. Keeps(u, s, n, gone)
  BY <1>1, <1>2, KeepsMore
<1> QED
  BY <1>1, <1>3 DEF u

LEMMA KeepsSkip ==
    ASSUME NEW S, NEW s \in Seq(S), NEW gone, NEW n \in 1..Len(s), NEW t \in Seq(S),
           Keeps(t, s, n - 1, gone), s[n] \in gone
    PROVE  Keeps(t, s, n, gone)
<1>1. \A i \in 1..n : i = n \/ i \in 1..(n - 1)
  OBVIOUS
<1>2. \A i \in 1..(n - 1) : i \in 1..n
  OBVIOUS
<1>3. \A p \in DOMAIN t : \E i \in 1..n : t[p] = s[i] /\ s[i] \notin gone
  BY <1>2 DEF Keeps
<1>4. \A i \in 1..n : s[i] \notin gone => \E p \in DOMAIN t : t[p] = s[i]
  BY <1>1 DEF Keeps
<1>5. ASSUME NEW q \in DOMAIN t, NEW p \in 1..(q - 1)
      PROVE  \E i, j \in 1..n : i < j /\ t[p] = s[i] /\ t[q] = s[j]
  BY <1>2 DEF Keeps
<1>6. ASSUME NEW j \in 1..n, NEW i \in 1..(j - 1), s[i] \notin gone, s[j] \notin gone
      PROVE  \E p, q \in DOMAIN t : p < q /\ t[p] = s[i] /\ t[q] = s[j]
  BY <1>1, <1>6 DEF Keeps
<1> QED
  BY <1>3, <1>4, <1>5, <1>6 DEF Keeps

\* The function Without computes.
Filters(left, s, gone) ==
    left = [n \in 0..Len(s) |->
              IF n = 0 THEN <<>>
              ELSE IF s[n] \in gone THEN left[n - 1] ELSE Append(left[n - 1], s[n])]

LEMMA FiltersExists ==
    ASSUME NEW S, NEW s \in Seq(S), NEW gone
    PROVE  \E left : Filters(left, s, gone)
<1> DEFINE N == Len(s)
           step == [n \in 1..N |-> [t \in Seq(S) |-> IF s[n] \in gone THEN t ELSE Append(t, s[n])]]
<1>1. N \in Nat /\ DOMAIN s = 1..N
  OBVIOUS
<1> HIDE DEF N
<1>2. step \in [1..N -> [Seq(S) -> Seq(S)]]
  <2>1. \A n \in 1..N, t \in Seq(S) : Append(t, s[n]) \in Seq(S)
    BY <1>1, AppendProperties
  <2> QED
    BY <2>1
<1>3. <<>> \in Seq(S)
  OBVIOUS
<1>4. PICK iter \in [SUBSET (1..N) -> Seq(S)] :
          \A T \in SUBSET (1..N) :
              /\ iter[T] = IF T = {} THEN <<>> ELSE step[Max(T)][iter[T \ {Max(T)}]]
              /\ T # {} => Max(T) \in T
  <2> HIDE DEF step
  <2> QED
    BY <1>1, <1>2, <1>3, ListFoldExists
<1> DEFINE left == [n \in 0..N |-> iter[1..n]]
<1>5. ASSUME NEW n \in 0..N
      PROVE  left[n] = IF n = 0 THEN <<>>
                       ELSE IF s[n] \in gone THEN left[n - 1] ELSE Append(left[n - 1], s[n])
  <2>1. CASE n = 0
    <3>1. 1..0 = {} /\ {} \in SUBSET (1..N)
      OBVIOUS
    <3>2. iter[1..0] = <<>>
      BY <1>4, <3>1
    <3> QED
      BY <2>1, <3>2
  <2>2. CASE n # 0
    <3>1. n \in 1..N /\ n - 1 \in 0..N
      BY <1>1, <2>2
    <3>2. Max(1..n) = n /\ (1..n) \ {n} = 1..(n - 1) /\ 1..n # {} /\ 1..n \in SUBSET (1..N)
      BY <1>1, <3>1, PrefixMax
    <3>3. iter[1..n] = step[n][iter[1..(n - 1)]]
      <4> HIDE DEF step, left
      <4> DEFINE T == 1..n
      <4>1. T \in SUBSET (1..N) /\ T # {} /\ Max(T) = n /\ T \ {Max(T)} = 1..(n - 1)
        BY <3>2
      <4> HIDE DEF T
      <4>2. iter[T] = step[Max(T)][iter[T \ {Max(T)}]]
        BY <1>4, <4>1
      <4>3. iter[T] = step[n][iter[1..(n - 1)]]
        BY <4>1, <4>2
      <4> QED
        BY <4>3 DEF T
    <3>4. iter[1..(n - 1)] \in Seq(S)
      <4>1. 1..(n - 1) \in SUBSET (1..N)
        BY <3>2
      <4> QED
        BY <1>4, <4>1
    <3>5. iter[1..n] = IF s[n] \in gone THEN iter[1..(n - 1)] ELSE Append(iter[1..(n - 1)], s[n])
      BY <3>1, <3>3, <3>4
    <3> QED
      BY <2>2, <3>1, <3>5
  <2> QED
    BY <2>1, <2>2
<1> HIDE DEF step
<1>6. Filters(left, s, gone)
  BY <1>5 DEF Filters, N
<1> QED
  BY <1>6

(* What Without returns.                                                   *)
LEMMA WithoutKeeps ==
    ASSUME NEW S, NEW s \in Seq(S), NEW gone
    PROVE  Without(s, gone) \in Seq(S) /\ Keeps(Without(s, gone), s, Len(s), gone)
<1> DEFINE N == Len(s)
           g == CHOOSE left : Filters(left, s, gone)
           G == {n \in 0..N : g[n] \in Seq(S) /\ Keeps(g[n], s, n, gone)}
<1>1. N \in Nat /\ DOMAIN s = 1..N
  OBVIOUS
<1>2. Filters(g, s, gone)
  BY FiltersExists
<1>3. Without(s, gone) = g[N]
  BY DEF Without, Filters
<1> HIDE DEF g
<1>a. \A k \in 0..N : k # 0 =>
          g[k] = IF s[k] \in gone THEN g[k - 1] ELSE Append(g[k - 1], s[k])
  BY <1>2 DEF Filters
<1>4. 0 \in G
  <2>1. g[0] = <<>>
    BY <1>1, <1>2 DEF Filters
  <2>2. <<>> \in Seq(S) /\ DOMAIN <<>> = {} /\ 1..0 = {}
    OBVIOUS
  <2>3. Keeps(<<>>, s, 0, gone)
    BY <2>2 DEF Keeps
  <2>4. g[0] \in Seq(S) /\ Keeps(g[0], s, 0, gone)
    BY <2>1, <2>2, <2>3
  <2> QED
    BY <1>1, <2>4
<1>5. ASSUME NEW n \in 0..N, n \in G, n < N PROVE n + 1 \in G
  <2> DEFINE m == n + 1
  <2>1. m \in 1..N /\ m - 1 = n /\ m \in 0..N
    BY <1>1, <1>5
  <2> HIDE DEF m
  <2>2. g[m] = IF s[m] \in gone THEN g[m - 1] ELSE Append(g[m - 1], s[m])
    BY <1>a, <2>1
  <2>3. g[m - 1] \in Seq(S) /\ Keeps(g[m - 1], s, m - 1, gone)
    BY <1>5, <2>1
  <2>4. g[m] \in Seq(S) /\ Keeps(g[m], s, m, gone)
    <3>1. CASE s[m] \in gone
      BY <2>1, <2>2, <2>3, <3>1, KeepsSkip
    <3>2. CASE s[m] \notin gone
      BY <2>1, <2>2, <2>3, <3>2, KeepsAppend
    <3> QED
      BY <3>1, <3>2
  <2> QED
    BY <2>1, <2>4 DEF m
<1> HIDE DEF G
<1>6. N \in G
  <2> HIDE DEF N
  <2>1. \A n \in 0..N : n \in G
    BY <1>1, <1>4, <1>5, UpTo
  <2> QED
    BY <1>1, <2>1
<1> QED
  BY <1>3, <1>6 DEF G

(* The same, as facts about the two lists.                                 *)
LEMMA WithoutFacts ==
    ASSUME NEW S, NEW s \in Seq(S), NEW gone
    PROVE  /\ Without(s, gone) \in Seq(S)
           /\ ToSet(Without(s, gone)) = ToSet(s) \ gone
           /\ IsInjective(s) => IsInjective(Without(s, gone))
<1> DEFINE t == Without(s, gone)
<1>1. t \in Seq(S) /\ Keeps(t, s, Len(s), gone)
  BY WithoutKeeps
<1>2. DOMAIN s = 1..Len(s) /\ DOMAIN t = 1..Len(t) /\ Len(t) \in Nat
  BY <1>1
<1> HIDE DEF t
<1>3. ToSet(t) = ToSet(s) \ gone
  <2>1. ASSUME NEW x \in ToSet(t) PROVE x \in ToSet(s) \ gone
    <3>1. PICK p \in DOMAIN t : x = t[p]
      BY DEF ToSet
    <3>2. PICK i \in 1..Len(s) : t[p] = s[i] /\ s[i] \notin gone
      BY <1>1 DEF Keeps
    <3> QED
      BY <1>2, <3>1, <3>2 DEF ToSet
  <2>2. ASSUME NEW x \in ToSet(s) \ gone PROVE x \in ToSet(t)
    <3>1. PICK i \in 1..Len(s) : x = s[i] /\ s[i] \notin gone
      BY <1>2 DEF ToSet
    <3>2. PICK p \in DOMAIN t : t[p] = s[i]
      BY <1>1, <3>1 DEF Keeps
    <3> QED
      BY <3>1, <3>2 DEF ToSet
  <2> QED
    BY <2>1, <2>2
<1>4. ASSUME IsInjective(s), NEW p \in DOMAIN t, NEW q \in DOMAIN t, t[p] = t[q]
      PROVE  p = q
  <2>1. ASSUME NEW a \in DOMAIN t, NEW b \in DOMAIN t, a < b, t[a] = t[b] PROVE FALSE
    <3>1. a \in 1..(b - 1)
      BY <1>2, <2>1
    <3>2. PICK i, j \in 1..Len(s) : i < j /\ t[a] = s[i] /\ t[b] = s[j]
      BY <1>1, <3>1 DEF Keeps
    <3>3. i \in DOMAIN s /\ j \in DOMAIN s /\ i # j
      BY <1>2, <3>2
    <3>4. s[i] = s[j]
      BY <2>1, <3>2
    <3> QED
      BY <1>4, <3>3, <3>4 DEF IsInjective
  <2>2. p \in Int /\ q \in Int
    BY <1>2
  <2> QED
    BY <1>4, <2>1, <2>2
<1> QED
  BY <1>1, <1>3, <1>4 DEF t, IsInjective

(* A list without repetitions is as long as its set is large.              *)
LEMMA ListSize ==
    ASSUME NEW S, NEW s \in Seq(S), IsInjective(s)
    PROVE  IsFiniteSet(ToSet(s)) /\ Cardinality(ToSet(s)) = Len(s)
<1> DEFINE N == Len(s)
           T == ToSet(s)
<1>1. N \in Nat /\ DOMAIN s = 1..N /\ s \in [1..N -> S]
  OBVIOUS
<1>2. T = {s[i] : i \in 1..N}
  BY <1>1 DEF ToSet
<1>3. s \in Surjection(1..N, T) /\ s \in Injection(1..N, T)
  BY <1>1, <1>2 DEF Surjection, Injection, IsInjective
<1>4. IsFiniteSet(1..N) /\ Cardinality(1..N) = N
  BY <1>1, FS_Interval
<1> HIDE DEF N, T
<1>5. IsFiniteSet(T) /\ Cardinality(T) = Cardinality(1..N)
  BY <1>3, <1>4, FS_Surjection
<1> QED
  BY <1>4, <1>5 DEF N, T

=============================================================================

--------------------------- MODULE OrderingProofs ---------------------------
(***************************************************************************)
(* What the operators of Ordering return: a set in the order of a strict   *)
(* total order, and a selection that keeps the order.  Both rest on        *)
(* counting: the number of elements before an element tells its place.     *)
(* Before that, what the proofs about loops need: induction, which the     *)
(* library states for an operator, here for a set.                         *)
(***************************************************************************)
EXTENDS Ordering, FiniteSetTheorems, FunctionTheorems, SequenceTheorems,
        WellFoundedInduction, TLAPS

-----------------------------------------------------------------------------
(* The least element of a set of numbers.  The library proves it for a set *)
(* of numbers that a well-founded relation orders: so induction needs no   *)
(* operator as a parameter.                                                *)

NatPairs == {p \in Nat \X Nat : p[1] < p[2]}

LEMMA NatPairsWellFounded == IsWellFoundedOn(NatPairs, Nat)
<1>1. OpToRel(<, Nat) = NatPairs
  BY DEF OpToRel, NatPairs
<1> QED
  BY <1>1, NatLessThanWellFounded

LEMMA LeastNat ==
    ASSUME NEW T \in SUBSET Nat, T # {}
    PROVE  \E n \in T : \A m \in T : n <= m
<1>1. PICK x \in T : \A y \in T : ~ (<<y, x>> \in NatPairs)
  BY NatPairsWellFounded, WFMin
<1>2. ASSUME NEW y \in T PROVE x <= y
  <2>1. x \in Nat /\ y \in Nat
    OBVIOUS
  <2>2. y < x => <<y, x>> \in NatPairs
    BY <2>1 DEF NatPairs
  <2> QED
    BY <1>1, <2>1, <2>2
<1> QED
  BY <1>2

-----------------------------------------------------------------------------
(* Induction and loops *)

\* What holds of 0 and is handed on holds up to N.
LEMMA HandedOn ==
    ASSUME NEW N \in Nat, NEW T, 0 \in T, \A n \in 1 .. N : n - 1 \in T => n \in T
    PROVE  \A n \in 0 .. N : n \in T
<1> DEFINE bad == {n \in 0 .. N : n \notin T}
<1>1. bad = {}
  <2> SUFFICES ASSUME bad # {} PROVE FALSE
    OBVIOUS
  <2>1. PICK m \in bad : \A n \in bad : m <= n
    <3>1. bad \in SUBSET Nat
      OBVIOUS
    <3> HIDE DEF bad
    <3> QED
      BY <3>1, LeastNat
  <2>2. m \in 0 .. N /\ m \notin T /\ m # 0
    BY <2>1
  <2>3. m - 1 \in 0 .. N /\ ~ (m <= m - 1) /\ m \in 1 .. N
    BY <2>2
  <2>4. m - 1 \in T
    BY <2>1, <2>3
  <2> QED
    BY <2>2, <2>3, <2>4
<1> QED
  BY <1>1

\* N rounds of a loop, of which round n takes a state t to round[n][t].
Rounds(f, N, S, s, round) ==
    /\ f \in [0 .. N -> S] /\ f[0] = s
    /\ \A n \in 1 .. N : f[n] = round[n][f[n - 1]]

LEMMA LoopRuns ==
    ASSUME NEW N \in Nat, NEW S, NEW s \in S, NEW round \in [1 .. N -> [S -> S]]
    PROVE  \E f : Rounds(f, N, S, s, round)
<1> DEFINE Run(f, m) ==
               /\ f \in [0 .. m -> S] /\ f[0] = s
               /\ \A n \in 1 .. m : f[n] = round[n][f[n - 1]]
           T == {m \in 0 .. N : \E f : Run(f, m)}
<1>1. 0 \in T
  <2>1. Run([n \in 0 .. 0 |-> s], 0)
    OBVIOUS
  <2> HIDE DEF Run
  <2> QED
    BY <2>1
<1>2. ASSUME NEW m \in 1 .. N, m - 1 \in T
      PROVE  m \in T
  <2>1. PICK f : Run(f, m - 1)
    BY <1>2
  <2> DEFINE g == [n \in 0 .. m |-> IF n = m THEN round[m][f[m - 1]] ELSE f[n]]
  <2>2. f[m - 1] \in S
    BY <2>1
  <2>3. round[m][f[m - 1]] \in S
    BY <2>2
  <2>4. g \in [0 .. m -> S] /\ g[0] = s
    BY <2>1, <2>3
  <2>5. ASSUME NEW n \in 1 .. m PROVE g[n] = round[n][g[n - 1]]
    <3>1. g[n - 1] = f[n - 1]
      OBVIOUS
    <3>2. CASE n = m
      BY <3>1, <3>2
    <3>3. CASE n # m
      <4>1. n \in 1 .. m - 1 /\ g[n] = f[n]
        BY <3>3
      <4> QED
        BY <2>1, <3>1, <4>1
    <3> QED
      BY <3>2, <3>3
  <2>6. Run(g, m)
    BY <2>4, <2>5
  <2> HIDE DEF Run, g
  <2> QED
    BY <2>6
<1> HIDE DEF T
<1>3. \A n \in 0 .. N : n \in T
  BY <1>1, <1>2, HandedOn
<1>4. N \in T
  BY <1>3
<1> QED
  BY <1>4 DEF T, Rounds

-----------------------------------------------------------------------------
(* InOrder *)

\* before orders all of S, and no element precedes itself.
StrictOrder(S, before) ==
    /\ \A c \in S : <<c, c>> \notin before
    /\ \A c, d \in S : c # d => <<c, d>> \in before \/ <<d, c>> \in before
    /\ \A b, c, d \in S :
          <<b, c>> \in before /\ <<c, d>> \in before => <<b, d>> \in before

Below(S, before, c) == {d \in S : <<d, c>> \in before}

LEMMA BelowCounts ==
    ASSUME NEW S, IsFiniteSet(S), NEW before, StrictOrder(S, before), NEW c \in S
    PROVE  /\ IsFiniteSet(Below(S, before, c))
           /\ Cardinality(Below(S, before, c)) \in 0 .. Cardinality(S) - 1
<1>1. Below(S, before, c) \in SUBSET (S \ {c})
  BY DEF Below, StrictOrder
<1>2. IsFiniteSet(S \ {c}) /\ Cardinality(S \ {c}) = Cardinality(S) - 1
  BY FS_RemoveElement
<1>3. /\ IsFiniteSet(Below(S, before, c))
      /\ Cardinality(Below(S, before, c)) <= Cardinality(S) - 1
  BY <1>1, <1>2, FS_Subset
<1>4. Cardinality(Below(S, before, c)) \in Nat /\ Cardinality(S) \in Nat
  BY <1>3, FS_CardinalityType
<1> QED
  BY <1>3, <1>4

LEMMA BelowGrows ==
    ASSUME NEW S, IsFiniteSet(S), NEW before, StrictOrder(S, before),
           NEW c \in S, NEW d \in S, <<c, d>> \in before
    PROVE  Cardinality(Below(S, before, c)) < Cardinality(Below(S, before, d))
<1>1. Below(S, before, c) \in SUBSET Below(S, before, d)
  BY DEF Below, StrictOrder
<1>2. c \in Below(S, before, d) /\ c \notin Below(S, before, c)
  BY DEF Below, StrictOrder
<1>3. /\ IsFiniteSet(Below(S, before, c)) /\ IsFiniteSet(Below(S, before, d))
      /\ Cardinality(Below(S, before, c)) \in Int
      /\ Cardinality(Below(S, before, d)) \in Int
  BY BelowCounts
<1>4. /\ Cardinality(Below(S, before, c)) <= Cardinality(Below(S, before, d))
      /\ Cardinality(Below(S, before, c)) # Cardinality(Below(S, before, d))
  BY <1>1, <1>2, <1>3, FS_Subset
<1> QED
  BY <1>3, <1>4

\* InOrder lists every element of the set once, and in the order.
THEOREM InOrderEnumerates ==
    ASSUME NEW S, IsFiniteSet(S), NEW before, StrictOrder(S, before)
    PROVE  /\ Cardinality(S) \in Nat
           /\ InOrder(S, before) \in [1 .. Cardinality(S) -> S]
           /\ \A c \in S : \E n \in 1 .. Cardinality(S) : InOrder(S, before)[n] = c
           /\ \A m, n \in 1 .. Cardinality(S) :
                 m < n => <<InOrder(S, before)[m], InOrder(S, before)[n]>> \in before
<1> DEFINE N == Cardinality(S)
           rank == [c \in S |-> Cardinality(Below(S, before, c)) + 1]
           f == InOrder(S, before)
<1>1. N \in Nat
  BY FS_CardinalityType
<1>2. \A c \in S : rank[c] \in 1 .. N
  BY <1>1, BelowCounts
<1>3. \A c, d \in S : <<c, d>> \in before => rank[c] < rank[d]
  BY BelowGrows, BelowCounts
<1>4. rank \in Injection(S, 1 .. N)
  <2>1. rank \in [S -> 1 .. N]
    BY <1>2
  <2> HIDE DEF rank
  <2>2. ASSUME NEW c \in S, NEW d \in S, rank[c] = rank[d]
        PROVE  c = d
    <3>1. rank[c] \in 1 .. N /\ ~ (rank[c] < rank[d]) /\ ~ (rank[d] < rank[c])
      BY <1>1, <1>2, <2>2
    <3>2. ~ (<<c, d>> \in before) /\ ~ (<<d, c>> \in before)
      BY <1>3, <3>1
    <3> QED
      BY <3>2 DEF StrictOrder
  <2> QED
    BY <2>1, <2>2 DEF Injection, IsInjective
<1>5. rank \in Surjection(S, 1 .. N)
  <2>1. IsFiniteSet(1 .. N) /\ Cardinality(1 .. N) = N
    BY <1>1, FS_Interval
  <2> QED
    BY <1>4, <2>1, FS_Injection
<1>6. \A n \in 1 .. N : \E c \in S : rank[c] = n
  BY <1>5 DEF Surjection
<1>7. \A n \in 1 .. N : f[n] \in S /\ rank[f[n]] = n
  <2> TAKE n \in 1 .. N
  <2>1. PICK c \in S : rank[c] = n
    BY <1>6
  <2>2. Cardinality(Below(S, before, c)) = n - 1
    BY <2>1, BelowCounts
  <2>3. f[n] = CHOOSE b \in S : Cardinality(Below(S, before, b)) = n - 1
    BY DEF InOrder, Below
  <2>4. f[n] \in S /\ Cardinality(Below(S, before, f[n])) = n - 1
    BY <2>2, <2>3
  <2> QED
    BY <2>4
<1>8. f \in [1 .. N -> S]
  BY <1>7 DEF InOrder
<1>9. \A c \in S : f[rank[c]] = c
  <2>1. \A c, d \in S : rank[c] = rank[d] => c = d
    BY <1>4, Fun_InjectionProperties
  <2> HIDE DEF rank, f
  <2> QED
    BY <1>2, <1>7, <2>1
<1>10. \A m, n \in 1 .. N : m < n => <<f[m], f[n]>> \in before
  <2> TAKE m, n \in 1 .. N
  <2> HAVE m < n
  <2> HIDE DEF rank, f
  <2>1. /\ f[m] \in S /\ f[n] \in S
        /\ rank[f[m]] = m /\ rank[f[n]] = n
    BY <1>7
  <2>2. ~ (n < m) /\ m # n
    BY <1>1
  <2>3. f[m] # f[n]
    BY <2>1, <2>2
  <2>4. ~ (<<f[n], f[m]>> \in before)
    BY <1>3, <2>1, <2>2
  <2> QED
    BY <2>1, <2>3, <2>4 DEF StrictOrder
<1> HIDE DEF f, rank
<1>11. \A c \in S : \E n \in 1 .. N : f[n] = c
  BY <1>2, <1>9
<1> QED
  BY <1>1, <1>8, <1>10, <1>11 DEF f

-----------------------------------------------------------------------------
(* Pick *)

\* Pick returns exactly the elements at the given positions, in their order.
THEOREM PickSelects ==
    ASSUME NEW T, NEW s \in Seq(T), NEW I \in SUBSET (DOMAIN s)
    PROVE  /\ Pick(s, I) \in Seq(T)
           /\ IsFiniteSet(I) /\ Len(Pick(s, I)) = Cardinality(I)
           /\ \E at \in [1 .. Cardinality(I) -> I] :
                 /\ \A n \in 1 .. Cardinality(I) : Pick(s, I)[n] = s[at[n]]
                 /\ \A i \in I : \E n \in 1 .. Cardinality(I) : at[n] = i
                 /\ \A m, n \in 1 .. Cardinality(I) : m < n => at[m] < at[n]
<1> DEFINE R == {p \in I \X I : p[1] < p[2]}
           at == InOrder(I, R)
           N == Cardinality(I)
<1>1. DOMAIN s = 1 .. Len(s) /\ Len(s) \in Nat
  BY LenProperties
<1>2. IsFiniteSet(I)
  <2>1. IsFiniteSet(1 .. Len(s))
    BY <1>1, FS_Interval
  <2> QED
    BY <1>1, <2>1, FS_Subset
<1>3. \A i, j \in I : <<i, j>> \in R <=> i < j
  BY DEF R
<1>4. StrictOrder(I, R)
  BY <1>1, <1>3 DEF StrictOrder
<1> HIDE DEF R
<1>5. /\ N \in Nat /\ at \in [1 .. N -> I]
      /\ \A c \in I : \E n \in 1 .. N : at[n] = c
      /\ \A m, n \in 1 .. N : m < n => <<at[m], at[n]>> \in R
  BY <1>2, <1>4, InOrderEnumerates
<1>6. Pick(s, I) = [n \in 1 .. N |-> s[at[n]]]
  BY DEF Pick, R
<1> HIDE DEF at, N
<1>7. \A n \in 1 .. N : s[at[n]] \in T
  BY <1>1, <1>5, ElementOfSeq
<1>8. Pick(s, I) \in Seq(T) /\ Len(Pick(s, I)) = N
  <2>1. Pick(s, I) \in [1 .. N -> T]
    BY <1>6, <1>7
  <2> QED
    BY <2>1, <1>5, SeqDef
<1>9. \A m, n \in 1 .. N : m < n => at[m] < at[n]
  BY <1>3, <1>5
<1> QED
  BY <1>2, <1>5, <1>6, <1>8, <1>9 DEF N
=============================================================================

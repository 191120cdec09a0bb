------------------------- MODULE WavePlannerProofs -------------------------
(***************************************************************************)
(* Theorems about WavePlanner, for every number of experts, slots, tokens  *)
(* and experts per token.  The proof counts: experts against slots, and    *)
(* the pairs before a pair against its position.  An element of an ordered *)
(* finite set has as many elements before it as its position says, so that *)
(* the positions are a bijection; nothing is proved by induction on data.  *)
(***************************************************************************)
EXTENDS WavePlanner, FiniteSetTheorems, FunctionTheorems, SequenceTheorems, TLAPS

--------------------------------------------------------------------------
(***************************************************************************)
(* Positions in an ordered finite set.                                     *)
(***************************************************************************)
StrictOrder(S, before) ==
    /\ \A x \in S : <<x, x>> \notin before
    /\ \A x, y \in S : x # y => <<x, y>> \in before \/ <<y, x>> \in before
    /\ \A x, y, z \in S : <<x, y>> \in before /\ <<y, z>> \in before => <<x, z>> \in before

Rank(S, before, x) == Cardinality({y \in S : <<y, x>> \in before})

\* An element has fewer elements before it than one that is behind it.
LEMMA RankIsMonotone ==
    ASSUME NEW S, IsFiniteSet(S), NEW before, StrictOrder(S, before),
           NEW x \in S, NEW y \in S, <<x, y>> \in before
    PROVE  Rank(S, before, x) < Rank(S, before, y)
<1> DEFINE X == {z \in S : <<z, x>> \in before}
           Y == {z \in S : <<z, y>> \in before}
<1>1. IsFiniteSet(Y) /\ Cardinality(Y) \in Nat
  BY FS_Subset, FS_CardinalityType
<1>2. X \in SUBSET Y /\ x \in Y /\ x \notin X
  BY DEF StrictOrder
<1> HIDE DEF X, Y
<1>3. IsFiniteSet(X) /\ Cardinality(X) <= Cardinality(Y) /\ Cardinality(X) # Cardinality(Y)
  BY <1>1, <1>2, FS_Subset
<1>4. Cardinality(X) \in Nat
  BY <1>3, FS_CardinalityType
<1>5. QED
  BY <1>1, <1>3, <1>4 DEF Rank, X, Y

LEMMA RankIsABijection ==
    ASSUME NEW S, IsFiniteSet(S), NEW before, StrictOrder(S, before)
    PROVE  /\ Cardinality(S) \in Nat
           /\ \A x \in S : Rank(S, before, x) \in 0 .. Cardinality(S) - 1
           /\ \A x, y \in S : Rank(S, before, x) = Rank(S, before, y) => x = y
           /\ \A k \in 0 .. Cardinality(S) - 1 : \E x \in S : Rank(S, before, x) = k
<1> DEFINE n == Cardinality(S)
           f == [x \in S |-> Rank(S, before, x)]
<1>1. n \in Nat
  BY FS_CardinalityType
<1>2. ASSUME NEW x \in S PROVE Rank(S, before, x) \in 0 .. n - 1
  <2> DEFINE X == {z \in S : <<z, x>> \in before}
  <2>1. X \in SUBSET (S \ {x})
    BY DEF StrictOrder
  <2>2. IsFiniteSet(S \ {x}) /\ Cardinality(S \ {x}) = n - 1
    BY FS_RemoveElement
  <2> HIDE DEF X
  <2>3. IsFiniteSet(X) /\ Cardinality(X) <= n - 1
    BY <2>1, <2>2, FS_Subset
  <2>4. Cardinality(X) \in Nat
    BY <2>3, FS_CardinalityType
  <2>5. QED
    BY <1>1, <2>3, <2>4 DEF Rank, X
<1>3. ASSUME NEW x \in S, NEW y \in S, Rank(S, before, x) = Rank(S, before, y)
      PROVE  x = y
  <2>1. Rank(S, before, x) \in Nat
    BY <1>1, <1>2
  <2>2. ~(Rank(S, before, x) < Rank(S, before, y)) /\ ~(Rank(S, before, y) < Rank(S, before, x))
    BY <1>3, <2>1
  <2>3. <<x, y>> \notin before /\ <<y, x>> \notin before
    BY <2>2, RankIsMonotone
  <2>4. QED
    BY <2>3 DEF StrictOrder
<1>4. f \in Surjection(S, 0 .. n - 1)
  <2>1. f \in Injection(S, 0 .. n - 1)
    BY <1>2, <1>3 DEF Injection, IsInjective
  <2>2. IsFiniteSet(0 .. n - 1) /\ Cardinality(0 .. n - 1) = n
    <3>1. 0 \in Int /\ n - 1 \in Int
      BY <1>1
    <3>2. QED
      BY <1>1, <3>1, FS_Interval
  <2>3. QED
    BY <2>1, <2>2, FS_Injection
<1>5. ASSUME NEW k \in 0 .. n - 1 PROVE \E x \in S : Rank(S, before, x) = k
  <2>1. PICK x \in S : f[x] = k
    BY <1>4 DEF Surjection
  <2>2. QED
    BY <2>1
<1>6. QED
  BY <1>1, <1>2, <1>3, <1>5

\* Sorted lists every element once, at its position.
LEMMA SortedIsABijection ==
    ASSUME NEW S, IsFiniteSet(S), NEW before, StrictOrder(S, before)
    PROVE  /\ Cardinality(S) \in Nat
           /\ Sorted(S, before) \in [1 .. Cardinality(S) -> S]
           /\ Sorted(S, before) \in Seq(S) /\ Len(Sorted(S, before)) = Cardinality(S)
           /\ \A i \in 1 .. Cardinality(S) : Rank(S, before, Sorted(S, before)[i]) = i - 1
           /\ \A x \in S : /\ Rank(S, before, x) + 1 \in 1 .. Cardinality(S)
                           /\ Sorted(S, before)[Rank(S, before, x) + 1] = x
<1> DEFINE n == Cardinality(S)
           q == Sorted(S, before)
<1>1. /\ n \in Nat
      /\ \A x \in S : Rank(S, before, x) \in 0 .. n - 1
      /\ \A x, y \in S : Rank(S, before, x) = Rank(S, before, y) => x = y
      /\ \A k \in 0 .. n - 1 : \E x \in S : Rank(S, before, x) = k
  BY RankIsABijection
<1>2. q = [i \in 1 .. n |-> CHOOSE x \in S : Rank(S, before, x) = i - 1]
  BY DEF Sorted, Rank
<1>3. ASSUME NEW i \in 1 .. n
      PROVE  q[i] \in S /\ Rank(S, before, q[i]) = i - 1
  <2>1. i - 1 \in 0 .. n - 1
    BY <1>1
  <2>2. \E x \in S : Rank(S, before, x) = i - 1
    BY <1>1, <2>1
  <2>3. q[i] = CHOOSE x \in S : Rank(S, before, x) = i - 1
    BY <1>2
  <2> HIDE DEF q
  <2>4. QED
    BY <2>2, <2>3
<1>4. q \in [1 .. n -> S]
  <2>1. DOMAIN q = 1 .. n /\ q = [i \in 1 .. n |-> q[i]]
    BY <1>2
  <2> HIDE DEF q
  <2>2. QED
    BY <1>3, <2>1
<1> HIDE DEF q
<1>5. q \in Seq(S) /\ Len(q) = n
  BY <1>1, <1>4, LenProperties, SeqDef
<1>6. ASSUME NEW x \in S
      PROVE  Rank(S, before, x) + 1 \in 1 .. n /\ q[Rank(S, before, x) + 1] = x
  <2>1. Rank(S, before, x) + 1 \in 1 .. n
    BY <1>1
  <2>2. /\ q[Rank(S, before, x) + 1] \in S
        /\ Rank(S, before, q[Rank(S, before, x) + 1]) = Rank(S, before, x)
    BY <1>1, <1>3, <2>1
  <2>3. QED
    BY <1>1, <2>1, <2>2
<1>7. QED
  BY <1>1, <1>3, <1>4, <1>5, <1>6 DEF q

--------------------------------------------------------------------------
(***************************************************************************)
(* The routing, counted.                                                   *)
(***************************************************************************)
LEMMA SizesType ==
    /\ NumSlots \in Nat \ {0} /\ TopK \in Nat \ {0} /\ NumTokens \in Nat /\ NumExperts \in Nat
    /\ NumTokens * TopK \in Nat
  BY PlannerSizesAssumption

LEMMA QuotientIsBounded ==
    ASSUME NEW k \in Nat \ {0}, NEW n \in Nat, NEW p \in 0 .. n * k - 1
    PROVE  p \div k \in 0 .. n - 1
<1> DEFINE d == p \div k
           r == p % k
<1>1. p = k * d + r /\ r \in 0 .. k - 1 /\ d \in Int /\ p \in Nat /\ p < n * k
  OBVIOUS
<1> HIDE DEF d, r
<1>2. d >= 0
  BY <1>1
<1>3. d < n
  <2> SUFFICES ASSUME d >= n PROVE FALSE
    BY <1>1
  <2>1. k * d >= k * n
    BY <1>1
  <2>2. QED
    BY <1>1, <2>1
<1>4. QED
  BY <1>1, <1>2, <1>3 DEF d

LEMMA PairsAreFinite ==
    /\ IsFiniteSet(Pairs) /\ Pairs \subseteq Nat
    /\ IsFiniteSet(Experts) /\ Experts \subseteq Nat
    /\ \A p \in Pairs : TokenOf(p) \in 0 .. NumTokens - 1
<1> DEFINE n == NumTokens * TopK
<1>1. n \in Nat
  BY SizesType
<1>2. IsFiniteSet(0 .. n - 1) /\ IsFiniteSet(0 .. NumExperts - 1)
  BY <1>1, SizesType, FS_Interval
<1>3. ASSUME NEW p \in 0 .. n - 1 PROVE p \div TopK \in 0 .. NumTokens - 1
  BY <1>1, <1>3, SizesType, QuotientIsBounded
<1>4. QED
  BY <1>1, <1>2, <1>3 DEF Pairs, Experts, TokenOf

\* How many waves are needed: as many as hold all experts, and no more.
LEMMA CeilingDivision ==
    ASSUME NEW c \in Nat, NEW s \in Nat \ {0}
    PROVE  LET m == (c + s - 1) \div s
           IN  m \in Nat /\ m * s >= c /\ (m - 1) * s < c
<1> DEFINE m == (c + s - 1) \div s
           r == (c + s - 1) % s
<1>1. c + s - 1 = s * m + r /\ r \in 0 .. s - 1 /\ m \in Int
  OBVIOUS
<1> HIDE DEF m, r
<1>2. s * m = m * s /\ (m - 1) * s = m * s - s
  BY <1>1
<1>3. m * s >= c /\ (m - 1) * s < c + s - s
  BY <1>1, <1>2
<1>4. m >= 0
  BY <1>1
<1>5. QED
  BY <1>1, <1>3, <1>4 DEF m

LEMMA RoutingFacts ==
    ASSUME topk \in Routings
    PROVE  /\ topk \in [Pairs -> Experts] /\ \A p \in Pairs : topk[p] \in Active
           /\ Active \subseteq Nat /\ IsFiniteSet(Active)
           /\ Cardinality(Active) \in Nat /\ Cardinality(Active) > NumSlots
           /\ MinWaves(Active) \in Nat
           /\ MinWaves(Active) * NumSlots >= Cardinality(Active)
           /\ (MinWaves(Active) - 1) * NumSlots < Cardinality(Active)
<1>1. topk \in [Pairs -> Experts] /\ Cardinality({topk[p] : p \in Pairs}) > NumSlots
  BY DEF Routings
<1>2. Active \in SUBSET Experts /\ Cardinality(Active) > NumSlots
  BY <1>1 DEF Active
<1>3. IsFiniteSet(Active) /\ Cardinality(Active) \in Nat
  BY <1>2, PairsAreFinite, FS_Subset, FS_CardinalityType
<1>4. QED
  BY <1>1, <1>2, <1>3, PairsAreFinite, SizesType, CeilingDivision DEF MinWaves, Active

LEMMA LoadsAdd ==
    ASSUME NEW S
    PROVE  /\ Load(S) \in Nat
           /\ \A e : Count(e) \in Nat
           /\ \A e : e \notin S => Load(S \cup {e}) = Load(S) + Count(e)
<1>1. \A Test : LET X == Pairs \cap Test IN IsFiniteSet(X) /\ Cardinality(X) \in Nat
  BY PairsAreFinite, FS_Subset, FS_CardinalityType
<1>2. Load(S) \in Nat
  <2>1. {p \in Pairs : topk[p] \in S} = Pairs \cap {p \in Pairs : topk[p] \in S}
    OBVIOUS
  <2>2. QED
    BY <1>1, <2>1 DEF Load
<1>3. ASSUME NEW e PROVE Count(e) \in Nat
  <2>1. {p \in Pairs : topk[p] = e} = Pairs \cap {p \in Pairs : topk[p] = e}
    OBVIOUS
  <2>2. QED
    BY <1>1, <2>1 DEF Count
<1>4. ASSUME NEW e, e \notin S PROVE Load(S \cup {e}) = Load(S) + Count(e)
  <2> DEFINE X == {p \in Pairs : topk[p] \in S}
             Y == {p \in Pairs : topk[p] = e}
             Z == {p \in Pairs : topk[p] \in S \cup {e}}
  <2>1. Z = X \cup Y /\ X \cap Y = {} /\ X \subseteq Pairs /\ Y \subseteq Pairs
    BY <1>4
  <2>2. Load(S) = Cardinality(X) /\ Count(e) = Cardinality(Y) /\ Load(S \cup {e}) = Cardinality(Z)
    BY DEF Load, Count
  <2> HIDE DEF X, Y, Z
  <2>3. IsFiniteSet(X) /\ IsFiniteSet(Y) /\ Cardinality(X) \in Nat /\ Cardinality(Y) \in Nat
    BY <2>1, PairsAreFinite, FS_Subset, FS_CardinalityType
  <2>4. Cardinality(X \cup Y) = Cardinality(X) + Cardinality(Y) - Cardinality(X \cap Y)
    BY <2>3, FS_Union
  <2>5. Cardinality(X \cap Y) = 0
    BY <2>1, FS_EmptySet
  <2>6. QED
    BY <2>1, <2>2, <2>3, <2>4, <2>5
<1>5. QED
  BY <1>2, <1>3, <1>4

--------------------------------------------------------------------------
(***************************************************************************)
(* The packing.  What has been placed is at least as heavy as what has not.*)
(***************************************************************************)
PackInv ==
    /\ topk \in Routings
    /\ unplaced \in SUBSET Active
    /\ waves \in [1 .. MinWaves(Active) -> SUBSET Active]
    /\ phase \in {"packing", "computing", "combined"}
    /\ phase # "packing" => unplaced = {}
    /\ \A e \in Active : e \in unplaced <=> \A w \in DOMAIN waves : e \notin waves[w]
    /\ \A v, w \in DOMAIN waves : v # w => waves[v] \cap waves[w] = {}
    /\ \A w \in DOMAIN waves : Cardinality(waves[w]) <= NumSlots
    /\ \A e \in Active \ unplaced, u \in unplaced : PackedBefore(e, u)
    /\ WavesAreBalanced

NaturalOrder(S) == {xy \in S \X S : xy[1] < xy[2]}

\* The ascending listing of the experts of a wave, and their slots in its bank.
LEMMA AscendingLists ==
    ASSUME NEW S, S \subseteq Nat, IsFiniteSet(S)
    PROVE  /\ Cardinality(S) \in Nat
           /\ Ascending(S) \in [1 .. Cardinality(S) -> S]
           /\ Ascending(S) \in Seq(S) /\ Len(Ascending(S)) = Cardinality(S)
           /\ \A i, j \in 1 .. Cardinality(S) : Ascending(S)[i] = Ascending(S)[j] => i = j
           /\ \A x \in S : LET r == Cardinality({y \in S : y < x})
                           IN  /\ r \in 0 .. Cardinality(S) - 1
                               /\ Ascending(S)[r + 1] = x
<1> DEFINE R == NaturalOrder(S)
           n == Cardinality(S)
<1>1. StrictOrder(S, R)
  BY DEF StrictOrder, NaturalOrder
<1>2. Ascending(S) = Sorted(S, R)
  BY DEF Ascending, NaturalOrder
<1>3. ASSUME NEW x \in S PROVE Rank(S, R, x) = Cardinality({y \in S : y < x})
  <2>1. {y \in S : <<y, x>> \in R} = {y \in S : y < x}
    BY DEF NaturalOrder
  <2>2. QED
    BY <2>1 DEF Rank
<1> HIDE DEF R
<1>4. /\ n \in Nat /\ Sorted(S, R) \in [1 .. n -> S]
      /\ Sorted(S, R) \in Seq(S) /\ Len(Sorted(S, R)) = n
      /\ \A i \in 1 .. n : Rank(S, R, Sorted(S, R)[i]) = i - 1
      /\ \A x \in S : Rank(S, R, x) + 1 \in 1 .. n /\ Sorted(S, R)[Rank(S, R, x) + 1] = x
  BY <1>1, SortedIsABijection
<1>5. \A i, j \in 1 .. n : Sorted(S, R)[i] = Sorted(S, R)[j] => i = j
  BY <1>4
<1>6. \A x \in S : Rank(S, R, x) \in 0 .. n - 1
  BY <1>1, RankIsABijection
<1>7. QED
  BY <1>2, <1>3, <1>4, <1>5, <1>6

LEMMA WavesAreFinite ==
    ASSUME PackInv
    PROVE  /\ DOMAIN waves = 1 .. MinWaves(Active) /\ MinWaves(Active) \in Nat
           /\ IsFiniteSet(DOMAIN waves) /\ Cardinality(DOMAIN waves) = MinWaves(Active)
           /\ \A w \in DOMAIN waves :
                /\ waves[w] \subseteq Active /\ waves[w] \subseteq Nat
                /\ IsFiniteSet(waves[w]) /\ Cardinality(waves[w]) \in 0 .. NumSlots
<1>1. DOMAIN waves = 1 .. MinWaves(Active) /\ MinWaves(Active) \in Nat
  BY RoutingFacts DEF PackInv
<1>2. IsFiniteSet(DOMAIN waves) /\ Cardinality(DOMAIN waves) = MinWaves(Active)
  BY <1>1, FS_Interval
<1>3. ASSUME NEW w \in DOMAIN waves
      PROVE  /\ waves[w] \subseteq Active /\ waves[w] \subseteq Nat
             /\ IsFiniteSet(waves[w]) /\ Cardinality(waves[w]) \in 0 .. NumSlots
  <2>1. waves[w] \in SUBSET Active /\ Cardinality(waves[w]) <= NumSlots
    BY <1>1 DEF PackInv
  <2>2. IsFiniteSet(waves[w]) /\ waves[w] \subseteq Nat
    BY <2>1, RoutingFacts, FS_Subset DEF PackInv
  <2>3. QED
    BY <2>1, <2>2, FS_CardinalityType, SizesType
<1>4. QED
  BY <1>1, <1>2, <1>3

\* As long as an expert is not placed, some wave has room: full waves would hold
\* more experts than there are.
LEMMA RoomIsLeft ==
    ASSUME PackInv, unplaced # {}
    PROVE  Roomy # {}
<1> SUFFICES ASSUME Roomy = {} PROVE FALSE
  OBVIOUS
<1> DEFINE M == MinWaves(Active)
           c == Cardinality(Active)
           D == (1 .. M) \X (1 .. NumSlots)
           f == [x \in D |-> Ascending(waves[x[1]])[x[2]]]
           T == Active \ unplaced
<1>1. /\ DOMAIN waves = 1 .. M /\ M \in Nat /\ c \in Nat /\ M * NumSlots >= c
      /\ IsFiniteSet(Active)
  BY WavesAreFinite, RoutingFacts DEF PackInv
<1>2. ASSUME NEW w \in 1 .. M
      PROVE  /\ Cardinality(waves[w]) = NumSlots
             /\ Ascending(waves[w]) \in [1 .. NumSlots -> waves[w]]
             /\ \A i, j \in 1 .. NumSlots :
                  Ascending(waves[w])[i] = Ascending(waves[w])[j] => i = j
             /\ waves[w] \subseteq T
  <2>1. Cardinality(waves[w]) \in 0 .. NumSlots /\ ~(Cardinality(waves[w]) < NumSlots)
    BY <1>1, WavesAreFinite DEF Roomy
  <2>2. Cardinality(waves[w]) = NumSlots
    BY <2>1, SizesType
  <2>3. waves[w] \subseteq T
    BY <1>1, WavesAreFinite DEF PackInv
  <2>4. QED
    BY <1>1, <2>2, <2>3, WavesAreFinite, AscendingLists
<1>3. f \in Injection(D, T)
  <2>1. ASSUME NEW x \in D
        PROVE  /\ x[1] \in 1 .. M /\ x[2] \in 1 .. NumSlots
               /\ f[x] = Ascending(waves[x[1]])[x[2]] /\ f[x] \in waves[x[1]] /\ f[x] \in T
    <3>1. /\ x[1] \in 1 .. M /\ x[2] \in 1 .. NumSlots /\ x = <<x[1], x[2]>>
          /\ f[x] = Ascending(waves[x[1]])[x[2]]
      OBVIOUS
    <3> HIDE DEF f, D, T
    <3>2. Ascending(waves[x[1]])[x[2]] \in waves[x[1]] /\ waves[x[1]] \subseteq T
      BY <1>2, <3>1
    <3>3. QED
      BY <3>1, <3>2
  <2>2. ASSUME NEW x \in D, NEW y \in D, f[x] = f[y] PROVE x = y
    <3>1. x[1] = y[1]
      BY <1>1, <2>1, <2>2 DEF PackInv
    <3>2. x[2] = y[2]
      BY <1>2, <2>1, <2>2, <3>1
    <3>3. QED
      BY <3>1, <3>2
  <2>3. f \in [D -> T]
    BY <2>1
  <2> HIDE DEF f, D, T
  <2>4. QED
    BY <2>2, <2>3 DEF Injection, IsInjective, f
<1> HIDE DEF f
<1>4. IsFiniteSet(T) /\ Cardinality(T) < c
  <2>1. PICK u \in unplaced : TRUE
    OBVIOUS
  <2>2. T \in SUBSET Active /\ T # Active
    BY <2>1 DEF PackInv
  <2>3. IsFiniteSet(T) /\ Cardinality(T) <= c /\ Cardinality(T) # c
    BY <1>1, <2>2, FS_Subset
  <2>4. Cardinality(T) \in Nat
    BY <2>3, FS_CardinalityType
  <2>5. QED
    BY <1>1, <2>3, <2>4
<1>5. Cardinality(D) = M * NumSlots
  <2>1. /\ IsFiniteSet(1 .. M) /\ Cardinality(1 .. M) = M
        /\ IsFiniteSet(1 .. NumSlots) /\ Cardinality(1 .. NumSlots) = NumSlots
    BY <1>1, SizesType, FS_Interval
  <2>2. Cardinality(D) = Cardinality(1 .. M) * Cardinality(1 .. NumSlots)
    BY <2>1, FS_Product
  <2> HIDE DEF D
  <2>3. QED
    BY <2>1, <2>2
<1> HIDE DEF D, T
<1>6. Cardinality(D) <= Cardinality(T)
  BY <1>3, <1>4, FS_Injection
<1>7. Cardinality(T) \in Nat /\ M * NumSlots \in Nat
  BY <1>1, <1>4, FS_CardinalityType, SizesType
<1>8. QED
  BY <1>1, <1>4, <1>5, <1>6, <1>7

\* The first element of an ordered finite set.
LEMMA FirstOfAnOrder ==
    ASSUME NEW S, IsFiniteSet(S), S # {}, NEW before, StrictOrder(S, before)
    PROVE  \E x \in S : \A y \in S : y = x \/ <<x, y>> \in before
<1>1. /\ Cardinality(S) \in Nat /\ Cardinality(S) # 0
      /\ \A k \in 0 .. Cardinality(S) - 1 : \E x \in S : Rank(S, before, x) = k
  BY RankIsABijection, FS_EmptySet
<1>2. PICK x \in S : Rank(S, before, x) = 0
  BY <1>1
<1> DEFINE X == {y \in S : <<y, x>> \in before}
<1>3. X = {}
  <2>1. X \in SUBSET S /\ Cardinality(X) = 0
    BY <1>2 DEF Rank
  <2> HIDE DEF X
  <2>2. QED
    BY <2>1, FS_Subset, FS_EmptySet
<1>4. QED
  BY <1>3 DEF StrictOrder

LEMMA LightestIsRoomy ==
    ASSUME PackInv, Roomy # {}
    PROVE  /\ Lightest(Roomy) \in Roomy
           /\ \A v \in Roomy : Load(waves[Lightest(Roomy)]) <= Load(waves[v])
<1> DEFINE before == {vw \in Roomy \X Roomy :
                        \/ Load(waves[vw[1]]) < Load(waves[vw[2]])
                        \/ Load(waves[vw[1]]) = Load(waves[vw[2]]) /\ vw[1] < vw[2]}
           Goal(w) == \A v \in Roomy :
                        \/ Load(waves[w]) < Load(waves[v])
                        \/ Load(waves[w]) = Load(waves[v]) /\ w <= v
<1>1. Roomy \subseteq Nat /\ IsFiniteSet(Roomy)
  <2>1. Roomy \in SUBSET DOMAIN waves
    BY DEF Roomy
  <2>2. QED
    BY <2>1, WavesAreFinite, FS_Subset
<1>2. \A w \in Roomy : Load(waves[w]) \in Nat
  BY LoadsAdd
<1>3. StrictOrder(Roomy, before)
  BY <1>1, <1>2 DEF StrictOrder
<1>4. \A v, w \in Roomy : <<w, v>> \in before =>
          \/ Load(waves[w]) < Load(waves[v])
          \/ Load(waves[w]) = Load(waves[v]) /\ w < v
  OBVIOUS
<1> HIDE DEF before
<1>5. \E w \in Roomy : Goal(w)
  <2>1. PICK w \in Roomy : \A v \in Roomy : v = w \/ <<w, v>> \in before
    BY <1>1, <1>3, FirstOfAnOrder
  <2>2. ASSUME NEW v \in Roomy
        PROVE  \/ Load(waves[w]) < Load(waves[v])
               \/ Load(waves[w]) = Load(waves[v]) /\ w <= v
    <3>1. CASE v = w
      BY <1>1, <3>1
    <3>2. CASE <<w, v>> \in before
      BY <1>1, <1>4, <3>2
    <3>3. QED
      BY <2>1, <3>1, <3>2
  <2>3. QED
    BY <2>2
<1>6. Lightest(Roomy) = CHOOSE w \in Roomy : Goal(w)
  BY DEF Lightest
<1>7. Lightest(Roomy) \in Roomy /\ Goal(Lightest(Roomy))
  <2> DEFINE c == CHOOSE w \in Roomy : Goal(w)
  <2> HIDE DEF Goal
  <2>1. c \in Roomy /\ Goal(c)
    BY <1>5
  <2>2. QED
    BY <1>6, <2>1
<1>8. QED
  BY <1>2, <1>7

LEMMA PlaceKeepsPacking == PackInv /\ Place => PackInv'
<1> SUFFICES ASSUME PackInv, Place PROVE PackInv'
  OBVIOUS
<1>1. PICK x \in unplaced :
        /\ \A other \in unplaced \ {x} : PackedBefore(x, other)
        /\ unplaced' = unplaced \ {x}
        /\ waves' = IF Roomy = {} THEN Append(waves, {x})
                    ELSE [waves EXCEPT ![Lightest(Roomy)] = @ \cup {x}]
  BY DEF Place
<1>2. phase = "packing" /\ phase' = "packing" /\ UNCHANGED topk
  BY DEF Place
<1> DEFINE L == Lightest(Roomy)
<1>3. /\ L \in DOMAIN waves /\ Cardinality(waves[L]) < NumSlots
      /\ \A v \in DOMAIN waves : \/ Cardinality(waves[v]) = NumSlots
                                 \/ Load(waves[L]) <= Load(waves[v])
  <2>1. Roomy # {}
    BY <1>1, RoomIsLeft
  <2>2. L \in Roomy /\ \A v \in Roomy : Load(waves[L]) <= Load(waves[v])
    BY <2>1, LightestIsRoomy
  <2>3. \A v \in DOMAIN waves : v \in Roomy \/ Cardinality(waves[v]) = NumSlots
    BY WavesAreFinite, SizesType DEF Roomy
  <2>4. QED
    BY <2>2, <2>3 DEF Roomy
<1>4. waves' = [waves EXCEPT ![L] = @ \cup {x}]
  BY <1>1, RoomIsLeft
<1> HIDE DEF L
<1>5. /\ Active' = Active /\ MinWaves(Active') = MinWaves(Active)
      /\ \A e : Count(e)' = Count(e)
      /\ \A S : Load(S)' = Load(S)
  BY <1>2 DEF Active, MinWaves, Count, Load
<1>6. x \in Active /\ \A w \in DOMAIN waves : x \notin waves[w]
  BY DEF PackInv
<1>7. /\ DOMAIN waves' = DOMAIN waves
      /\ waves'[L] = waves[L] \cup {x}
      /\ \A w \in DOMAIN waves : w # L => waves'[w] = waves[w]
      /\ waves \in [1 .. MinWaves(Active) -> SUBSET Active]
  BY <1>3, <1>4 DEF PackInv
<1>8. waves' \in [1 .. MinWaves(Active) -> SUBSET Active]
  BY <1>3, <1>4, <1>6, <1>7
<1>9. /\ waves[L] \subseteq Active /\ IsFiniteSet(waves[L])
      /\ Cardinality(waves[L]) \in 0 .. NumSlots
      /\ Cardinality(waves[L] \cup {x}) = Cardinality(waves[L]) + 1
  BY <1>3, <1>6, WavesAreFinite, FS_AddElement
<1>10. \A e \in Active' : e \in unplaced' <=> \A w \in DOMAIN waves' : e \notin waves'[w]
  BY <1>1, <1>3, <1>5, <1>7 DEF PackInv
<1>11. \A v, w \in DOMAIN waves' : v # w => waves'[v] \cap waves'[w] = {}
  BY <1>3, <1>6, <1>7 DEF PackInv
<1>12. \A w \in DOMAIN waves' : Cardinality(waves'[w]) <= NumSlots
  <2>1. Cardinality(waves'[L]) <= NumSlots
    BY <1>3, <1>7, <1>9, SizesType
  <2>2. \A w \in DOMAIN waves : w # L => Cardinality(waves'[w]) <= NumSlots
    BY <1>7 DEF PackInv
  <2>3. QED
    BY <1>7, <2>1, <2>2
<1>13. \A e, u : PackedBefore(e, u)' = PackedBefore(e, u)
  BY <1>5 DEF PackedBefore
<1>14. \A e \in Active' \ unplaced', u \in unplaced' : PackedBefore(e, u)
  BY <1>1, <1>5 DEF PackInv
<1>15. WavesAreBalanced'
  <2> SUFFICES ASSUME NEW v \in DOMAIN waves, NEW w \in DOMAIN waves,
                      NEW e \in waves'[v]
               PROVE  \/ Cardinality(waves'[w]) = NumSlots
                      \/ Load(waves'[v]) - Count(e) <= Load(waves'[w])
    BY <1>5, <1>7 DEF WavesAreBalanced
  <2>1. /\ Load(waves[v]) \in Nat /\ Load(waves[w]) \in Nat /\ Load(waves[L]) \in Nat
        /\ Count(e) \in Nat /\ Count(x) \in Nat
        /\ Load(waves'[L]) = Load(waves[L]) + Count(x)
    BY <1>3, <1>6, <1>7, LoadsAdd
  <2>2. CASE v = L /\ w = L
    BY <2>1, <2>2
  <2>3. CASE v # L /\ w # L
    BY <1>7, <2>3 DEF PackInv, WavesAreBalanced
  <2>4. CASE v # L /\ w = L
    <3>1. Cardinality(waves[w]) # NumSlots
      BY <1>3, <1>9, <2>4, SizesType
    <3>2. Load(waves[v]) - Count(e) <= Load(waves[w])
      BY <1>7, <2>4, <3>1 DEF PackInv, WavesAreBalanced
    <3>3. waves'[v] = waves[v] /\ Load(waves'[w]) = Load(waves[w]) + Count(x)
      BY <1>7, <2>1, <2>4
    <3>4. QED
      BY <2>1, <3>2, <3>3
  <2>5. CASE v = L /\ w # L
    <3>1. Count(e) >= Count(x)
      <4>1. CASE e = x
        BY <2>1, <4>1
      <4>2. CASE e # x
        <5>1. e \in Active \ unplaced
          BY <1>3, <1>7, <1>9, <2>5, <4>2 DEF PackInv
        <5>2. PackedBefore(e, x)
          BY <5>1 DEF PackInv
        <5>3. QED
          BY <2>1, <5>2 DEF PackedBefore
      <4>3. QED
        BY <4>1, <4>2
    <3>2. waves'[w] = waves[w]
      BY <1>7, <2>5
    <3>3. Cardinality(waves[w]) = NumSlots \/ Load(waves[L]) <= Load(waves[w])
      BY <1>3
    <3>4. QED
      BY <2>1, <2>5, <3>1, <3>2, <3>3
  <2>6. QED
    BY <2>2, <2>3, <2>4, <2>5
<1>16. topk' \in Routings /\ unplaced' \in SUBSET Active'
  BY <1>1, <1>2, <1>5 DEF PackInv, Routings, Pairs, Experts, TokenOf
<1>17. QED
  BY <1>2, <1>5, <1>8, <1>10, <1>11, <1>12, <1>13, <1>14, <1>15, <1>16 DEF PackInv

LEMMA PackInit == Init => PackInv
<1> SUFFICES ASSUME Init PROVE PackInv
  OBVIOUS
<1>1. /\ topk \in Routings /\ unplaced = Active /\ phase = "packing"
      /\ waves = [w \in 1 .. MinWaves(Active) |-> {}]
  BY DEF Init
<1>2. \A w \in DOMAIN waves : waves[w] = {} /\ Cardinality(waves[w]) = 0
  BY <1>1, FS_EmptySet
<1>3. waves \in [1 .. MinWaves(Active) -> SUBSET Active]
  BY <1>1
<1>4. WavesAreBalanced
  BY <1>2 DEF WavesAreBalanced
<1>5. \A w \in DOMAIN waves : Cardinality(waves[w]) <= NumSlots
  BY <1>2, SizesType
<1>6. QED
  BY <1>1, <1>2, <1>3, <1>4, <1>5 DEF PackInv

\* After the packing the waves stay as they are.
LEMMA PackFrame ==
    ASSUME PackInv, UNCHANGED <<topk, unplaced, waves>>,
           phase' = phase \/ (unplaced = {} /\ phase' \in {"computing", "combined"})
    PROVE  PackInv'
<1>1. /\ Active' = Active /\ MinWaves(Active') = MinWaves(Active)
      /\ \A e, u : PackedBefore(e, u)' = PackedBefore(e, u)
      /\ WavesAreBalanced' = WavesAreBalanced
  BY DEF Active, MinWaves, PackedBefore, Count, WavesAreBalanced, Load
<1>2. topk' \in Routings
  BY DEF PackInv
<1>3. QED
  BY <1>1, <1>2 DEF PackInv

LEMMA PackNext == PackInv /\ [Next]_vars => PackInv'
<1> SUFFICES ASSUME PackInv, [Next]_vars PROVE PackInv'
  OBVIOUS
<1>1. CASE Place
  BY <1>1, PlaceKeepsPacking
<1>2. CASE PlanPairs
  BY <1>2, PackFrame DEF PlanPairs
<1>3. CASE ComputeWave
  BY <1>3, PackFrame DEF ComputeWave
<1>4. CASE Combine
  BY <1>4, PackFrame DEF Combine, PackInv
<1>5. CASE Accumulate
  BY <1>5, PackFrame DEF Accumulate, PackInv
<1>6. CASE UNCHANGED vars
  BY <1>6, PackFrame DEF vars
<1>7. QED
  BY <1>1, <1>2, <1>3, <1>4, <1>5, <1>6 DEF Next

LEMMA PackInvHolds == Spec => []PackInv
  BY PackInit, PackNext, PTL DEF Spec

\* _pack never has to open a wave for an expert that finds no room: on every
\* run every wave fits the slots, the waves are disjoint, and there are no more
\* of them than needed, for every routing.
THEOREM FitTheorem == Spec => []WavesFitTheSlots
<1>1. PackInv => WavesFitTheSlots
  <2> SUFFICES ASSUME PackInv PROVE WavesFitTheSlots
    OBVIOUS
  <2>1. waves \in [1 .. MinWaves(Active) -> SUBSET Active] /\ MinWaves(Active) \in Nat
    BY RoutingFacts DEF PackInv
  <2>2. waves \in Seq(SUBSET Active) /\ Len(waves) = MinWaves(Active)
    BY <2>1, SeqDef, LenProperties
  <2>3. QED
    BY <2>2 DEF PackInv, WavesFitTheSlots
<1>2. QED
  BY <1>1, PackInvHolds, PTL

\* The greedy packing keeps its bound at every step: a wave is heavier than
\* another one that has room by no more than the lightest of its experts.
THEOREM BalanceTheorem == Spec => []WavesAreBalanced
<1>1. PackInv => WavesAreBalanced
  BY DEF PackInv
<1>2. QED
  BY <1>1, PackInvHolds, PTL

--------------------------------------------------------------------------
(***************************************************************************)
(* The order of the waves.  None of them is empty, so all are staged.      *)
(***************************************************************************)
\* Where an expert has been packed.
Home(e) == CHOOSE w \in DOMAIN waves : e \in waves[w]

LEMMA HomeIsUnique ==
    ASSUME PackInv, unplaced = {}, NEW e \in Active
    PROVE  /\ Home(e) \in DOMAIN waves /\ e \in waves[Home(e)]
           /\ \A w \in DOMAIN waves : e \in waves[w] => w = Home(e)
<1>1. \E w \in DOMAIN waves : e \in waves[w]
  BY DEF PackInv
<1>2. Home(e) \in DOMAIN waves /\ e \in waves[Home(e)]
  BY <1>1 DEF Home
<1>3. QED
  BY <1>2 DEF PackInv

\* With one wave less the experts would not fit.
LEMMA NoWaveIsEmpty ==
    ASSUME PackInv, unplaced = {}
    PROVE  \A w \in DOMAIN waves : waves[w] # {}
<1> SUFFICES ASSUME NEW w \in DOMAIN waves, waves[w] = {} PROVE FALSE
  OBVIOUS
<1> DEFINE M == MinWaves(Active)
           c == Cardinality(Active)
           D == (DOMAIN waves \ {w}) \X (0 .. NumSlots - 1)
           f == [e \in Active |-> <<Home(e), SlotOf(Home(e), e)>>]
<1>1. /\ M \in Nat /\ c \in Nat /\ (M - 1) * NumSlots < c /\ IsFiniteSet(Active)
  BY RoutingFacts DEF PackInv
<1>2. ASSUME NEW e \in Active
      PROVE  /\ Home(e) \in DOMAIN waves \ {w} /\ e \in waves[Home(e)]
             /\ SlotOf(Home(e), e) \in 0 .. NumSlots - 1
             /\ Ascending(waves[Home(e)])[SlotOf(Home(e), e) + 1] = e
  <2>1. Home(e) \in DOMAIN waves /\ e \in waves[Home(e)]
    BY HomeIsUnique
  <2>2. /\ IsFiniteSet(waves[Home(e)]) /\ waves[Home(e)] \subseteq Nat
        /\ Cardinality(waves[Home(e)]) \in 0 .. NumSlots
    BY <2>1, WavesAreFinite
  <2>3. /\ SlotOf(Home(e), e) \in 0 .. Cardinality(waves[Home(e)]) - 1
        /\ Ascending(waves[Home(e)])[SlotOf(Home(e), e) + 1] = e
    BY <2>1, <2>2, AscendingLists DEF SlotOf
  <2>4. QED
    BY <2>1, <2>2, <2>3, SizesType
<1>3. f \in Injection(Active, D)
  <2>1. f \in [Active -> D]
    BY <1>2
  <2>2. ASSUME NEW e \in Active, NEW d \in Active, f[e] = f[d] PROVE e = d
    <3>1. Home(e) = Home(d) /\ SlotOf(Home(e), e) = SlotOf(Home(d), d)
      BY <2>2
    <3>2. QED
      BY <1>2, <3>1
  <2> HIDE DEF f, D
  <2>3. QED
    BY <2>1, <2>2 DEF Injection, IsInjective, f
<1> HIDE DEF f
<1>4. IsFiniteSet(D) /\ Cardinality(D) = (M - 1) * NumSlots
  <2>1. IsFiniteSet(DOMAIN waves) /\ Cardinality(DOMAIN waves) = M
    BY WavesAreFinite
  <2>2. IsFiniteSet(DOMAIN waves \ {w}) /\ Cardinality(DOMAIN waves \ {w}) = M - 1
    BY <2>1, FS_RemoveElement
  <2>3. IsFiniteSet(0 .. NumSlots - 1) /\ Cardinality(0 .. NumSlots - 1) = NumSlots
    BY SizesType, FS_Interval
  <2>4. /\ IsFiniteSet(D)
        /\ Cardinality(D) = Cardinality(DOMAIN waves \ {w}) * Cardinality(0 .. NumSlots - 1)
    BY <2>2, <2>3, FS_Product
  <2> HIDE DEF D
  <2>5. QED
    BY <2>2, <2>3, <2>4
<1> HIDE DEF D
<1>5. c <= Cardinality(D)
  BY <1>3, <1>4, FS_Injection
<1>6. Cardinality(D) \in Nat
  BY <1>4, FS_CardinalityType
<1>7. QED
  BY <1>1, <1>4, <1>5, <1>6

\* Whatever is ready, the waves are issued once each, in the order of computing.
LEMMA OrdersAgree ==
    ASSUME PackInv, unplaced = {}, NEW aware \in BOOLEAN, NEW ready
    PROVE  LET q == ComputeOrder(aware, ready)
           IN  /\ IssueOrder(aware, ready) = q
               /\ q \in Seq(DOMAIN waves) /\ Len(q) = Len(waves)
               /\ {q[i] : i \in DOMAIN q} = DOMAIN waves
<1> DEFINE D == DOMAIN waves
           n == MinWaves(Active)
<1>1. /\ IsFiniteSet(D) /\ D \subseteq Nat /\ Cardinality(D) = n /\ n \in Nat
      /\ Len(waves) = n
  <2>1. waves \in [1 .. n -> SUBSET Active] /\ n \in Nat
    BY RoutingFacts DEF PackInv
  <2>2. waves \in Seq(SUBSET Active)
    BY <2>1, SeqDef
  <2>3. Len(waves) = n
    BY <2>1, <2>2, LenProperties
  <2>4. QED
    BY <2>3, WavesAreFinite
<1>2. Staged = D /\ Hits = {}
  BY NoWaveIsEmpty DEF Staged, Hits
<1>3. ASSUME NEW before, StrictOrder(D, before)
      PROVE  LET q == Sorted(D, before)
             IN  /\ q \in Seq(D) /\ Len(q) = n /\ {q[i] : i \in DOMAIN q} = D
  <2> DEFINE q == Sorted(D, before)
  <2>1. /\ q \in [1 .. n -> D] /\ q \in Seq(D) /\ Len(q) = n
        /\ \A x \in D : Rank(D, before, x) + 1 \in 1 .. n /\ q[Rank(D, before, x) + 1] = x
    BY <1>1, <1>3, SortedIsABijection
  <2> HIDE DEF q
  <2>2. QED
    BY <2>1 DEF q
<1>4. CASE ~aware
  <2>1. StrictOrder(D, NaturalOrder(D))
    BY <1>1 DEF StrictOrder, NaturalOrder
  <2>2. /\ ComputeOrder(aware, ready) = Sorted(D, NaturalOrder(D))
        /\ IssueOrder(aware, ready) = Sorted(D, NaturalOrder(D))
    BY <1>2, <1>4 DEF ComputeOrder, IssueOrder, Ascending, NaturalOrder
  <2>3. QED
    BY <1>1, <1>3, <2>1, <2>2
<1>5. CASE aware
  <2> DEFINE before == {vw \in D \X D : StagedBefore(vw[1], vw[2], ready)}
             q == Sorted(D, before)
  <2>1. \A w \in D : Misses(w, ready) \in Nat /\ WaveSize(w) \in Nat /\ w \in Nat
    <3>1. ASSUME NEW w \in D PROVE Misses(w, ready) \in Nat
      <4>1. IsFiniteSet(waves[w] \ ready)
        BY WavesAreFinite, FS_Difference
      <4>2. QED
        BY <4>1, FS_CardinalityType DEF Misses
    <3>2. QED
      BY <1>1, <3>1, LoadsAdd DEF WaveSize
  <2>2. StrictOrder(D, before)
    <3>1. \A v, w \in D : <<v, w>> \in before <=> StagedBefore(v, w, ready)
      OBVIOUS
    <3> HIDE DEF before
    <3>2. QED
      BY <2>1, <3>1 DEF StrictOrder, StagedBefore, HitBefore
  <2>3. HitOrder = <<>>
    <3>1. Cardinality({}) = 0
      BY FS_EmptySet
    <3>2. QED
      BY <1>2, <3>1 DEF HitOrder, Sorted
  <2>4. IssueOrder(aware, ready) = q
    BY <1>2, <1>5 DEF IssueOrder
  <2> HIDE DEF before
  <2>5. q \in Seq(D) /\ Len(q) = n /\ {q[i] : i \in DOMAIN q} = D
    BY <1>3, <2>2
  <2> HIDE DEF q
  <2>6. <<>> \o q = q
    BY <2>5, ConcatEmptySeq
  <2>7. ComputeOrder(aware, ready) = q
    BY <1>5, <2>3, <2>4, <2>6 DEF ComputeOrder
  <2>8. QED
    BY <1>1, <2>4, <2>5, <2>7
<1>6. QED
  BY <1>4, <1>5

LEMMA ModesType ==
    ASSUME NEW m \in Modes
    PROVE  m.planning \in {"device", "host", "tokens"} /\ m.transferAware \in BOOLEAN
<1>1. CASE m \in [planning : {"device", "host"}, transferAware : BOOLEAN]
  BY <1>1
<1>2. CASE m = [planning |-> "tokens", transferAware |-> FALSE]
  BY <1>2
<1>3. QED
  BY <1>1, <1>2 DEF Modes

StageInv ==
    /\ phase # "packing" => mode \in Modes /\ order \in Seq(DOMAIN waves)
    /\ WavesAreStagedInOrder

LEMMA StageNext == PackInv /\ StageInv /\ [Next]_vars => StageInv'
<1> SUFFICES ASSUME PackInv, StageInv, [Next]_vars PROVE StageInv'
  OBVIOUS
<1>1. CASE Place
  BY <1>1 DEF Place, StageInv, WavesAreStagedInOrder
<1>2. CASE PlanPairs
  <2>1. PICK chosen \in Modes, ready \in SUBSET Active :
          /\ mode' = chosen
          /\ issue' = IssueOrder(chosen.transferAware, ready)
          /\ order' = ComputeOrder(chosen.transferAware, ready)
    BY <1>2 DEF PlanPairs
  <2>2. unplaced = {} /\ waves' = waves
    BY <1>2 DEF PlanPairs
  <2>3. chosen.transferAware \in BOOLEAN
    BY <2>1, ModesType
  <2> DEFINE q == ComputeOrder(chosen.transferAware, ready)
  <2>a. /\ IssueOrder(chosen.transferAware, ready) = q
        /\ q \in Seq(DOMAIN waves) /\ Len(q) = Len(waves)
        /\ {q[i] : i \in DOMAIN q} = DOMAIN waves
    BY <2>2, <2>3, OrdersAgree
  <2> HIDE DEF q
  <2>4. /\ issue' = order' /\ order' \in Seq(DOMAIN waves) /\ Len(order') = Len(waves)
        /\ {order'[i] : i \in DOMAIN order'} = DOMAIN waves
    BY <2>1, <2>a DEF q
  <2>5. QED
    BY <2>1, <2>2, <2>4 DEF StageInv, WavesAreStagedInOrder
<1>3. CASE ComputeWave \/ Combine \/ Accumulate \/ UNCHANGED vars
  BY <1>3 DEF ComputeWave, Combine, Accumulate, vars, planVars, StageInv,
     WavesAreStagedInOrder
<1>4. QED
  BY <1>1, <1>2, <1>3 DEF Next

LEMMA StageInvHolds == Spec => []StageInv
<1>1. Init => StageInv
  BY DEF Init, StageInv, WavesAreStagedInOrder
<1>2. QED
  BY <1>1, StageNext, PackInvHolds, PTL DEF Spec

\* plan_b2_prefill_async_schedule: on every run, for every set of ready experts,
\* each wave is computed once and the order of staging is the order of computing.
THEOREM StagingTheorem == Spec => []WavesAreStagedInOrder
<1>1. StageInv => WavesAreStagedInOrder
  BY DEF StageInv
<1>2. QED
  BY <1>1, StageInvHolds, PTL

--------------------------------------------------------------------------
(***************************************************************************)
(* The pairs of a layer, laid end to end wave by wave.                     *)
(***************************************************************************)
Before(w) == {q \in Pairs : WaveOf(q) < w}

InWave(w) == {q \in Pairs : WaveOf(q) = w}

LEMMA PairsHaveAWave ==
    ASSUME PackInv, unplaced = {}, NEW p \in Pairs
    PROVE  /\ WaveOf(p) \in DOMAIN waves /\ WaveOf(p) \in Nat /\ topk[p] \in waves[WaveOf(p)]
           /\ \A w \in DOMAIN waves : topk[p] \in waves[w] <=> w = WaveOf(p)
<1>1. topk[p] \in Active
  BY RoutingFacts DEF PackInv
<1>2. WaveOf(p) = Home(topk[p])
  BY DEF WaveOf, Home
<1>3. QED
  BY <1>1, <1>2, HomeIsUnique, WavesAreFinite

LEMMA PairSetsAreFinite ==
    ASSUME NEW X, X \subseteq Pairs
    PROVE  IsFiniteSet(X) /\ Cardinality(X) \in Nat
  BY PairsAreFinite, FS_Subset, FS_CardinalityType

\* The cursor at the beginning of a wave has passed the pairs of earlier waves.
LEMMA CursorCounts ==
    ASSUME PackInv, unplaced = {}, NEW w \in DOMAIN waves
    PROVE  /\ WaveSize(w) = Cardinality(InWave(w)) /\ WaveSize(w) \in Nat
           /\ LayerPairStart(w) = Cardinality(Before(w)) /\ LayerPairStart(w) \in Nat
<1>1. WaveSize(w) = Cardinality(InWave(w))
  <2>1. {p \in Pairs : topk[p] \in waves[w]} = InWave(w)
    BY PairsHaveAWave DEF InWave
  <2>2. QED
    BY <2>1 DEF WaveSize, Load
<1>2. LayerPairStart(w) = Cardinality(Before(w))
  <2> DEFINE T == {vp \in (1 .. w - 1) \X Pairs : topk[vp[2]] \in waves[vp[1]]}
             B == Before(w)
             f == [q \in B |-> <<WaveOf(q), q>>]
  <2>1. DOMAIN waves = 1 .. MinWaves(Active) /\ MinWaves(Active) \in Nat
    BY WavesAreFinite
  <2>2. ASSUME NEW q \in B PROVE <<WaveOf(q), q>> \in T
    BY <2>1, <2>2, PairsHaveAWave DEF Before
  <2>3. ASSUME NEW t \in T PROVE \E q \in B : <<WaveOf(q), q>> = t
    <3>1. t[1] \in 1 .. w - 1 /\ t[2] \in Pairs /\ t = <<t[1], t[2]>> /\ topk[t[2]] \in waves[t[1]]
      OBVIOUS
    <3>2. t[1] \in DOMAIN waves /\ t[1] < w
      BY <2>1, <3>1
    <3> HIDE DEF T
    <3>3. WaveOf(t[2]) = t[1]
      BY <3>1, <3>2, PairsHaveAWave
    <3>4. t[2] \in B
      BY <3>1, <3>2, <3>3 DEF Before
    <3>5. QED
      BY <3>1, <3>3, <3>4
  <2> HIDE DEF T, B
  <2>4. f \in Bijection(B, T)
    <3>1. f \in [B -> T]
      BY <2>2
    <3>2. \A q, r \in B : f[q] = f[r] => q = r
      OBVIOUS
    <3>3. \A t \in T : \E q \in B : f[q] = t
      BY <2>3
    <3> HIDE DEF f
    <3>4. QED
      BY <3>1, <3>2, <3>3 DEF Bijection, Injection, IsInjective, Surjection
  <2>5. ExistsBijection(B, T)
    BY <2>4 DEF ExistsBijection
  <2>6. IsFiniteSet(B)
    BY PairSetsAreFinite DEF B, Before
  <2>7. Cardinality(T) = Cardinality(B)
    BY <2>5, <2>6, FS_Bijection
  <2>8. QED
    BY <2>7 DEF T, B, LayerPairStart
<1>3. Cardinality(InWave(w)) \in Nat /\ Cardinality(Before(w)) \in Nat
  BY PairSetsAreFinite DEF InWave, Before
<1>4. QED
  BY <1>1, <1>2, <1>3

\* A wave's cut ends before the cut of a later wave begins, and within the pairs.
LEMMA CutsAreDisjoint ==
    ASSUME PackInv, unplaced = {}, NEW w \in DOMAIN waves
    PROVE  /\ LayerPairStart(w) + WaveSize(w) <= Cardinality(Pairs)
           /\ \A v \in DOMAIN waves :
                w < v => LayerPairStart(w) + WaveSize(w) <= LayerPairStart(v)
<1> DEFINE X == Before(w) \cup InWave(w)
<1>1. /\ LayerPairStart(w) = Cardinality(Before(w)) /\ WaveSize(w) = Cardinality(InWave(w))
      /\ IsFiniteSet(Before(w)) /\ IsFiniteSet(InWave(w))
      /\ Cardinality(Before(w)) \in Nat /\ Cardinality(InWave(w)) \in Nat
  BY CursorCounts, PairSetsAreFinite DEF Before, InWave
<1>2. \A q \in Pairs : WaveOf(q) \in Nat
  BY PairsHaveAWave
<1>3. w \in Nat /\ DOMAIN waves \subseteq Nat
  BY WavesAreFinite
<1>4. Before(w) \cap InWave(w) = {}
  BY <1>2, <1>3 DEF Before, InWave
<1>5. Cardinality(X) = Cardinality(Before(w)) + Cardinality(InWave(w))
  <2>1. Cardinality(Before(w) \cap InWave(w)) = 0
    BY <1>4, FS_EmptySet
  <2>2. Cardinality(X) = Cardinality(Before(w)) + Cardinality(InWave(w))
                         - Cardinality(Before(w) \cap InWave(w))
    BY <1>1, FS_Union
  <2> HIDE DEF X
  <2>3. QED
    BY <1>1, <2>1, <2>2
<1>6. X \in SUBSET Pairs
  BY DEF Before, InWave
<1>7. Cardinality(X) <= Cardinality(Pairs)
  BY <1>6, PairsAreFinite, FS_Subset
<1>8. ASSUME NEW v \in DOMAIN waves, w < v PROVE Cardinality(X) <= LayerPairStart(v)
  <2>1. X \in SUBSET Before(v)
    BY <1>2, <1>3, <1>8 DEF Before, InWave
  <2>2. IsFiniteSet(Before(v)) /\ LayerPairStart(v) = Cardinality(Before(v))
    BY CursorCounts, PairSetsAreFinite DEF Before
  <2> HIDE DEF X
  <2>3. QED
    BY <2>1, <2>2, FS_Subset
<1>9. QED
  BY <1>1, <1>5, <1>7, <1>8

LEMMA PlannedBeforeIsAnOrder ==
    ASSUME PackInv, unplaced = {}, NEW planning
    PROVE  StrictOrder(Pairs, PlannedBefore(planning))
<1>1. \A p \in Pairs : p \in Nat /\ topk[p] \in Nat /\ WaveOf(p) \in Nat
  BY PairsHaveAWave, PairsAreFinite, RoutingFacts DEF PackInv
<1>2. \A q, p \in Pairs : FirstInWave(planning, q, p) <=>
          IF planning = "host" THEN topk[q] < topk[p] \/ (topk[q] = topk[p] /\ q < p)
          ELSE q < p
  BY DEF FirstInWave, FromTheIndex, PairOffsets
<1>3. \A q, p \in Pairs : <<q, p>> \in PlannedBefore(planning) <=>
          \/ WaveOf(q) < WaveOf(p)
          \/ WaveOf(q) = WaveOf(p) /\ FirstInWave(planning, q, p)
  BY DEF PlannedBefore
<1>4. CASE planning = "host"
  BY <1>1, <1>2, <1>3, <1>4 DEF StrictOrder
<1>5. CASE planning # "host"
  BY <1>1, <1>2, <1>3, <1>5 DEF StrictOrder
<1>6. QED
  BY <1>4, <1>5

\* The position of a pair lies in the cut of its wave.
LEMMA PositionInCut ==
    ASSUME PackInv, unplaced = {}, NEW planning, NEW p \in Pairs
    PROVE  LET r == Rank(Pairs, PlannedBefore(planning), p)
               w == WaveOf(p)
           IN  LayerPairStart(w) <= r /\ r < LayerPairStart(w) + WaveSize(w)
<1> DEFINE w == WaveOf(p)
           r == Rank(Pairs, PlannedBefore(planning), p)
           X == {q \in Pairs : <<q, p>> \in PlannedBefore(planning)}
           Y == {q \in InWave(w) : FirstInWave(planning, q, p)}
<1>1. w \in DOMAIN waves /\ \A q \in Pairs : WaveOf(q) \in Nat
  BY PairsHaveAWave
<1>2. /\ IsFiniteSet(Before(w)) /\ IsFiniteSet(InWave(w)) /\ IsFiniteSet(Y)
      /\ Cardinality(Before(w)) \in Nat /\ Cardinality(InWave(w)) \in Nat
      /\ Cardinality(Y) \in Nat
  BY PairSetsAreFinite DEF Before, InWave
<1>3. X = Before(w) \cup Y /\ Before(w) \cap Y = {}
  BY <1>1 DEF PlannedBefore, Before, InWave
<1>4. p \in InWave(w) /\ p \notin Y
  <2>1. ~FirstInWave(planning, p, p)
    BY PairsAreFinite, RoutingFacts DEF FirstInWave, FromTheIndex, PackInv
  <2>2. QED
    BY <2>1 DEF InWave
<1>5. Y \in SUBSET InWave(w)
  OBVIOUS
<1> HIDE DEF X, Y, w
<1>6. Cardinality(X) = Cardinality(Before(w)) + Cardinality(Y)
  <2>1. Cardinality(Before(w) \cap Y) = 0
    BY <1>3, FS_EmptySet
  <2>2. Cardinality(Before(w) \cup Y) = Cardinality(Before(w)) + Cardinality(Y)
                                         - Cardinality(Before(w) \cap Y)
    BY <1>2, FS_Union
  <2>3. QED
    BY <1>2, <1>3, <2>1, <2>2
<1>7. Cardinality(Y) < Cardinality(InWave(w))
  <2>1. Cardinality(Y) <= Cardinality(InWave(w)) /\ Cardinality(Y) # Cardinality(InWave(w))
    BY <1>2, <1>4, <1>5, FS_Subset
  <2>2. QED
    BY <1>2, <2>1
<1>8. /\ LayerPairStart(w) = Cardinality(Before(w)) /\ WaveSize(w) = Cardinality(InWave(w))
  BY <1>1, CursorCounts
<1>9. r = Cardinality(X)
  BY DEF Rank, X
<1>10. QED
  BY <1>2, <1>6, <1>7, <1>8, <1>9 DEF w

\* A list that holds every element of a set once.
Lists(q, S) ==
    /\ q \in Seq(S)
    /\ \A i, j \in DOMAIN q : q[i] = q[j] => i = j
    /\ \A x \in S : \E i \in DOMAIN q : q[i] = x

\* What is cut out between two cursors is the list of the pairs of the wave.
LEMMA CutsListTheWaves ==
    ASSUME PackInv, unplaced = {}, NEW planning, NEW w \in DOMAIN waves
    PROVE  Lists(Cut(AllOffsets(planning), w), InWave(w))
<1> DEFINE R == PlannedBefore(planning)
           off == AllOffsets(planning)
           n == Cardinality(Pairs)
           s == LayerPairStart(w)
           z == WaveSize(w)
           q == Cut(off, w)
<1>1. /\ n \in Nat /\ off \in [1 .. n -> Pairs]
      /\ \A i \in 1 .. n : Rank(Pairs, R, off[i]) = i - 1
      /\ \A p \in Pairs : /\ Rank(Pairs, R, p) \in 0 .. n - 1
                          /\ Rank(Pairs, R, p) + 1 \in 1 .. n
                          /\ off[Rank(Pairs, R, p) + 1] = p
  BY PairsAreFinite, PlannedBeforeIsAnOrder, SortedIsABijection, RankIsABijection DEF AllOffsets
<1>2. s \in Nat /\ z \in Nat /\ s + z <= n
  BY CursorCounts, CutsAreDisjoint
<1>3. ASSUME NEW i \in s + 1 .. s + z PROVE i \in 1 .. n /\ off[i] \in InWave(w)
  <2> DEFINE v == WaveOf(off[i])
  <2>1. i \in 1 .. n /\ i - 1 >= s /\ i - 1 < s + z
    BY <1>1, <1>2, <1>3
  <2>2. off[i] \in Pairs /\ Rank(Pairs, R, off[i]) = i - 1
    BY <1>1, <2>1
  <2>3. LayerPairStart(v) <= i - 1 /\ i - 1 < LayerPairStart(v) + WaveSize(v)
    BY <2>2, PositionInCut
  <2>4. v \in DOMAIN waves /\ v \in Nat /\ w \in Nat
    BY <2>2, PairsHaveAWave, WavesAreFinite
  <2> HIDE DEF v
  <2>5. LayerPairStart(v) \in Nat /\ WaveSize(v) \in Nat
    BY <2>4, CursorCounts
  <2>6. ~(v < w) /\ ~(w < v)
    BY <1>2, <2>1, <2>3, <2>4, <2>5, CutsAreDisjoint
  <2>7. v = w
    BY <2>4, <2>6
  <2>8. QED
    BY <2>1, <2>2, <2>7 DEF v, InWave
<1> HIDE DEF off, s, z, R
<1>4. /\ q \in Seq(InWave(w)) /\ Len(q) = z
      /\ \A i \in 1 .. z : q[i] = off[s + i]
  <2>1. s + 1 \in Int /\ s + z \in Int /\ (s + z) - (s + 1) + 1 = z
        /\ \A i \in 1 .. z : (s + 1) + i - 1 = s + i
    BY <1>2
  <2>2. q = SubSeq(off, s + 1, s + z)
    BY DEF Cut, s, z
  <2> HIDE DEF q
  <2>3. /\ SubSeq(off, s + 1, s + z) \in Seq(InWave(w))
        /\ Len(SubSeq(off, s + 1, s + z)) =
             IF s + 1 <= s + z THEN (s + z) - (s + 1) + 1 ELSE 0
        /\ \A i \in 1 .. (s + z) - (s + 1) + 1 :
              SubSeq(off, s + 1, s + z)[i] = off[(s + 1) + i - 1]
    BY <1>3, <2>1, SubSeqProperties
  <2>4. QED
    BY <1>2, <2>1, <2>2, <2>3
<1> HIDE DEF q
<1>5. DOMAIN q = 1 .. z
  BY <1>4, LenProperties
<1>6. ASSUME NEW i \in DOMAIN q, NEW j \in DOMAIN q, q[i] = q[j] PROVE i = j
  <2>1. /\ i \in 1 .. z /\ j \in 1 .. z /\ s + i \in 1 .. n /\ s + j \in 1 .. n
        /\ off[s + i] = off[s + j]
    BY <1>1, <1>2, <1>4, <1>5, <1>6
  <2> DEFINE k == s + i
             l == s + j
  <2>2. k \in 1 .. n /\ l \in 1 .. n /\ off[k] = off[l]
    BY <2>1
  <2> HIDE DEF k, l
  <2>3. k = l
    BY <1>1, <2>2
  <2>4. s + i = s + j
    BY <2>3 DEF k, l
  <2>5. QED
    BY <1>2, <2>1, <2>4
<1>7. ASSUME NEW p \in InWave(w) PROVE \E i \in DOMAIN q : q[i] = p
  <2> DEFINE r == Rank(Pairs, R, p)
  <2>1. p \in Pairs /\ WaveOf(p) = w
    BY <1>7 DEF InWave
  <2>2. s <= r /\ r < s + z
    BY <2>1, PositionInCut DEF s, z, R
  <2>3. r \in 0 .. n - 1 /\ off[r + 1] = p
    BY <1>1, <2>1
  <2> HIDE DEF r
  <2>4. r + 1 - s \in 1 .. z /\ s + (r + 1 - s) = r + 1
    BY <1>1, <1>2, <2>2, <2>3
  <2>5. QED
    BY <1>4, <1>5, <2>3, <2>4
<1>8. Lists(q, InWave(w))
  BY <1>4, <1>6, <1>7 DEF Lists
<1>9. QED
  BY <1>8 DEF q, off

(***************************************************************************)
(* The plan, from the step that makes it: the list of a wave's pairs, for  *)
(* every wave.                                                             *)
(***************************************************************************)
PlannedInv ==
    /\ phase = "packing" => mode = Unplanned
    /\ phase # "packing" => mode \in Modes
    /\ phase = "packing" \/ mode.planning = "tokens" => planned = <<>>
    /\ phase # "packing" /\ mode.planning # "tokens" =>
         /\ DOMAIN planned = DOMAIN waves /\ planned = [w \in DOMAIN planned |-> planned[w]]
         /\ \A w \in DOMAIN waves : Lists(planned[w], InWave(w))

LEMMA PlannedNext == PackInv /\ PlannedInv /\ [Next]_vars => PlannedInv'
<1> SUFFICES ASSUME PackInv, PlannedInv, [Next]_vars PROVE PlannedInv'
  OBVIOUS
<1>1. CASE Place
  BY <1>1 DEF Place, PlannedInv, planVars
<1>2. CASE PlanPairs
  <2>1. PICK chosen \in Modes :
          /\ mode' = chosen
          /\ planned' = IF chosen.planning = "tokens" THEN <<>>
                        ELSE LET offsets == AllOffsets(chosen.planning)
                             IN  [w \in DOMAIN waves |-> Cut(offsets, w)]
    BY <1>2 DEF PlanPairs
  <2>2. unplaced = {} /\ UNCHANGED <<topk, waves>> /\ phase' = "computing"
    BY <1>2 DEF PlanPairs
  <2>3. \A w : InWave(w)' = InWave(w)
    BY <2>2 DEF InWave, WaveOf
  <2>4. CASE chosen.planning = "tokens"
    BY <2>1, <2>2, <2>4 DEF PlannedInv
  <2>5. CASE chosen.planning # "tokens"
    <3>1. planned' = [w \in DOMAIN waves |-> Cut(AllOffsets(chosen.planning), w)]
      BY <2>1, <2>5
    <3>2. \A w \in DOMAIN waves : Lists(planned'[w], InWave(w))
      BY <2>2, <3>1, CutsListTheWaves
    <3>3. QED
      BY <2>1, <2>2, <2>3, <2>5, <3>1, <3>2 DEF PlannedInv
  <2>6. QED
    BY <2>4, <2>5
<1>3. CASE ComputeWave \/ Combine \/ Accumulate \/ UNCHANGED vars
  <2>1. UNCHANGED <<topk, waves, mode, planned>>
        /\ (phase' = phase \/ (phase # "packing" /\ phase' # "packing"))
    BY <1>3 DEF ComputeWave, Combine, Accumulate, vars, planVars
  <2>2. \A w : InWave(w)' = InWave(w)
    BY <2>1 DEF InWave, WaveOf
  <2>3. QED
    BY <2>1, <2>2 DEF PlannedInv
<1>4. QED
  BY <1>1, <1>2, <1>3 DEF Next

LEMMA PlannedInvHolds == Spec => []PlannedInv
<1>1. Init => PlannedInv
  BY DEF Init, PlannedInv
<1>2. QED
  BY <1>1, PlannedNext, PackInvHolds, PTL DEF Spec

\* The cuts of the pair index: every routed pair is planned in one wave, once,
\* and in the wave that holds its expert, for every routing and both orders.
THEOREM PlannedOnceTheorem == Spec => []PairsArePlannedOnce
<1>1. PackInv /\ PlannedInv => PairsArePlannedOnce
  <2> SUFFICES ASSUME PackInv, PlannedInv, phase # "packing", mode.planning # "tokens",
                      NEW p \in Pairs
               PROVE  \E w \in DOMAIN planned : \E i \in DOMAIN planned[w] :
                        /\ planned[w][i] = p /\ topk[p] \in waves[w]
                        /\ \A v \in DOMAIN planned : \A j \in DOMAIN planned[v] :
                              planned[v][j] = p => v = w /\ j = i
    BY DEF PairsArePlannedOnce
  <2> DEFINE w == WaveOf(p)
  <2>1. unplaced = {}
    BY DEF PackInv
  <2>2. w \in DOMAIN waves /\ topk[p] \in waves[w] /\ p \in InWave(w)
    BY <2>1, PairsHaveAWave DEF InWave
  <2>3. DOMAIN planned = DOMAIN waves /\ \A v \in DOMAIN waves : Lists(planned[v], InWave(v))
    BY DEF PlannedInv
  <2>4. PICK i \in DOMAIN planned[w] : planned[w][i] = p
    BY <2>2, <2>3 DEF Lists
  <2>5. ASSUME NEW v \in DOMAIN planned, NEW j \in DOMAIN planned[v], planned[v][j] = p
        PROVE  v = w /\ j = i
    <3>1. planned[v] \in Seq(InWave(v))
      BY <2>3 DEF Lists
    <3>2. p \in InWave(v)
      BY <2>5, <3>1, ElementOfSeq, LenProperties
    <3>3. v = w
      BY <3>2 DEF InWave
    <3>4. QED
      BY <2>2, <2>3, <2>4, <2>5, <3>3 DEF Lists
  <2>6. QED
    BY <2>2, <2>3, <2>4, <2>5
<1>2. QED
  BY <1>1, PackInvHolds, PlannedInvHolds, PTL

--------------------------------------------------------------------------
(***************************************************************************)
(* One wave: its rows, and the row that belongs to each of its pairs.      *)
(***************************************************************************)
\* The dispatcher's slot leads back to the expert.
LEMMA SlotsLeadBack ==
    ASSUME PackInv, NEW w \in DOMAIN waves, NEW e \in waves[w]
    PROVE  ExpertIn(w, SlotOf(w, e)) = e /\ SlotOf(w, e) \in Nat
<1>1. waves[w] \subseteq Nat /\ IsFiniteSet(waves[w])
  BY WavesAreFinite
<1>2. LET r == Cardinality({y \in waves[w] : y < e})
      IN  /\ r \in 0 .. Cardinality(waves[w]) - 1
          /\ Ascending(waves[w])[r + 1] = e
  BY <1>1, AscendingLists
<1>3. Cardinality(waves[w]) \in Nat
  BY <1>1, FS_CardinalityType
<1>4. QED
  BY <1>2, <1>3 DEF ExpertIn, SlotOf

\* A list of a finite set is as long as the set is large.
LEMMA ListLength ==
    ASSUME NEW S, IsFiniteSet(S), NEW q, Lists(q, S)
    PROVE  /\ Len(q) = Cardinality(S) /\ Len(q) \in Nat /\ DOMAIN q = 1 .. Len(q)
           /\ \A i \in DOMAIN q : q[i] \in S
<1>1. Len(q) \in Nat /\ q \in [1 .. Len(q) -> S] /\ DOMAIN q = 1 .. Len(q)
  BY LenProperties DEF Lists
<1>2. q \in Bijection(1 .. Len(q), S)
  BY <1>1 DEF Lists, Bijection, Injection, IsInjective, Surjection
<1>3. ExistsBijection(1 .. Len(q), S)
  BY <1>2 DEF ExistsBijection
<1>4. IsFiniteSet(1 .. Len(q)) /\ Cardinality(1 .. Len(q)) = Len(q)
  BY <1>1, FS_Interval
<1>5. Cardinality(S) = Cardinality(1 .. Len(q))
  BY <1>3, <1>4, FS_Bijection
<1>6. QED
  BY <1>1, <1>4, <1>5

\* What the invariants say of the plan of one wave.
LEMMA PlansOfWaves ==
    ASSUME PackInv, PlannedInv, phase # "packing", mode.planning # "tokens",
           NEW w \in DOMAIN waves
    PROVE  /\ unplaced = {} /\ w \in DOMAIN planned
           /\ Lists(planned[w], InWave(w))
           /\ Len(planned[w]) = WaveSize(w) /\ Len(planned[w]) \in Nat
           /\ DOMAIN planned[w] = 1 .. Len(planned[w])
           /\ \A i \in DOMAIN planned[w] :
                /\ planned[w][i] \in Pairs /\ WaveOf(planned[w][i]) = w
                /\ topk[planned[w][i]] \in waves[w]
<1>1. unplaced = {}
  BY DEF PackInv
<1>2. w \in DOMAIN planned /\ Lists(planned[w], InWave(w))
  BY DEF PlannedInv
<1>3. IsFiniteSet(InWave(w))
  BY PairSetsAreFinite DEF InWave
<1>4. /\ Len(planned[w]) = Cardinality(InWave(w)) /\ Len(planned[w]) \in Nat
      /\ DOMAIN planned[w] = 1 .. Len(planned[w])
      /\ \A i \in DOMAIN planned[w] : planned[w][i] \in InWave(w)
  BY <1>2, <1>3, ListLength
<1>5. WaveSize(w) = Cardinality(InWave(w))
  BY <1>1, CursorCounts
<1>6. QED
  BY <1>1, <1>2, <1>4, <1>5, PairsHaveAWave DEF InWave

\* npu_moe_init_routing permutes the rows of a wave.
LEMMA RowsArePermuted ==
    ASSUME PackInv, PlannedInv, phase # "packing", mode.planning # "tokens",
           NEW w \in DOMAIN waves
    PROVE  LET D == DOMAIN planned[w]
           IN  /\ \A i \in D : ExpandedRow(w, i) \in 0 .. Len(planned[w]) - 1
               /\ \A i, j \in D : ExpandedRow(w, i) = ExpandedRow(w, j) => i = j
               /\ \A k \in 0 .. Len(planned[w]) - 1 : \E i \in D : ExpandedRow(w, i) = k
<1> DEFINE D == DOMAIN planned[w]
           Slot(j) == SlotOf(w, topk[planned[w][j]])
           R == {ji \in D \X D : \/ Slot(ji[1]) < Slot(ji[2])
                                 \/ Slot(ji[1]) = Slot(ji[2]) /\ ji[1] < ji[2]}
<1>1. Len(planned[w]) \in Nat /\ D = 1 .. Len(planned[w])
  BY PlansOfWaves
<1>2. IsFiniteSet(D) /\ Cardinality(D) = Len(planned[w])
  BY <1>1, FS_Interval
<1>3. \A j \in D : Slot(j) \in Nat /\ j \in Nat
  BY <1>1, PlansOfWaves, SlotsLeadBack
<1>4. \A i, j \in D : <<j, i>> \in R <=> Slot(j) < Slot(i) \/ (Slot(j) = Slot(i) /\ j < i)
  OBVIOUS
<1> HIDE DEF D, Slot, R
<1>5. StrictOrder(D, R)
  BY <1>3, <1>4 DEF StrictOrder
<1>6. ASSUME NEW i \in D PROVE ExpandedRow(w, i) = Rank(D, R, i)
  <2>1. ExpandedRow(w, i) = Cardinality({j \in D : Slot(j) < Slot(i)
                                                   \/ (Slot(j) = Slot(i) /\ j < i)})
    BY DEF ExpandedRow, D, Slot
  <2>2. {j \in D : Slot(j) < Slot(i) \/ (Slot(j) = Slot(i) /\ j < i)}
          = {j \in D : <<j, i>> \in R}
    BY <1>4
  <2>3. QED
    BY <2>1, <2>2 DEF Rank
<1>7. /\ \A i \in D : Rank(D, R, i) \in 0 .. Cardinality(D) - 1
      /\ \A i, j \in D : Rank(D, R, i) = Rank(D, R, j) => i = j
      /\ \A k \in 0 .. Cardinality(D) - 1 : \E i \in D : Rank(D, R, i) = k
  BY <1>2, <1>5, RankIsABijection
<1>8. QED
  BY <1>2, <1>6, <1>7 DEF D

\* expanded_row_idx leads from a pair to the row that is its expert's work on
\* its token.
LEMMA PayloadRows ==
    ASSUME PackInv, PlannedInv, phase # "packing", mode.planning # "tokens",
           NEW w \in DOMAIN waves
    PROVE  /\ Payload(w).wave = w
           /\ DOMAIN Payload(w).permuted = 1 .. WaveSize(w)
           /\ Len(Payload(w).permuted) = WaveSize(w)
           /\ \A i \in DOMAIN planned[w] :
                /\ Payload(w).expanded[i] = ExpandedRow(w, i)
                /\ ExpandedRow(w, i) \in 0 .. WaveSize(w) - 1
                /\ Payload(w).permuted[ExpandedRow(w, i) + 1]
                     = <<TokenOf(planned[w][i]), topk[planned[w][i]]>>
<1> DEFINE D == DOMAIN planned[w]
           m == Len(planned[w])
           Back(r) == CHOOSE j \in D : ExpandedRow(w, j) = r - 1
           Row(r) == LET i == Back(r)
                         pair == planned[w][i]
                     IN  <<TokenIndex(pair), ExpertIn(w, SlotOf(w, topk[pair]))>>
           rows == [r \in 1 .. m |-> Row(r)]
<1>1. Payload(w).wave = w /\ Payload(w).permuted = rows
      /\ Payload(w).expanded = [i \in D |-> ExpandedRow(w, i)]
  BY DEF Payload
<1>2. m = WaveSize(w) /\ m \in Nat /\ D = 1 .. m
  BY PlansOfWaves
<1>3. DOMAIN rows = 1 .. m
  OBVIOUS
<1>4. Len(rows) = m
  <2> DEFINE T == {Row(r) : r \in 1 .. m}
  <2>1. rows \in [1 .. m -> T]
    OBVIOUS
  <2> HIDE DEF rows, T
  <2>2. rows \in Seq(T)
    BY <1>2, <2>1, SeqDef
  <2>3. DOMAIN rows = 1 .. Len(rows) /\ Len(rows) \in Nat
    BY <2>2, LenProperties
  <2>4. QED
    BY <1>2, <2>1, <2>3
<1>5. ASSUME NEW i \in D
      PROVE  /\ ExpandedRow(w, i) \in 0 .. m - 1
             /\ rows[ExpandedRow(w, i) + 1] = <<TokenOf(planned[w][i]), topk[planned[w][i]]>>
  <2> DEFINE k == ExpandedRow(w, i)
             pair == planned[w][i]
  <2>1. k \in 0 .. m - 1 /\ \A j \in D : ExpandedRow(w, j) = k => j = i
    BY RowsArePermuted
  <2>2. k + 1 \in 1 .. m /\ (k + 1) - 1 = k
    BY <1>2, <2>1
  <2>3. Back(k + 1) = i
    <3>1. Back(k + 1) = CHOOSE j \in D : ExpandedRow(w, j) = k
      BY <2>2
    <3> HIDE DEF Back
    <3>2. QED
      BY <2>1, <3>1
  <2>4. rows[k + 1] = Row(k + 1)
    BY <2>2
  <2> HIDE DEF Back, rows, k
  <2>5. Row(k + 1) = <<TokenIndex(pair), ExpertIn(w, SlotOf(w, topk[pair]))>>
    BY <2>3
  <2>6. ExpertIn(w, SlotOf(w, topk[pair])) = topk[pair]
    BY <1>5, PlansOfWaves, SlotsLeadBack
  <2>7. rows[k + 1] = <<TokenOf(pair), topk[pair]>>
    BY <2>4, <2>5, <2>6 DEF TokenIndex
  <2>8. QED
    BY <2>1, <2>7 DEF k
<1> HIDE DEF rows
<1>6. QED
  BY <1>1, <1>2, <1>3, <1>4, <1>5

--------------------------------------------------------------------------
(***************************************************************************)
(* The payloads of the waves computed so far, and what is combined.        *)
(***************************************************************************)
WavePayload(w) == IF mode.planning = "tokens" THEN ReferencePayload(w) ELSE Payload(w)

PayloadsInv ==
    /\ phase = "packing" => payloads = {}
    /\ \A payload \in payloads :
         payload.wave \in DOMAIN waves /\ payload = WavePayload(payload.wave)

\* There is a wave to compute for as long as one is missing.
LEMMA NextWave ==
    ASSUME PackInv, StageInv, PayloadsInv, phase # "packing", Computed # DOMAIN waves
    PROVE  order[Cardinality(Computed) + 1] \in DOMAIN waves
<1>1. Computed \in SUBSET (DOMAIN waves)
  BY DEF Computed, PayloadsInv
<1>2. IsFiniteSet(DOMAIN waves) /\ Cardinality(DOMAIN waves) = MinWaves(Active)
      /\ MinWaves(Active) \in Nat /\ Len(waves) = MinWaves(Active)
  <2>1. /\ IsFiniteSet(DOMAIN waves) /\ Cardinality(DOMAIN waves) = MinWaves(Active)
        /\ MinWaves(Active) \in Nat
    BY WavesAreFinite
  <2>2. waves \in Seq(SUBSET Active)
    BY <2>1, SeqDef DEF PackInv
  <2>3. DOMAIN waves = 1 .. Len(waves) /\ Len(waves) \in Nat
    BY <2>2, LenProperties
  <2>4. QED
    BY <2>1, <2>3, WavesAreFinite
<1>3. /\ Cardinality(Computed) <= Cardinality(DOMAIN waves)
      /\ Cardinality(Computed) # Cardinality(DOMAIN waves)
      /\ IsFiniteSet(Computed)
  BY <1>1, <1>2, FS_Subset
<1>4. Cardinality(Computed) \in Nat
  BY <1>3, FS_CardinalityType
<1>5. order \in Seq(DOMAIN waves) /\ Len(order) = Len(waves)
  BY DEF StageInv, WavesAreStagedInOrder
<1>6. Cardinality(Computed) + 1 \in 1 .. Len(order)
  BY <1>2, <1>3, <1>4, <1>5
<1>7. QED
  BY <1>5, <1>6, ElementOfSeq

LEMMA PayloadFrame ==
    ASSUME UNCHANGED <<topk, waves, mode, planned>>
    PROVE  \A w : WavePayload(w)' = WavePayload(w)
  BY DEF WavePayload, ReferencePayload, Payload, Kept, SafeId, SlotOf, ExpertIn, ExpandedRow

LEMMA PayloadsNext ==
    PackInv /\ StageInv /\ PayloadsInv /\ [Next]_vars => PayloadsInv'
<1> SUFFICES ASSUME PackInv, StageInv, PayloadsInv, [Next]_vars PROVE PayloadsInv'
  OBVIOUS
<1>1. CASE Place
  BY <1>1 DEF Place, PayloadsInv
<1>2. CASE PlanPairs
  BY <1>2 DEF PlanPairs, PayloadsInv
<1>3. CASE ComputeWave
  <2> DEFINE w == order[Cardinality(Computed) + 1]
  <2>1. /\ payloads' = payloads \cup {WavePayload(w)} /\ phase' = phase
        /\ UNCHANGED <<topk, waves, mode, planned>> /\ phase = "computing"
        /\ Computed # DOMAIN waves
    BY <1>3 DEF ComputeWave, planVars, WavePayload
  <2>2. w \in DOMAIN waves
    BY <2>1, NextWave
  <2> HIDE DEF w
  <2>3. \A v : WavePayload(v)' = WavePayload(v)
    BY <2>1, PayloadFrame
  <2>4. WavePayload(w).wave = w
    BY DEF WavePayload, ReferencePayload, Payload
  <2>5. QED
    BY <2>1, <2>2, <2>3, <2>4 DEF PayloadsInv
<1>4. CASE Combine \/ Accumulate \/ UNCHANGED vars
  <2>1. /\ UNCHANGED <<topk, waves, mode, planned, payloads>>
        /\ (phase' = phase \/ phase' = "combined")
    BY <1>4 DEF Combine, Accumulate, planVars, vars
  <2>2. \A v : WavePayload(v)' = WavePayload(v)
    BY <2>1, PayloadFrame
  <2>3. QED
    BY <2>1, <2>2 DEF PayloadsInv
<1>5. QED
  BY <1>1, <1>2, <1>3, <1>4 DEF Next

LEMMA PayloadsInvHolds == Spec => []PayloadsInv
<1>1. Init => PayloadsInv
  BY DEF Init, PayloadsInv
<1>2. QED
  BY <1>1, PayloadsNext, PackInvHolds, StageInvHolds, PTL DEF Spec

\* When all waves are computed there is one payload of each.
LEMMA PayloadsOfWaves ==
    ASSUME PayloadsInv, Computed = DOMAIN waves
    PROVE  /\ \A w \in DOMAIN waves : PayloadOf(w) = WavePayload(w)
           /\ payloads = {WavePayload(w) : w \in DOMAIN waves}
           /\ \A w : WavePayload(w).wave = w
<1>1. \A w : WavePayload(w).wave = w
  BY DEF WavePayload, ReferencePayload, Payload
<1>2. ASSUME NEW w \in DOMAIN waves
      PROVE  PayloadOf(w) = WavePayload(w) /\ WavePayload(w) \in payloads
  <2>1. PICK payload \in payloads : payload.wave = w
    BY DEF Computed
  <2>2. PayloadOf(w) \in payloads /\ PayloadOf(w).wave = w
    BY <2>1 DEF PayloadOf
  <2>3. QED
    BY <2>1, <2>2 DEF PayloadsInv
<1>3. \A payload \in payloads : \E w \in DOMAIN waves : payload = WavePayload(w)
  BY DEF PayloadsInv
<1>4. QED
  BY <1>1, <1>2, <1>3

(***************************************************************************)
(* The native combine.  The rows of the waves before w are as many as the  *)
(* pairs before w, so that the rows of every wave begin at its cursor.     *)
(***************************************************************************)
LEMMA RowsAreTheCursor ==
    ASSUME PackInv, PlannedInv, phase # "packing", mode.planning # "tokens",
           \A v \in DOMAIN waves : PayloadOf(v) = Payload(v), NEW w \in DOMAIN waves
    PROVE  RowsBefore(w) = LayerPairStart(w)
<1> DEFINE T == UNION {{v} \X DOMAIN PayloadOf(v).permuted : v \in 1 .. w - 1}
           B == Before(w)
           f == [t \in T |-> planned[t[1]][t[2]]]
<1>1. DOMAIN waves = 1 .. MinWaves(Active) /\ MinWaves(Active) \in Nat /\ w \in Nat
  BY WavesAreFinite
<1>2. \A v \in 1 .. w - 1 : v \in DOMAIN waves /\ v < w
  BY <1>1
<1>3. \A v \in 1 .. w - 1 : DOMAIN PayloadOf(v).permuted = DOMAIN planned[v]
  <2>1. ASSUME NEW v \in 1 .. w - 1
        PROVE  DOMAIN PayloadOf(v).permuted = DOMAIN planned[v]
    <3>1. v \in DOMAIN waves /\ PayloadOf(v) = Payload(v)
      BY <1>2
    <3>2. DOMAIN Payload(v).permuted = 1 .. WaveSize(v)
      BY <3>1, PayloadRows
    <3>3. DOMAIN planned[v] = 1 .. WaveSize(v)
      BY <3>1, PlansOfWaves
    <3>4. QED
      BY <3>1, <3>2, <3>3
  <2>2. QED
    BY <2>1
<1>4. ASSUME NEW t \in T
      PROVE  /\ t[1] \in 1 .. w - 1 /\ t[2] \in DOMAIN planned[t[1]] /\ t = <<t[1], t[2]>>
             /\ planned[t[1]][t[2]] \in B /\ WaveOf(planned[t[1]][t[2]]) = t[1]
  <2>1. t[1] \in 1 .. w - 1 /\ t[2] \in DOMAIN planned[t[1]] /\ t = <<t[1], t[2]>>
    BY <1>3, <1>4
  <2>2. planned[t[1]][t[2]] \in Pairs /\ WaveOf(planned[t[1]][t[2]]) = t[1]
    BY <1>2, <2>1, PlansOfWaves
  <2>3. QED
    BY <1>2, <2>1, <2>2 DEF Before
<1>5. ASSUME NEW p \in B PROVE \E t \in T : planned[t[1]][t[2]] = p
  <2> DEFINE v == WaveOf(p)
  <2>1. p \in Pairs /\ v < w
    BY <1>5 DEF Before
  <2>2. v \in DOMAIN waves /\ p \in InWave(v)
    BY <2>1, PairsHaveAWave DEF InWave, PackInv
  <2>3. PICK i \in DOMAIN planned[v] : planned[v][i] = p
    BY <2>2, PlansOfWaves DEF Lists
  <2>4. v \in 1 .. w - 1
    BY <1>1, <2>1, <2>2
  <2> HIDE DEF v
  <2>5. <<v, i>> \in T
    BY <1>3, <2>3, <2>4
  <2>6. <<v, i>>[1] = v /\ <<v, i>>[2] = i
    OBVIOUS
  <2> HIDE DEF T
  <2>7. QED
    BY <2>3, <2>5, <2>6
<1> HIDE DEF T
<1>6. ASSUME NEW t \in T, NEW u \in T, planned[t[1]][t[2]] = planned[u[1]][u[2]]
      PROVE  t = u
  <2>1. t[1] = u[1]
    BY <1>4, <1>6
  <2>2. /\ t[1] \in DOMAIN waves /\ t[2] \in DOMAIN planned[t[1]]
        /\ u[2] \in DOMAIN planned[t[1]] /\ planned[t[1]][t[2]] = planned[t[1]][u[2]]
    BY <1>2, <1>4, <1>6, <2>1
  <2>3. Lists(planned[t[1]], InWave(t[1]))
    BY <2>2, PlansOfWaves
  <2>4. t[2] = u[2]
    BY <2>2, <2>3 DEF Lists
  <2>5. QED
    BY <1>4, <2>1, <2>4
<1> HIDE DEF B
<1>7. f \in Bijection(T, B)
  <2>1. f \in [T -> B]
    BY <1>4
  <2>2. \A t, u \in T : f[t] = f[u] => t = u
    BY <1>6
  <2>3. \A p \in B : \E t \in T : f[t] = p
    BY <1>5
  <2> HIDE DEF f
  <2>4. QED
    BY <2>1, <2>2, <2>3 DEF Bijection, Injection, IsInjective, Surjection
<1>8. ExistsBijection(T, B)
  BY <1>7 DEF ExistsBijection
<1>9. ExistsBijection(B, T)
  BY <1>8, Fun_ExistsBijSymmetric
<1>10. IsFiniteSet(B)
  BY PairSetsAreFinite DEF B, Before
<1>11. Cardinality(T) = Cardinality(B)
  BY <1>9, <1>10, FS_Bijection
<1>12. LayerPairStart(w) = Cardinality(B)
  BY CursorCounts DEF B, PackInv
<1>13. QED
  BY <1>11, <1>12 DEF T, RowsBefore

\* A row of the concatenation belongs to the wave whose rows it lies between.
LEMMA RowsOfTheNativeCombine ==
    ASSUME PackInv, PlannedInv, phase # "packing", mode.planning # "tokens",
           \A v \in DOMAIN waves : PayloadOf(v) = Payload(v),
           NEW w \in DOMAIN waves, NEW k \in 0 .. WaveSize(w) - 1
    PROVE  NativePermuted[k + RowsBefore(w)] = Payload(w).permuted[k + 1]
<1> DEFINE row == k + RowsBefore(w)
           size(v) == Len(PayloadOf(v).permuted)
           chosen == CHOOSE v \in DOMAIN waves : row - RowsBefore(v) \in 0 .. size(v) - 1
<1>1. unplaced = {}
  BY DEF PackInv
<1>2. \A v \in DOMAIN waves :
        /\ RowsBefore(v) = LayerPairStart(v) /\ size(v) = WaveSize(v)
        /\ RowsBefore(v) \in Nat /\ size(v) \in Nat /\ v \in Nat
        /\ RowsBefore(v) + size(v) <= Cardinality(Pairs)
  BY <1>1, RowsAreTheCursor, PayloadRows, CursorCounts, CutsAreDisjoint, WavesAreFinite
<1>3. \A u, v \in DOMAIN waves : u < v => RowsBefore(u) + size(u) <= RowsBefore(v)
  BY <1>1, <1>2, CutsAreDisjoint
<1>4. Cardinality(Pairs) \in Nat
  BY PairsAreFinite, FS_CardinalityType
<1>5. k \in Nat /\ k < size(w) /\ row \in 0 .. Cardinality(Pairs) - 1
  BY <1>2, <1>4
<1> HIDE DEF size
<1>6. row - RowsBefore(w) = k /\ row - RowsBefore(w) \in 0 .. size(w) - 1
  BY <1>2, <1>5
<1>7. ASSUME NEW v \in DOMAIN waves, row - RowsBefore(v) \in 0 .. size(v) - 1 PROVE v = w
  <2>1. ~(v < w)
    BY <1>2, <1>3, <1>5, <1>7
  <2>2. ~(w < v)
    BY <1>2, <1>3, <1>5, <1>7
  <2>3. v \in Nat /\ w \in Nat
    BY <1>2
  <2>4. QED
    BY <2>1, <2>2, <2>3
<1> HIDE DEF row
<1>8. chosen = w
  BY <1>6, <1>7
<1>9. NativePermuted[row] = PayloadOf(chosen).permuted[row - RowsBefore(chosen) + 1]
  BY <1>5 DEF NativePermuted, size
<1> HIDE DEF chosen
<1>10. QED
  BY <1>6, <1>8, <1>9 DEF row

\* The unpermute index leads from a pair to its own row.
LEMMA CombineIsAtHome ==
    ASSUME PackInv, PlannedInv, phase # "packing", mode.planning # "tokens",
           \A v \in DOMAIN waves : PayloadOf(v) = Payload(v), NEW p \in Pairs
    PROVE  NativePermuted[GlobalUnpermute[p]] = <<TokenOf(p), topk[p]>>
<1> DEFINE w == WaveOf(p)
           W == CHOOSE v \in DOMAIN waves : \E i \in DOMAIN planned[v] : planned[v][i] = p
           I == CHOOSE j \in DOMAIN planned[W] : planned[W][j] = p
<1>1. unplaced = {}
  BY DEF PackInv
<1>2. w \in DOMAIN waves /\ p \in InWave(w)
  BY <1>1, PairsHaveAWave DEF InWave
<1>3. \E i \in DOMAIN planned[w] : planned[w][i] = p
  BY <1>2, PlansOfWaves DEF Lists
<1>4. \A v \in DOMAIN waves : (\E i \in DOMAIN planned[v] : planned[v][i] = p) => v = w
  BY PlansOfWaves
<1> HIDE DEF w
<1>5. W = w
  BY <1>2, <1>3, <1>4
<1> HIDE DEF W
<1>6. I \in DOMAIN planned[w] /\ planned[w][I] = p
  BY <1>3, <1>5
<1>7. GlobalUnpermute[p] = PayloadOf(w).expanded[I] + RowsBefore(w)
  <2>1. GlobalUnpermute[p] = PayloadOf(W).expanded[I] + RowBase(W)
    BY DEF GlobalUnpermute, W
  <2>2. QED
    BY <1>5, <2>1 DEF RowBase
<1> HIDE DEF I
<1>8. /\ PayloadOf(w).expanded[I] = ExpandedRow(w, I)
      /\ ExpandedRow(w, I) \in 0 .. WaveSize(w) - 1
      /\ Payload(w).permuted[ExpandedRow(w, I) + 1] = <<TokenOf(p), topk[p]>>
  <2>1. PayloadOf(w) = Payload(w)
    BY <1>2
  <2>2. /\ Payload(w).expanded[I] = ExpandedRow(w, I)
        /\ ExpandedRow(w, I) \in 0 .. WaveSize(w) - 1
        /\ Payload(w).permuted[ExpandedRow(w, I) + 1]
             = <<TokenOf(planned[w][I]), topk[planned[w][I]]>>
    BY <1>2, <1>6, PayloadRows
  <2>3. QED
    BY <1>6, <2>1, <2>2
<1> DEFINE k == ExpandedRow(w, I)
<1>9. NativePermuted[k + RowsBefore(w)] = Payload(w).permuted[k + 1]
  BY <1>2, <1>8, RowsOfTheNativeCombine
<1>10. QED
  BY <1>7, <1>8, <1>9

(***************************************************************************)
(* The reference: the weights of a pair are kept in the wave of its expert *)
(* and nowhere else.                                                       *)
(***************************************************************************)
LEMMA AccumulateIsAtHome ==
    ASSUME PackInv, phase # "packing", NEW p \in Pairs
    PROVE  {<<payload.wave, payload.rows[p]>> :
               payload \in {each \in {ReferencePayload(w) : w \in DOMAIN waves} :
                              p \in each.weighted}}
             = {<<WaveOf(p), <<TokenOf(p), topk[p]>>>>}
<1> DEFINE home == WaveOf(p)
           all == {ReferencePayload(w) : w \in DOMAIN waves}
<1>1. home \in DOMAIN waves /\ topk[p] \in waves[home]
      /\ \A w \in DOMAIN waves : topk[p] \in waves[w] <=> w = home
  BY PairsHaveAWave DEF PackInv
<1>2. \A w : /\ ReferencePayload(w).wave = w /\ ReferencePayload(w).weighted = Kept(w)
             /\ ReferencePayload(w).rows[p] = <<TokenOf(p), ExpertIn(w, SafeId(w, p))>>
  BY DEF ReferencePayload
<1>3. \A w \in DOMAIN waves : p \in Kept(w) <=> w = home
  BY <1>1 DEF Kept
<1> HIDE DEF home
<1>4. {each \in all : p \in each.weighted} = {ReferencePayload(home)}
  BY <1>1, <1>2, <1>3
<1>5. ExpertIn(home, SafeId(home, p)) = topk[p]
  BY <1>1, <1>3, SlotsLeadBack DEF SafeId
<1>6. ReferencePayload(home).wave = home
      /\ ReferencePayload(home).rows[p] = <<TokenOf(p), topk[p]>>
  BY <1>2, <1>5
<1> HIDE DEF all
<1>7. {<<payload.wave, payload.rows[p]>> : payload \in {ReferencePayload(home)}}
        = {<<home, <<TokenOf(p), topk[p]>>>>}
  BY <1>6
<1>8. QED
  BY <1>4, <1>7 DEF all, home

OutputInv ==
    /\ phase # "combined" => output = <<>>
    /\ OutputsAreAtHome

LEMMA OutputNext ==
    PackInv /\ PlannedInv /\ PayloadsInv /\ OutputInv /\ [Next]_vars => OutputInv'
<1> SUFFICES ASSUME PackInv, PlannedInv, PayloadsInv, OutputInv, [Next]_vars
             PROVE  OutputInv'
  OBVIOUS
<1>1. CASE Place \/ PlanPairs \/ ComputeWave
  BY <1>1 DEF Place, PlanPairs, ComputeWave, OutputInv, OutputsAreAtHome
<1>2. CASE Combine
  <2>1. /\ output' = [p \in Pairs |-> {<<WaveOf(p), NativePermuted[GlobalUnpermute[p]]>>}]
        /\ phase = "computing" /\ mode.planning # "tokens" /\ Computed = DOMAIN waves
        /\ phase' = "combined" /\ UNCHANGED <<topk, waves>>
    BY <1>2 DEF Combine
  <2>2. \A v \in DOMAIN waves : PayloadOf(v) = Payload(v)
    BY <2>1, PayloadsOfWaves DEF WavePayload
  <2>3. \A p \in Pairs : output'[p] = {<<WaveOf(p), <<TokenOf(p), topk[p]>>>>}
    BY <2>1, <2>2, CombineIsAtHome
  <2>4. \A p : WaveOf(p)' = WaveOf(p)
    BY <2>1 DEF WaveOf
  <2>5. QED
    BY <2>1, <2>3, <2>4 DEF OutputInv, OutputsAreAtHome
<1>3. CASE Accumulate
  <2>1. /\ output' = [p \in Pairs |->
                        {<<payload.wave, payload.rows[p]>> :
                            payload \in {each \in payloads : p \in each.weighted}}]
        /\ phase = "computing" /\ mode.planning = "tokens" /\ Computed = DOMAIN waves
        /\ phase' = "combined" /\ UNCHANGED <<topk, waves>>
    BY <1>3 DEF Accumulate
  <2>2. payloads = {ReferencePayload(w) : w \in DOMAIN waves}
    <3>1. payloads = {WavePayload(w) : w \in DOMAIN waves}
      BY <2>1, PayloadsOfWaves
    <3>2. \A w : WavePayload(w) = ReferencePayload(w)
      BY <2>1 DEF WavePayload
    <3>3. QED
      BY <3>1, <3>2
  <2>3. \A p \in Pairs : output'[p] = {<<WaveOf(p), <<TokenOf(p), topk[p]>>>>}
    BY <2>1, <2>2, AccumulateIsAtHome
  <2>4. \A p : WaveOf(p)' = WaveOf(p)
    BY <2>1 DEF WaveOf
  <2>5. QED
    BY <2>1, <2>3, <2>4 DEF OutputInv, OutputsAreAtHome
<1>4. CASE UNCHANGED vars
  BY <1>4 DEF vars, OutputInv, OutputsAreAtHome, WaveOf
<1>5. QED
  BY <1>1, <1>2, <1>3, <1>4 DEF Next

LEMMA OutputInvHolds == Spec => []OutputInv
<1>1. Init => OutputInv
  BY DEF Init, OutputInv, OutputsAreAtHome
<1>2. QED
  BY <1>1, OutputNext, PackInvHolds, PlannedInvHolds, PayloadsInvHolds, PTL DEF Spec

\* Gathering, permuting, computing wave by wave, concatenating and unpermuting
\* change nothing: on every run, for every routing, every pair gets what its own
\* expert makes of its own token, once; and the reference path agrees.
THEOREM OutputTheorem == Spec => []OutputsAreAtHome
<1>1. OutputInv => OutputsAreAtHome
  BY DEF OutputInv
<1>2. QED
  BY <1>1, OutputInvHolds, PTL

--------------------------------------------------------------------------
\* The domains of every variable, from the invariants above: Sorted and the cut
\* of a plan yield sequences, so that waves, plans and orders are all lists.
THEOREM TypeCorrect == Spec => []TypeOK
<1>1. PackInv /\ StageInv /\ PlannedInv /\ PayloadsInv /\ OutputInv
        /\ (phase = "packing" => issue = <<>> /\ order = <<>>) => TypeOK
  <2> SUFFICES ASSUME PackInv, StageInv, PlannedInv, PayloadsInv, OutputInv,
                      phase = "packing" => issue = <<>> /\ order = <<>>
               PROVE  TypeOK
    OBVIOUS
  <2>1. /\ phase \in {"packing", "computing", "combined"} /\ topk \in Routings
        /\ unplaced \in SUBSET Active
    BY DEF PackInv
  <2>2. waves \in Seq(SUBSET Active)
    BY WavesAreFinite, SeqDef DEF PackInv
  <2>3. mode \in Modes \cup {Unplanned}
    BY <2>1 DEF PlannedInv
  <2>4. planned \in Seq(Seq(Pairs))
    <3>1. CASE phase = "packing" \/ mode.planning = "tokens"
      BY <3>1, EmptySeq DEF PlannedInv
    <3>2. CASE phase # "packing" /\ mode.planning # "tokens"
      <4>1. DOMAIN planned = 1 .. MinWaves(Active) /\ MinWaves(Active) \in Nat
        BY <3>2, WavesAreFinite DEF PlannedInv
      <4>2. ASSUME NEW w \in DOMAIN planned PROVE planned[w] \in Seq(Pairs)
        <5>1. w \in DOMAIN waves
          BY <3>2, <4>2 DEF PlannedInv
        <5>2. /\ planned[w] \in Seq(InWave(w)) /\ Len(planned[w]) \in Nat
              /\ DOMAIN planned[w] = 1 .. Len(planned[w])
              /\ \A i \in DOMAIN planned[w] : planned[w][i] \in Pairs
          BY <3>2, <5>1, PlansOfWaves DEF Lists
        <5>3. planned[w] \in [1 .. Len(planned[w]) -> Pairs]
          BY <5>2, LenProperties
        <5>4. QED
          BY <5>2, <5>3, SeqDef
      <4>3. planned = [w \in DOMAIN planned |-> planned[w]]
        BY <3>2 DEF PlannedInv
      <4>4. planned \in [1 .. MinWaves(Active) -> Seq(Pairs)]
        BY <4>1, <4>2, <4>3
      <4>5. QED
        BY <4>1, <4>4, SeqDef
    <3>3. QED
      BY <3>1, <3>2
  <2>5. issue \in Seq(DOMAIN waves) /\ order \in Seq(DOMAIN waves)
    BY EmptySeq DEF StageInv, WavesAreStagedInOrder
  <2>6. Computed \subseteq DOMAIN waves
    BY DEF Computed, PayloadsInv
  <2>7. output = <<>> \/ \A p \in Pairs : output[p] \subseteq
                          (DOMAIN waves) \X ((0 .. NumTokens - 1) \X Active)
    <3>1. CASE phase # "combined"
      BY <3>1 DEF OutputInv
    <3>2. CASE phase = "combined"
      <4>1. ASSUME NEW p \in Pairs
            PROVE  output[p] \subseteq (DOMAIN waves) \X ((0 .. NumTokens - 1) \X Active)
        <5>1. output[p] = {<<WaveOf(p), <<TokenOf(p), topk[p]>>>>}
          BY <3>2 DEF OutputInv, OutputsAreAtHome
        <5>2. WaveOf(p) \in DOMAIN waves
          BY <3>2, PairsHaveAWave DEF PackInv
        <5>3. TokenOf(p) \in 0 .. NumTokens - 1 /\ topk[p] \in Active
          BY <2>1, PairsAreFinite, RoutingFacts
        <5>4. QED
          BY <5>1, <5>2, <5>3
      <4>2. QED
        BY <4>1
    <3>3. QED
      BY <3>1, <3>2
  <2>8. QED
    BY <2>1, <2>2, <2>3, <2>4, <2>5, <2>6, <2>7 DEF TypeOK
<1>2. Spec => [](phase = "packing" => issue = <<>> /\ order = <<>>)
  <2> DEFINE I == phase = "packing" => issue = <<>> /\ order = <<>>
  <2>1. Init => I
    BY DEF Init
  <2>2. I /\ [Next]_vars => I'
    BY DEF Next, Place, PlanPairs, ComputeWave, Combine, Accumulate, vars, planVars
  <2>3. QED
    BY <2>1, <2>2, PTL DEF Spec
<1>3. QED
  BY <1>1, <1>2, PackInvHolds, StageInvHolds, PlannedInvHolds, PayloadsInvHolds,
     OutputInvHolds, PTL
===========================================================================

----------------------------- MODULE Sums_proofs -----------------------------
(***************************************************************************)
(* Facts about SumFunction of the community modules, the sum of the values *)
(* of a function with a finite domain.                                     *)
(***************************************************************************)
EXTENDS Functions, FiniteSetTheorems, TLAPS

\* A nonempty set of natural numbers has a least element.
LEMMA LeastNumber ==
  ASSUME NEW T, T \subseteq Nat, T # {}
  PROVE  \E n \in T : \A m \in T : ~(m < n)
<1>1. \E n \in T : \A m \in T : ~(<<m, n>> \in OpToRel(<, Nat))
  BY NatLessThanWellFounded, WFMin
<1> QED
  BY <1>1 DEF OpToRel

\* Among some subsets of a finite set, one has no other below it.
LEMMA SmallestSubset ==
  ASSUME NEW S, IsFiniteSet(S), NEW F, F \subseteq SUBSET S, F # {}
  PROVE  \E A \in F : \A B \in F : B \subseteq A => B = A
<1>1. IsWellFoundedOn(StrictSubsetOrdering(S), SUBSET S)
  BY FS_StrictSubsetOrderingWellFounded, FS_FiniteSubsetsOfFinite
<1>2. \E A \in F : \A B \in F : ~(<<B, A>> \in StrictSubsetOrdering(S))
  BY <1>1, WFMin
<1> QED
  BY <1>2 DEF StrictSubsetOrdering

-----------------------------------------------------------------------------
\* The fold behind the sum: over the subsets D of the indices, an element at a time.
First(s) == CHOOSE x \in s : TRUE
After(s) == s \ {First(s)}
Folded(f, D, g) == g = [s \in D |-> IF s = {} THEN 0 ELSE f[First(s)] + g[After(s)]]
Fold(f, S) == CHOOSE g : Folded(f, SUBSET S, g)

\* The sum is this fold over all of the domain.
LEMMA SumIsFold == ASSUME NEW f PROVE SumFunction(f) = Fold(f, DOMAIN f)[DOMAIN f]
  BY DEF SumFunction, SumFunctionOnSet, FoldFunctionOnSet, MapThenFoldSet, Fold, Folded,
         After, First

\* The fold takes an element and goes on with the others.
LEMMA AfterSmaller ==
  ASSUME NEW s, s # {}
  PROVE  First(s) \in s /\ After(s) \subseteq s /\ First(s) \notin After(s) /\ After(s) # s
  BY DEF First, After

\* The recursion has a solution.
LEMMA FoldExists ==
  ASSUME NEW f, NEW S, IsFiniteSet(S)
  PROVE  Folded(f, SUBSET S, Fold(f, S))
<1> DEFINE D(n) == {s \in SUBSET S : Cardinality(s) <= n}
           Bad == {n \in Nat : ~ \E g : Folded(f, D(n), g)}
<1>1. \A s \in SUBSET S : IsFiniteSet(s) /\ Cardinality(s) \in Nat
  BY FS_Subset, FS_CardinalityType
<1>2. Bad = {}
  <2> SUFFICES ASSUME Bad # {} PROVE FALSE
    OBVIOUS
  <2>1. PICK n \in Bad : \A m \in Bad : ~(m < n)
    BY LeastNumber
  <2>2. CASE n = 0
    <3>1. \A s \in D(0) : s = {}
      BY <1>1, FS_EmptySet
    <3> DEFINE g == [s \in D(0) |-> 0]
    <3>2. Folded(f, D(0), g)
      BY <3>1 DEF Folded
    <3> QED
      BY <2>2, <3>2
  <2>3. CASE n # 0
    <3>1. n - 1 \in Nat /\ n - 1 \notin Bad
      <4>1. n \in Nat /\ n - 1 \in Nat /\ n - 1 < n
        BY <2>3
      <4> HIDE DEF Bad
      <4> QED
        BY <2>1, <4>1
    <3>2. PICK g : Folded(f, D(n - 1), g)
      BY <3>1
    <3> DEFINE h == [s \in D(n) |-> IF s = {} THEN 0 ELSE
                        f[First(s)] + g[After(s)]]
    <3>3. \A s \in D(n) : s # {} => After(s) \in D(n - 1)
      BY <1>1, AfterSmaller, FS_RemoveElement DEF After
    <3>4. \A s \in D(n - 1) : s \in D(n) /\ h[s] = g[s]
      <4>1. \A s \in D(n - 1) : s \in D(n)
        BY <1>1
      <4>2. \A s \in D(n - 1) : g[s] = IF s = {} THEN 0 ELSE f[First(s)] + g[After(s)]
        BY <3>2 DEF Folded
      <4> HIDE DEF D
      <4> QED
        BY <4>1, <4>2
    <3>5. Folded(f, D(n), h)
      <4> HIDE DEF D
      <4>1. \A s \in D(n) : s # {} => h[After(s)] = g[After(s)]
        BY <3>3, <3>4
      <4>2. h = [s \in D(n) |-> IF s = {} THEN 0 ELSE f[First(s)] + h[After(s)]]
        BY <4>1
      <4> HIDE DEF h
      <4> QED
        BY <4>2 DEF Folded
    <3> QED
      BY <3>5
  <2> QED
    BY <2>2, <2>3
<1>3. D(Cardinality(S)) = SUBSET S
  BY <1>1, FS_Subset
<1>4. Cardinality(S) \in Nat
  BY FS_CardinalityType
<1>5. \E g : Folded(f, SUBSET S, g)
  BY <1>2, <1>3, <1>4
<1> QED
  BY <1>5 DEF Fold

\* The recursion, for the fold itself.
LEMMA FoldStep ==
  ASSUME NEW f, NEW S, IsFiniteSet(S), NEW s \in SUBSET S
  PROVE  Fold(f, S)[s] = IF s = {} THEN 0 ELSE f[First(s)] + Fold(f, S)[After(s)]
<1>1. Folded(f, SUBSET S, Fold(f, S))
  BY FoldExists
<1> HIDE DEF Fold
<1> QED
  BY <1>1 DEF Folded

\* It depends on the values at the indices alone ...
LEMMA FoldEqual ==
  ASSUME NEW f, NEW S, IsFiniteSet(S), NEW g, NEW T, IsFiniteSet(T),
         NEW s \in SUBSET S, s \in SUBSET T, \A x \in s : f[x] = g[x]
  PROVE  Fold(f, S)[s] = Fold(g, T)[s]
<1> DEFINE Bad == {t \in SUBSET s : Fold(f, S)[t] # Fold(g, T)[t]}
<1> SUFFICES ASSUME Bad # {} PROVE FALSE
  OBVIOUS
<1>1. IsFiniteSet(s)
  BY FS_Subset
<1>2. PICK t \in Bad : \A u \in Bad : u \subseteq t => u = t
  <2>1. Bad \subseteq SUBSET s
    OBVIOUS
  <2> HIDE DEF Bad
  <2> QED
    BY <1>1, <2>1, SmallestSubset
<1>3. t # {}
  BY <1>2, FoldStep
<1>4. After(t) \in SUBSET s /\ First(t) \in s
  BY <1>2, <1>3, AfterSmaller
<1>5. Fold(f, S)[After(t)] = Fold(g, T)[After(t)]
  BY <1>2, <1>3, <1>4, AfterSmaller
<1>6. /\ Fold(f, S)[t] = f[First(t)] + Fold(f, S)[After(t)]
      /\ Fold(g, T)[t] = g[First(t)] + Fold(g, T)[After(t)]
  BY <1>2, <1>3, FoldStep
<1> QED
  BY <1>2, <1>4, <1>5, <1>6

\* ... and is a number where they are, ...
LEMMA FoldType ==
  ASSUME NEW f, NEW S, IsFiniteSet(S), \A x \in S : f[x] \in Int, NEW s \in SUBSET S
  PROVE  Fold(f, S)[s] \in Int
<1> DEFINE Bad == {t \in SUBSET S : Fold(f, S)[t] \notin Int}
<1> SUFFICES ASSUME Bad # {} PROVE FALSE
  OBVIOUS
<1>1. PICK t \in Bad : \A u \in Bad : u \subseteq t => u = t
  <2>1. Bad \subseteq SUBSET S
    OBVIOUS
  <2> HIDE DEF Bad
  <2> QED
    BY <2>1, SmallestSubset
<1>2. t # {}
  BY <1>1, FoldStep
<1>3. After(t) \in SUBSET S /\ First(t) \in S /\ Fold(f, S)[After(t)] \in Int
  BY <1>1, <1>2, AfterSmaller
<1> QED
  BY <1>1, <1>2, <1>3, FoldStep

\* ... whichever element is taken first.
LEMMA FoldAny ==
  ASSUME NEW f, NEW S, IsFiniteSet(S), \A x \in S : f[x] \in Int,
         NEW s \in SUBSET S, NEW x \in s
  PROVE  Fold(f, S)[s] = f[x] + Fold(f, S)[s \ {x}]
<1> DEFINE G == Fold(f, S)
           Bad == {t \in SUBSET S : \E y \in t : G[t] # f[y] + G[t \ {y}]}
<1> SUFFICES ASSUME Bad # {} PROVE FALSE
  OBVIOUS
<1>1. PICK t \in Bad : \A u \in Bad : u \subseteq t => u = t
  <2>1. Bad \subseteq SUBSET S
    OBVIOUS
  <2> HIDE DEF Bad
  <2> QED
    BY <2>1, SmallestSubset
<1>2. PICK y \in t : G[t] # f[y] + G[t \ {y}]
  BY <1>1
<1> DEFINE c == First(t)
           r == t \ {c, y}
<1>3. /\ t \in SUBSET S /\ t # {} /\ c \in t /\ After(t) = t \ {c}
      /\ \A u \in SUBSET S : u \subseteq t /\ u # t => \A z \in u : G[u] = f[z] + G[u \ {z}]
      /\ \A u \in SUBSET S : G[u] \in Int
  BY <1>1, <1>2, AfterSmaller, FoldType DEF After
<1>4. G[t] = f[c] + G[t \ {c}]
  <2>1. t \in SUBSET S /\ t # {}
    BY <1>3
  <2>2. G[t] = f[c] + G[After(t)]
    BY <2>1, FoldStep
  <2> QED
    BY <1>3, <2>2
<1> HIDE DEF c, G
<1>5. y # c
  BY <1>2, <1>4
<1>6. /\ t \ {c} \in SUBSET S /\ t \ {c} # t /\ y \in t \ {c} /\ (t \ {c}) \ {y} = r
      /\ t \ {y} \in SUBSET S /\ t \ {y} # t /\ c \in t \ {y} /\ (t \ {y}) \ {c} = r
      /\ r \in SUBSET S
  BY <1>2, <1>3, <1>5
<1>7. G[t \ {c}] = f[y] + G[r]
  BY <1>3, <1>6
<1>8. G[t \ {y}] = f[c] + G[r]
  BY <1>3, <1>6
<1>9. f[c] \in Int /\ f[y] \in Int /\ G[r] \in Int
  BY <1>2, <1>3, <1>6
<1> QED
  BY <1>2, <1>4, <1>7, <1>8, <1>9
-----------------------------------------------------------------------------
\* A sum of numbers is a number.
LEMMA SumType ==
  ASSUME NEW D, IsFiniteSet(D), NEW f \in [D -> Int]
  PROVE  SumFunction(f) \in Int
BY SumIsFold, FoldType

\* One value taken out.
LEMMA SumOut ==
  ASSUME NEW D, IsFiniteSet(D), NEW f \in [D -> Int], NEW x
  PROVE  SumFunction(f) = (IF x \in D THEN f[x] ELSE 0) + Fold(f, D)[D \ {x}]
<1>1. SumFunction(f) = Fold(f, D)[D]
  BY SumIsFold
<1>2. CASE x \in D
  BY <1>1, <1>2, FoldAny
<1>3. CASE x \notin D
  <2>1. D \ {x} = D /\ Fold(f, D)[D] \in Int
    BY <1>3, FoldType
  <2>2. Fold(f, D)[D \ {x}] = SumFunction(f)
    BY <1>1, <2>1
  <2> QED
    BY <1>1, <1>3, <2>1, <2>2
<1> QED
  BY <1>2, <1>3

\* Functions that agree but at one point, where either may lack a value.
LEMMA SumChanges ==
  ASSUME NEW D, IsFiniteSet(D), NEW f \in [D -> Int],
         NEW E, IsFiniteSet(E), NEW g \in [E -> Int],
         NEW x, D \ {x} = E \ {x}, \A y \in D \ {x} : f[y] = g[y]
  PROVE  SumFunction(g) - (IF x \in E THEN g[x] ELSE 0)
           = SumFunction(f) - (IF x \in D THEN f[x] ELSE 0)
<1> DEFINE r == Fold(f, D)[D \ {x}]
<1>1. r = Fold(g, E)[E \ {x}]
  <2>1. D \ {x} \in SUBSET D /\ D \ {x} \in SUBSET E
    OBVIOUS
  <2>2. r = Fold(g, E)[D \ {x}]
    BY <2>1, FoldEqual
  <2> QED
    BY <2>2
<1>2. r \in Int
  BY FoldType
<1>3. SumFunction(f) = (IF x \in D THEN f[x] ELSE 0) + r
  BY SumOut
<1>4. SumFunction(g) = (IF x \in E THEN g[x] ELSE 0) + r
  <2>1. SumFunction(g) = (IF x \in E THEN g[x] ELSE 0) + Fold(g, E)[E \ {x}]
    BY SumOut
  <2> QED
    BY <1>1, <2>1
<1>5. x \in D => f[x] \in Int
  OBVIOUS
<1>6. x \in E => g[x] \in Int
  OBVIOUS
<1> HIDE DEF r
<1> QED
  BY <1>2, <1>3, <1>4, <1>5, <1>6

\* A function that differs in one place sums to the difference.
LEMMA SumUpdate ==
  ASSUME NEW D, IsFiniteSet(D), NEW f \in [D -> Int], NEW g \in [D -> Int],
         NEW x \in D, \A y \in D \ {x} : f[y] = g[y]
  PROVE  SumFunction(g) = SumFunction(f) - f[x] + g[x]
<1>1. SumFunction(g) - (IF x \in D THEN g[x] ELSE 0)
        = SumFunction(f) - (IF x \in D THEN f[x] ELSE 0)
  <2>1. D \ {x} = D \ {x}
    OBVIOUS
  <2> QED
    BY <2>1, SumChanges
<1>2. SumFunction(f) \in Int /\ SumFunction(g) \in Int /\ f[x] \in Int /\ g[x] \in Int
  BY SumType
<1> QED
  BY <1>1, <1>2

\* One more value.
LEMMA SumGrows ==
  ASSUME NEW D, IsFiniteSet(D), NEW f \in [D -> Int], NEW x, x \notin D,
         NEW E, E = D \cup {x}, NEW g \in [E -> Int], \A y \in D : f[y] = g[y]
  PROVE  SumFunction(g) = SumFunction(f) + g[x]
<1>1. IsFiniteSet(E) /\ D \ {x} = E \ {x}
  BY FS_AddElement
<1>2. SumFunction(g) - (IF x \in E THEN g[x] ELSE 0)
        = SumFunction(f) - (IF x \in D THEN f[x] ELSE 0)
  BY <1>1, SumChanges
<1>3. SumFunction(f) \in Int /\ SumFunction(g) \in Int /\ g[x] \in Int
  BY <1>1, SumType
<1> QED
  BY <1>2, <1>3

\* Sums add point by point.
LEMMA SumPlus ==
  ASSUME NEW D, IsFiniteSet(D), NEW f \in [D -> Int], NEW g \in [D -> Int]
  PROVE  SumFunction([x \in D |-> f[x] + g[x]]) = SumFunction(f) + SumFunction(g)
<1> DEFINE h == [x \in D |-> f[x] + g[x]]
           F == Fold(f, D)
           G == Fold(g, D)
           H == Fold(h, D)
           Bad == {t \in SUBSET D : H[t] # F[t] + G[t]}
<1>1. h \in [D -> Int]
  OBVIOUS
<1>2. \A t \in SUBSET D : F[t] \in Int /\ G[t] \in Int
  BY FoldType
<1>3. \A t \in SUBSET D : t # {} =>
        /\ F[t] = f[First(t)] + F[After(t)]
        /\ G[t] = g[First(t)] + G[After(t)]
        /\ H[t] = h[First(t)] + H[After(t)]
  BY FoldStep
<1>4. F[{}] = 0 /\ G[{}] = 0 /\ H[{}] = 0
  BY FoldStep
<1>5. Bad = {}
  <2> SUFFICES ASSUME Bad # {} PROVE FALSE
    OBVIOUS
  <2> HIDE DEF F, G, H
  <2>1. PICK t \in Bad : \A u \in Bad : u \subseteq t => u = t
    <3>1. Bad \subseteq SUBSET D
      OBVIOUS
    <3> HIDE DEF Bad
    <3> QED
      BY <3>1, SmallestSubset
  <2>2. t \in SUBSET D /\ t # {}
    <3>1. {} \notin Bad
      BY <1>4
    <3> QED
      BY <2>1, <3>1
  <2>3. First(t) \in D /\ After(t) \in SUBSET D /\ H[After(t)] = F[After(t)] + G[After(t)]
    BY <2>1, <2>2, AfterSmaller
  <2>4. /\ f[First(t)] \in Int /\ g[First(t)] \in Int
        /\ F[After(t)] \in Int /\ G[After(t)] \in Int
        /\ h[First(t)] = f[First(t)] + g[First(t)]
    BY <1>2, <2>3
  <2>5. H[t] = F[t] + G[t]
    <3> HIDE DEF h, Bad
    <3> QED
      BY <1>3, <2>2, <2>3, <2>4
  <2> QED
    BY <2>1, <2>5
<1>6. H[D] = F[D] + G[D]
  BY <1>5
<1> QED
  BY <1>6, SumIsFold

\* Nothing sums to nothing.
LEMMA SumZero ==
  ASSUME NEW D, IsFiniteSet(D), NEW f, DOMAIN f = D, \A x \in D : f[x] = 0
  PROVE  SumFunction(f) = 0
<1> DEFINE F == Fold(f, D)
           Bad == {t \in SUBSET D : F[t] # 0}
<1>1. Bad = {}
  <2> SUFFICES ASSUME Bad # {} PROVE FALSE
    OBVIOUS
  <2>1. PICK t \in Bad : \A u \in Bad : u \subseteq t => u = t
    <3>1. Bad \subseteq SUBSET D
      OBVIOUS
    <3> HIDE DEF Bad
    <3> QED
      BY <3>1, SmallestSubset
  <2>2. t \in SUBSET D /\ t # {}
    BY <2>1, FoldStep
  <2>3. First(t) \in D /\ After(t) \in SUBSET D /\ F[After(t)] = 0
    BY <2>1, <2>2, AfterSmaller
  <2>4. F[t] = f[First(t)] + F[After(t)]
    BY <2>2, FoldStep
  <2> HIDE DEF F
  <2> QED
    BY <2>1, <2>3, <2>4
<1> QED
  BY <1>1, SumIsFold

\* Smaller values have the smaller sum.
LEMMA SumMonotone ==
  ASSUME NEW D, IsFiniteSet(D), NEW f \in [D -> Int], NEW g \in [D -> Int],
         \A x \in D : f[x] <= g[x]
  PROVE  SumFunction(f) <= SumFunction(g)
<1> DEFINE F == Fold(f, D)
           G == Fold(g, D)
           Bad == {t \in SUBSET D : ~(F[t] <= G[t])}
<1>1. \A t \in SUBSET D : F[t] \in Int /\ G[t] \in Int
  BY FoldType
<1>2. \A t \in SUBSET D : t # {} =>
        /\ F[t] = f[First(t)] + F[After(t)]
        /\ G[t] = g[First(t)] + G[After(t)]
  BY FoldStep
<1>3. F[{}] = 0 /\ G[{}] = 0
  BY FoldStep
<1>4. Bad = {}
  <2> SUFFICES ASSUME Bad # {} PROVE FALSE
    OBVIOUS
  <2> HIDE DEF F, G
  <2>1. PICK t \in Bad : \A u \in Bad : u \subseteq t => u = t
    <3>1. Bad \subseteq SUBSET D
      OBVIOUS
    <3> HIDE DEF Bad
    <3> QED
      BY <3>1, SmallestSubset
  <2>2. t \in SUBSET D /\ t # {}
    <3>1. {} \notin Bad
      BY <1>3
    <3> QED
      BY <2>1, <3>1
  <2>3. First(t) \in D /\ After(t) \in SUBSET D /\ F[After(t)] <= G[After(t)]
    BY <2>1, <2>2, AfterSmaller
  <2>4. /\ f[First(t)] \in Int /\ g[First(t)] \in Int /\ f[First(t)] <= g[First(t)]
        /\ F[After(t)] \in Int /\ G[After(t)] \in Int
    BY <1>1, <2>3
  <2>5. F[t] <= G[t]
    BY <1>2, <2>2, <2>3, <2>4
  <2> QED
    BY <2>1, <2>5
<1> QED
  BY <1>4, SumIsFold
=============================================================================

------------------------ MODULE StockMovements_proofs ------------------------
(***************************************************************************)
(* Proofs about StockMovements for every set of handlers and batches and   *)
(* every bound.  First what the helpers do to the sum of the batches, then *)
(* the types, then that the movements explain the row, that the batches    *)
(* stay within it, and that cancelling takes back what was done.           *)
(***************************************************************************)
EXTENDS StockMovements, Sums_proofs

\* What the constants are: finitely many handlers and batches, None no stock row.
Given ==
  /\ IsFiniteSet(Calls) /\ IsFiniteSet(Batches) /\ Batches \subseteq Nat
  /\ None \notin Row

-----------------------------------------------------------------------------
(* The batches and their sum.                                              *)

\* What the batches hold at a location is a number for each.
LEMMA HeldType ==
  ASSUME NEW b \in Books, NEW l \in Loc
  PROVE  /\ Held(b, l) \in [Batches -> Nat] /\ Held(b, l) \in [Batches -> Int]
         /\ \A x \in Batches : b[x] # None => b[x] \in Row /\ Held(b, l)[x] = b[x][l]
         /\ \A x \in Batches : b[x] = None => Held(b, l)[x] = 0
<1>1. \A x \in Batches : b[x] \in Row \cup {None}
  BY DEF Books
<1>2. \A x \in Batches : Held(b, l)[x] = IF b[x] = None THEN 0 ELSE b[x][l]
  BY DEF Held
<1>3. \A x \in Batches : Held(b, l)[x] \in Nat
  BY <1>1, <1>2 DEF Row
<1>4. Held(b, l) \in [Batches -> Nat]
  BY <1>3 DEF Held
<1>5. Held(b, l) \in [Batches -> Int]
  BY <1>3 DEF Held
<1> QED
  BY <1>1, <1>2, <1>4, <1>5

\* The totals of the batches are a row: the sums of what they hold.
LEMMA TotalType ==
  ASSUME Given, NEW b \in Books
  PROVE  Total(b) \in Row /\ \A l \in Loc : Total(b)[l] = SumFunction(Held(b, l))
<1>1. ASSUME NEW l \in Loc PROVE SumFunction(Held(b, l)) \in Nat
  <2> DEFINE z == [x \in Batches |-> 0]
  <2>1. z \in [Batches -> Int] /\ \A x \in Batches : z[x] = 0
    OBVIOUS
  <2>2. Held(b, l) \in [Batches -> Int] /\ \A x \in Batches : z[x] <= Held(b, l)[x]
    BY <2>1, HeldType
  <2>3. SumFunction(z) = 0
    BY SumZero DEF Given
  <2> HIDE DEF z
  <2>4. SumFunction(z) <= SumFunction(Held(b, l)) /\ SumFunction(Held(b, l)) \in Int
    BY <2>1, <2>2, SumMonotone, SumType DEF Given
  <2> QED
    BY <2>3, <2>4
<1> QED
  BY <1>1 DEF Total, Row

\* Batches without a row add nothing.
LEMMA NoRowsTotal ==
  ASSUME Given, NEW b \in Books, Rows(b) = {}, NEW l \in Loc
  PROVE  Total(b)[l] = 0
<1>1. \A x \in Batches : Held(b, l)[x] = 0
  BY HeldType DEF Rows
<1>2. DOMAIN Held(b, l) = Batches
  BY HeldType
<1>3. IsFiniteSet(Batches) /\ Total(b)[l] = SumFunction(Held(b, l))
  BY TotalType DEF Given
<1> QED
  BY <1>1, <1>2, <1>3, SumZero

\* Books that agree on a location have the same sum there ...
LEMMA SameTotal ==
  ASSUME Given, NEW b \in Books, NEW d \in Books, NEW l \in Loc,
         \A x \in Batches : Held(d, l)[x] = Held(b, l)[x]
  PROVE  Total(d)[l] = Total(b)[l]
<1>1. Held(d, l) = Held(b, l)
  BY HeldType
<1> QED
  BY <1>1, TotalType

\* ... and books that differ in one batch differ by that.
LEMMA TotalChange ==
  ASSUME Given, NEW b \in Books, NEW d \in Books, NEW l \in Loc, NEW x \in Batches,
         \A y \in Batches \ {x} : d[y] = b[y]
  PROVE  Total(d)[l] = Total(b)[l] - Held(b, l)[x] + Held(d, l)[x]
<1> DEFINE f == Held(b, l)
           g == Held(d, l)
<1>1. f \in [Batches -> Int] /\ g \in [Batches -> Int]
  BY HeldType
<1>2. \A y \in Batches \ {x} : f[y] = g[y]
  BY DEF Held
<1>3. Total(b)[l] = SumFunction(f) /\ Total(d)[l] = SumFunction(g)
  BY TotalType
<1> HIDE DEF f, g
<1>4. SumFunction(g) = SumFunction(f) - f[x] + g[x]
  <2>1. IsFiniteSet(Batches)
    BY DEF Given
  <2> QED
    BY <1>1, <1>2, <2>1, SumUpdate
<1> QED
  BY <1>3, <1>4 DEF f, g

\* Adding to a row changes one location.
LEMMA AddType ==
  ASSUME NEW row \in [Loc -> Int], NEW l \in Loc, NEW q \in Int
  PROVE  /\ Add(row, l, q) \in [Loc -> Int]
         /\ \A m \in Loc : Add(row, l, q)[m] = IF m = l THEN row[m] + q ELSE row[m]
BY DEF Add

\* Quantities are integers.
LEMMA RowIsInt == ASSUME NEW row \in Row PROVE row \in [Loc -> Int]
BY DEF Row

\* The empty row and the empty books are well formed.
LEMMA EmptyType == Empty \in Row /\ NoBooks \in Books /\ \A l \in Loc : Empty[l] = 0
BY DEF Empty, Row, NoBooks, Books

\* upsertBatchQuantity adds to one batch.
LEMMA PutTotal ==
  ASSUME Given, NEW b \in Books, NEW x \in Batches, NEW l \in Loc, NEW q \in Nat
  PROVE  /\ Put(b, x, l, q) \in Books /\ Rows(Put(b, x, l, q)) # {}
         /\ \A m \in Loc : Total(Put(b, x, l, q))[m] = Total(b)[m] + IF m = l THEN q ELSE 0
<1> DEFINE d == Put(b, x, l, q)
           old == IF b[x] = None THEN Empty ELSE b[x]
<1>1. old \in Row /\ old \in [Loc -> Int] /\ \A m \in Loc : old[m] = Held(b, m)[x]
  BY HeldType, EmptyType, RowIsInt
<1>2. d = [b EXCEPT ![x] = Add(old, l, q)]
  BY DEF Put
<1> HIDE DEF old
<1>3. Add(old, l, q) \in Row
      /\ \A m \in Loc : Add(old, l, q)[m] = IF m = l THEN old[m] + q ELSE old[m]
  <2>1. \A m \in Loc : Add(old, l, q)[m] = IF m = l THEN old[m] + q ELSE old[m]
    BY <1>1, AddType
  <2>2. Add(old, l, q) \in [Loc -> Int] /\ \A m \in Loc : old[m] \in Nat
    BY <1>1, AddType DEF Row
  <2>3. \A m \in Loc : Add(old, l, q)[m] \in Nat
    BY <2>1, <2>2
  <2> QED
    BY <2>1, <2>2, <2>3 DEF Row
<1>4. d \in Books /\ d[x] = Add(old, l, q) /\ \A y \in Batches \ {x} : d[y] = b[y]
  BY <1>2, <1>3 DEF Books
<1> HIDE DEF d
<1>5. d[x] # None
  BY <1>3, <1>4 DEF Given
<1>6. \A m \in Loc : Held(d, m)[x] = Held(b, m)[x] + IF m = l THEN q ELSE 0
  <2>1. \A m \in Loc : Held(d, m)[x] = Add(old, l, q)[m]
    BY <1>4, <1>5, HeldType
  <2>2. \A m \in Loc : Held(b, m)[x] \in Int
    BY HeldType
  <2> QED
    BY <1>1, <1>3, <2>1, <2>2
<1>7. \A m \in Loc : Total(d)[m] = Total(b)[m] + IF m = l THEN q ELSE 0
  <2> TAKE m \in Loc
  <2>1. Total(d)[m] = Total(b)[m] - Held(b, m)[x] + Held(d, m)[x]
    BY <1>4, TotalChange
  <2>2. Total(b)[m] \in Nat /\ Held(b, m)[x] \in Nat
    BY TotalType, HeldType DEF Row
  <2> QED
    BY <1>6, <2>1, <2>2
<1>8. Rows(d) # {}
  BY <1>5 DEF Rows
<1> QED
  BY <1>4, <1>7, <1>8 DEF d

-----------------------------------------------------------------------------
(* consumeBatchQuantity takes what is asked for, in all.                   *)

\* Of some batches, one is the last to be taken from.
LEMMA LastOfSome ==
  ASSUME Given, NEW p, NEW D \in SUBSET Batches, D # {}
  PROVE  \E x \in D : \A y \in D \ {x} : Sooner(y, x, p)
<1> DEFINE Last(S, x) == x \in S /\ \A y \in S \ {x} : Sooner(y, x, p)
           Bad == {S \in SUBSET Batches : S # {} /\ ~ \E x \in Batches : Last(S, x)}
<1>1. Bad = {}
  <2> SUFFICES ASSUME Bad # {} PROVE FALSE
    OBVIOUS
  <2>1. PICK S \in Bad : \A U \in Bad : U \subseteq S => U = S
    <3>1. Bad \subseteq SUBSET Batches /\ IsFiniteSet(Batches)
      BY DEF Given
    <3> HIDE DEF Bad
    <3> QED
      BY <3>1, SmallestSubset
  <2>2. PICK a \in S : a \in Batches
    BY <2>1
  <2> DEFINE U == S \ {a}
  <2>3. CASE U = {}
    <3>1. Last(S, a)
      BY <2>2, <2>3
    <3> QED
      BY <2>1, <2>2, <3>1
  <2>4. CASE U # {}
    <3>1. U \in SUBSET Batches /\ U # S /\ U \subseteq S
      BY <2>1, <2>2
    <3>2. PICK m \in Batches : Last(U, m)
      BY <2>1, <2>4, <3>1
    <3>3. Sooner(a, m, p) => Last(S, m)
      BY <2>2, <3>2
    <3>4. ~Sooner(a, m, p) => Last(S, a)
      <4>1. m # a /\ m \in Nat /\ a \in Nat /\ \A y \in U : y \in Nat
        BY <2>2, <3>1, <3>2 DEF Given
      <4>2. ~Sooner(a, m, p) => Sooner(m, a, p)
        BY <4>1 DEF Sooner
      <4>3. ASSUME Sooner(m, a, p), NEW y \in U, Sooner(y, m, p)
            PROVE  Sooner(y, a, p)
        BY <4>1, <4>3 DEF Sooner
      <4> QED
        BY <2>2, <3>2, <4>2, <4>3
    <3> QED
      BY <2>1, <2>2, <3>2, <3>3, <3>4
  <2> QED
    BY <2>3, <2>4
<1> QED
  BY <1>1

TakenFrom(b, l, q, p) == [x \in Batches |-> IF b[x] = None THEN 0 ELSE Taken(b, x, l, q, p)]
Upto(b, l, D) == SumFunction(Restrict(Held(b, l), D))

\* A partial sum, over some of the batches, is a number.
LEMMA UptoType ==
  ASSUME Given, NEW b \in Books, NEW l \in Loc, NEW D \in SUBSET Batches
  PROVE  /\ IsFiniteSet(D) /\ Restrict(Held(b, l), D) \in [D -> Int]
         /\ \A x \in D : Restrict(Held(b, l), D)[x] = Held(b, l)[x]
         /\ Upto(b, l, D) \in Int
<1>1. IsFiniteSet(D)
  BY FS_Subset DEF Given
<1>2. /\ Restrict(Held(b, l), D) \in [D -> Int]
      /\ \A x \in D : Restrict(Held(b, l), D)[x] = Held(b, l)[x]
  BY HeldType DEF Restrict
<1> QED
  BY <1>1, <1>2, SumType DEF Upto

\* What is taken from a batch: what it holds at most, and what the sooner ones leave.
LEMMA TakenLeast ==
  ASSUME Given, NEW b \in Books, NEW l \in Loc, NEW q \in Nat, NEW p
  PROVE  /\ TakenFrom(b, l, q, p) \in [Batches -> Nat]
         /\ TakenFrom(b, l, q, p) \in [Batches -> Int]
         /\ \A x \in Batches :
              /\ TakenFrom(b, l, q, p)[x] =
                   Least(Held(b, l)[x], Most(0, q - Upto(b, l, {y \in Batches : Sooner(y, x, p)})))
              /\ TakenFrom(b, l, q, p)[x] <= Held(b, l)[x]
              /\ b[x] # None => TakenFrom(b, l, q, p)[x] = Taken(b, x, l, q, p)
<1> DEFINE T == TakenFrom(b, l, q, p)
           left(x) == Most(0, q - Upto(b, l, {y \in Batches : Sooner(y, x, p)}))
<1>1. \A x \in Batches : left(x) \in Nat
  <2> TAKE x \in Batches
  <2>1. Upto(b, l, {y \in Batches : Sooner(y, x, p)}) \in Int
    BY UptoType
  <2> QED
    BY <2>1 DEF Most
<1>2. \A x \in Batches : T[x] = IF b[x] = None THEN 0 ELSE Taken(b, x, l, q, p)
  BY DEF TakenFrom
<1>3. \A x \in Batches : Taken(b, x, l, q, p) = Least(b[x][l], left(x))
  BY DEF Taken, Upto
<1> HIDE DEF left
<1>4. \A x \in Batches : T[x] = Least(Held(b, l)[x], left(x))
  <2> TAKE x \in Batches
  <2>1. CASE b[x] = None
    BY <1>1, <1>2, <2>1, HeldType DEF Least
  <2>2. CASE b[x] # None
    BY <1>2, <1>3, <2>2, HeldType
  <2> QED
    BY <2>1, <2>2
<1>5. \A x \in Batches : Held(b, l)[x] \in Nat
  BY HeldType
<1>6. \A x \in Batches : T[x] \in Nat /\ T[x] <= Held(b, l)[x]
  BY <1>1, <1>4, <1>5 DEF Least
<1>7. T \in [Batches -> Nat] /\ T \in [Batches -> Int]
  BY <1>6 DEF TakenFrom
<1> QED
  BY <1>2, <1>4, <1>6, <1>7 DEF left

\* What is taken from a batch is no more than it holds.
LEMMA TakenType ==
  ASSUME Given, NEW b \in Books, NEW l \in Loc, NEW q \in Nat, NEW p,
         NEW T, T = TakenFrom(b, l, q, p)
  PROVE  /\ T \in [Batches -> Int]
         /\ \A x \in Batches :
              /\ T[x] \in Nat /\ T[x] <= Held(b, l)[x]
              /\ b[x] # None => T[x] = Taken(b, x, l, q, p)
<1>1. TakenFrom(b, l, q, p) \in [Batches -> Nat]
  BY TakenLeast
<1>2. TakenFrom(b, l, q, p) \in [Batches -> Int]
  BY TakenLeast
<1>3. \A x \in Batches : TakenFrom(b, l, q, p)[x] <= Held(b, l)[x]
  BY TakenLeast, Zenon
<1>4. \A x \in Batches : b[x] # None => TakenFrom(b, l, q, p)[x] = Taken(b, x, l, q, p)
  BY DEF TakenFrom
<1> QED
  BY <1>1, <1>2, <1>3, <1>4

\* Together the batches give what is asked for, or all they hold.
LEMMA TakenTotal ==
  ASSUME Given, NEW b \in Books, NEW l \in Loc, NEW q \in Nat, NEW p
  PROVE  SumFunction(TakenFrom(b, l, q, p)) = Least(q, Total(b)[l])
<1> DEFINE T == TakenFrom(b, l, q, p)
           H == Held(b, l)
           Closed(D) == \A x \in D, y \in Batches : Sooner(y, x, p) => y \in D
           TakenIn(D) == SumFunction(Restrict(T, D))
           Bad == {D \in SUBSET Batches : Closed(D) /\ TakenIn(D) # Least(q, Upto(b, l, D))}
<1>1. /\ H \in [Batches -> Nat] /\ T \in [Batches -> Int]
      /\ \A x \in Batches :
           T[x] = Least(H[x], Most(0, q - Upto(b, l, {y \in Batches : Sooner(y, x, p)})))
  BY HeldType, TakenLeast
<1> HIDE DEF T, H
<1>2. ASSUME NEW D \in SUBSET Batches
      PROVE  /\ IsFiniteSet(D) /\ Restrict(T, D) \in [D -> Int]
             /\ \A x \in D : Restrict(T, D)[x] = T[x]
  <2>1. IsFiniteSet(D)
    BY FS_Subset DEF Given
  <2> QED
    BY <1>1, <2>1 DEF Restrict
<1>3. Bad = {}
  <2> SUFFICES ASSUME Bad # {} PROVE FALSE
    OBVIOUS
  <2>1. PICK D \in Bad : \A U \in Bad : U \subseteq D => U = D
    <3>1. Bad \subseteq SUBSET Batches /\ IsFiniteSet(Batches)
      BY DEF Given
    <3> HIDE DEF Bad
    <3> QED
      BY <3>1, SmallestSubset
  <2>2. D \in SUBSET Batches /\ Closed(D) /\ TakenIn(D) # Least(q, Upto(b, l, D))
    BY <2>1
  <2>3. D # {}
    <3> SUFFICES ASSUME D = {} PROVE FALSE
      OBVIOUS
    <3>1. TakenIn(D) = 0
      <4>1. DOMAIN Restrict(T, D) = {} /\ IsFiniteSet({})
        BY FS_EmptySet DEF Restrict
      <4> QED
        BY <4>1, SumZero
    <3>2. Upto(b, l, D) = 0
      <4>1. DOMAIN Restrict(Held(b, l), D) = {} /\ IsFiniteSet({})
        BY FS_EmptySet DEF Restrict
      <4> QED
        BY <4>1, SumZero DEF Upto
    <3> HIDE DEF TakenIn
    <3> QED
      BY <2>2, <3>1, <3>2 DEF Least
  <2>4. PICK x \in D : \A y \in D \ {x} : Sooner(y, x, p)
    BY <2>2, <2>3, LastOfSome
  <2> DEFINE U == D \ {x}
  <2>5. /\ x \in Batches /\ U \in SUBSET Batches /\ x \notin U /\ D = U \cup {x}
        /\ U = {y \in Batches : Sooner(y, x, p)}
    BY <2>2, <2>4 DEF Sooner
  <2>6. Closed(U)
    <3> SUFFICES ASSUME NEW z \in U, NEW y \in Batches, Sooner(y, z, p) PROVE y \in U
      OBVIOUS
    <3>1. z \in Nat /\ y \in Nat /\ x \in Nat /\ Sooner(z, x, p) /\ y \in D
      BY <2>2, <2>4, <2>5 DEF Given
    <3>2. y # x
      BY <3>1 DEF Sooner
    <3> QED
      BY <3>1, <3>2
  <2>7. TakenIn(U) = Least(q, Upto(b, l, U))
    <3>1. U \notin Bad
      <4> HIDE DEF Bad
      <4> QED
        BY <2>1, <2>5
    <3> QED
      BY <2>5, <2>6, <3>1
  <2>8. TakenIn(D) = TakenIn(U) + T[x]
    <3>1. \A y \in U : Restrict(T, U)[y] = Restrict(T, D)[y]
      BY <1>2, <2>2, <2>5
    <3>2. Restrict(T, U) \in [U -> Int] /\ Restrict(T, D) \in [D -> Int] /\ IsFiniteSet(U)
      BY <1>2, <2>2, <2>5
    <3>3. Restrict(T, D)[x] = T[x]
      BY <1>2, <2>2
    <3> HIDE DEF U
    <3>4. SumFunction(Restrict(T, D)) = SumFunction(Restrict(T, U)) + Restrict(T, D)[x]
      BY <2>5, <3>1, <3>2, SumGrows
    <3> QED
      BY <3>3, <3>4
  <2>9. Upto(b, l, D) = Upto(b, l, U) + H[x]
    <3>1. \A y \in U : Restrict(Held(b, l), U)[y] = Restrict(Held(b, l), D)[y]
      BY <2>2, <2>5, UptoType
    <3>2. /\ Restrict(Held(b, l), U) \in [U -> Int]
          /\ Restrict(Held(b, l), D) \in [D -> Int] /\ IsFiniteSet(U)
      BY <2>2, <2>5, UptoType
    <3>3. Restrict(Held(b, l), D)[x] = H[x]
      BY <2>2, UptoType DEF H
    <3> HIDE DEF U
    <3>4. SumFunction(Restrict(Held(b, l), D))
            = SumFunction(Restrict(Held(b, l), U)) + Restrict(Held(b, l), D)[x]
      BY <2>5, <3>1, <3>2, SumGrows
    <3> QED
      BY <3>3, <3>4 DEF Upto
  <2>10. T[x] = Least(H[x], Most(0, q - Upto(b, l, U)))
    BY <1>1, <2>5
  <2>11. Upto(b, l, U) \in Int /\ H[x] \in Nat
    BY <1>1, <2>5, UptoType
  <2> HIDE DEF TakenIn, U
  <2> QED
    BY <2>2, <2>7, <2>8, <2>9, <2>10, <2>11 DEF Least, Most
<1>4. TakenIn(Batches) = Least(q, Upto(b, l, Batches))
  BY <1>3
<1>5. Restrict(T, Batches) = T /\ Restrict(H, Batches) = H
  BY <1>1 DEF Restrict
<1>6. SumFunction(T) = Least(q, SumFunction(H))
  BY <1>4, <1>5 DEF Upto, H
<1> QED
  BY <1>6, TotalType DEF T, H

\* With enough in the batches, they lose what is asked for, ...
LEMMA ConsumeTotal ==
  ASSUME Given, NEW b \in Books, NEW l \in Loc, NEW q \in Nat, NEW p, Suffices(b, l, q)
  PROVE  /\ Consume(b, l, q, p) \in Books /\ Rows(Consume(b, l, q, p)) = Rows(b)
         /\ \A m \in Loc : Total(Consume(b, l, q, p))[m] = Total(b)[m] - IF m = l THEN q ELSE 0
         /\ \A x \in Batches : b[x] # None =>
              Consume(b, l, q, p)[x] = Add(b[x], l, 0 - TakenFrom(b, l, q, p)[x])
<1> DEFINE d == Consume(b, l, q, p)
           T == TakenFrom(b, l, q, p)
<1>1. /\ T \in [Batches -> Int]
      /\ \A x \in Batches :
           /\ T[x] \in Nat /\ T[x] <= Held(b, l)[x]
           /\ b[x] # None => T[x] = Taken(b, x, l, q, p)
  <2>1. T = TakenFrom(b, l, q, p)
    OBVIOUS
  <2> HIDE DEF T, d
  <2>2. T \in [Batches -> Int]
    BY <2>1, TakenType
  <2>3. \A x \in Batches : T[x] \in Nat /\ T[x] <= Held(b, l)[x]
    BY <2>1, TakenType
  <2>4. \A x \in Batches : b[x] # None => T[x] = Taken(b, x, l, q, p)
    BY <2>1 DEF TakenFrom
  <2> QED
    BY <2>2, <2>3, <2>4
<1> HIDE DEF T
<1>2. /\ \A x \in Batches : b[x] # None => d[x] = Add(b[x], l, 0 - T[x])
      /\ \A x \in Batches : b[x] = None => d[x] = None
      /\ DOMAIN d = Batches /\ d = [x \in Batches |-> d[x]]
  BY <1>1 DEF Consume
<1> HIDE DEF d
<1>3. ASSUME NEW x \in Batches, b[x] # None
      PROVE  /\ d[x] \in Row
             /\ \A m \in Loc : d[x][m] = b[x][m] - IF m = l THEN T[x] ELSE 0
  <2>1. b[x] \in Row /\ b[x] \in [Loc -> Int] /\ T[x] \in Nat /\ T[x] <= b[x][l]
    BY <1>1, <1>3, HeldType, RowIsInt
  <2>2. 0 - T[x] \in Int
    BY <2>1
  <2> DEFINE r == b[x]
             n == 0 - T[x]
  <2>7. d[x] = Add(r, l, n) /\ r \in [Loc -> Int] /\ n \in Int
    BY <1>2, <1>3, <2>1, <2>2
  <2> HIDE DEF r, n
  <2>9. /\ Add(r, l, n) \in [Loc -> Int]
        /\ \A m \in Loc : Add(r, l, n)[m] = IF m = l THEN r[m] + n ELSE r[m]
    BY <2>7 DEF Add
  <2>8. d[x] \in [Loc -> Int] /\ \A m \in Loc : d[x][m] = IF m = l THEN r[m] + n ELSE r[m]
    BY <2>7, <2>9, Zenon
  <2>3. /\ d[x] \in [Loc -> Int]
        /\ \A m \in Loc : d[x][m] = IF m = l THEN b[x][m] + (0 - T[x]) ELSE b[x][m]
    BY <2>8 DEF r, n
  <2>4. \A m \in Loc : b[x][m] \in Nat
    BY <2>1 DEF Row
  <2>5. \A m \in Loc : d[x][m] \in Nat
    BY <2>1, <2>3, <2>4
  <2>6. \A m \in Loc : d[x][m] = b[x][m] - IF m = l THEN T[x] ELSE 0
    BY <2>1, <2>3, <2>4
  <2> QED
    BY <2>3, <2>5, <2>6 DEF Row
<1>4. d \in Books
  BY <1>2, <1>3 DEF Books
<1>5. Rows(d) = Rows(b)
  <2>1. \A x \in Batches : b[x] # None => d[x] # None
    BY <1>3 DEF Given
  <2> QED
    BY <1>2, <2>1 DEF Rows
<1>6. \A m \in Loc, x \in Batches : Held(d, m)[x] = Held(b, m)[x] - IF m = l THEN T[x] ELSE 0
  <2> TAKE m \in Loc, x \in Batches
  <2>1. CASE b[x] = None
    <3>1. Held(d, m)[x] = 0 /\ Held(b, m)[x] = 0 /\ Held(b, l)[x] = 0
      BY <1>2, <1>4, <2>1, HeldType
    <3> QED
      BY <1>1, <3>1
  <2>2. CASE b[x] # None
    <3>1. d[x] # None
      BY <1>3, <2>2 DEF Given
    <3>2. Held(d, m)[x] = d[x][m] /\ Held(b, m)[x] = b[x][m]
      BY <1>4, <2>2, <3>1, HeldType
    <3> QED
      BY <1>3, <2>2, <3>2
  <2> QED
    BY <2>1, <2>2
<1>7. ASSUME NEW m \in Loc, m # l PROVE Total(d)[m] = Total(b)[m]
  <2>1. \A x \in Batches : Held(b, m)[x] \in Nat
    BY HeldType
  <2>2. \A x \in Batches : Held(d, m)[x] = Held(b, m)[x]
    BY <1>6, <1>7, <2>1
  <2> QED
    BY <1>4, <2>2, SameTotal
<1>8. Total(d)[l] = Total(b)[l] - q
  <2> DEFINE h == Held(d, l)
  <2>1. h \in [Batches -> Int] /\ Held(b, l) \in [Batches -> Int] /\ IsFiniteSet(Batches)
    BY <1>4, HeldType DEF Given
  <2>2. Held(b, l) = [x \in Batches |-> h[x] + T[x]]
    <3>1. \A x \in Batches : Held(b, l)[x] = h[x] + T[x]
      <4>1. \A x \in Batches : h[x] = Held(b, l)[x] - T[x]
        BY <1>6
      <4>2. \A x \in Batches : Held(b, l)[x] \in Int /\ T[x] \in Int
        BY <1>1, <2>1
      <4> QED
        BY <4>1, <4>2
    <3> QED
      BY <2>1, <3>1
  <2>3. SumFunction(Held(b, l)) = SumFunction(h) + SumFunction(T)
    <3> HIDE DEF h
    <3> QED
      BY <1>1, <2>1, <2>2, SumPlus
  <2>4. SumFunction(T) = q
    <3>1. Total(b)[l] \in Nat /\ Total(b)[l] >= q
      BY TotalType DEF Suffices, Row
    <3> QED
      BY <3>1, TakenTotal DEF T, Least
  <2>5. Total(b)[l] = SumFunction(Held(b, l)) /\ Total(d)[l] = SumFunction(h)
    BY <1>4, TotalType
  <2>6. Total(d)[l] \in Nat
    BY <1>4, TotalType DEF Row
  <2> HIDE DEF h
  <2> QED
    BY <2>3, <2>4, <2>5, <2>6
<1>9. \A m \in Loc : Total(d)[m] = Total(b)[m] - IF m = l THEN q ELSE 0
  <2>1. \A m \in Loc : Total(b)[m] \in Nat
    BY TotalType DEF Row
  <2> QED
    BY <1>7, <1>8, <2>1
<1> QED
  BY <1>2, <1>4, <1>5, <1>9 DEF d, T

\* ... the one place as much as the other wins.
LEMMA MovedTotal ==
  ASSUME Given, NEW b \in Books, NEW from \in Loc, NEW to \in Loc, from # to,
         NEW q \in Nat, NEW p, Suffices(b, from, q),
         NEW d, d = [y \in Batches |-> IF b[y] = None THEN None ELSE
                       Add(Consume(b, from, q, p)[y], to, Taken(b, y, from, q, p))]
  PROVE  /\ d \in Books /\ Rows(d) = Rows(b)
         /\ Total(d)[from] = Total(b)[from] - q /\ Total(d)[to] = Total(b)[to] + q
<1> DEFINE e == Consume(b, from, q, p)
           T == TakenFrom(b, from, q, p)
<1>1. /\ T \in [Batches -> Int]
      /\ \A x \in Batches :
           /\ T[x] \in Nat /\ T[x] <= Held(b, from)[x]
           /\ b[x] # None => T[x] = Taken(b, x, from, q, p)
  <2>1. T = TakenFrom(b, from, q, p)
    OBVIOUS
  <2> HIDE DEF T, e
  <2>2. T \in [Batches -> Int]
    BY <2>1, TakenType
  <2>3. \A x \in Batches : T[x] \in Nat /\ T[x] <= Held(b, from)[x]
    BY <2>1, TakenType
  <2>4. \A x \in Batches : b[x] # None => T[x] = Taken(b, x, from, q, p)
    BY <2>1 DEF TakenFrom
  <2> QED
    BY <2>2, <2>3, <2>4
<1>2. /\ e \in Books /\ Rows(e) = Rows(b) /\ Total(e)[from] = Total(b)[from] - q
      /\ Total(e)[to] = Total(b)[to] - 0
  <2>1. e \in Books
    BY ConsumeTotal
  <2>2. Rows(e) = Rows(b)
    BY ConsumeTotal
  <2>3. \A m \in Loc : Total(e)[m] = Total(b)[m] - IF m = from THEN q ELSE 0
    BY ConsumeTotal
  <2> HIDE DEF e
  <2> QED
    BY <2>1, <2>2, <2>3
<1>3. SumFunction(T) = q
  <2>1. Total(b)[from] \in Nat /\ Total(b)[from] >= q
    BY TotalType DEF Suffices, Row
  <2> QED
    BY <2>1, TakenTotal DEF Least
<1> HIDE DEF T, e
<1>4. ASSUME NEW x \in Batches, b[x] # None
      PROVE  /\ d[x] \in Row
             /\ \A m \in Loc : d[x][m] = e[x][m] + IF m = to THEN T[x] ELSE 0
  <2>1. e[x] # None
    BY <1>2, <1>4 DEF Rows
  <2>2. e[x] \in Row /\ e[x] \in [Loc -> Int] /\ T[x] \in Int /\ T[x] \in Nat
    BY <1>1, <1>2, <2>1, HeldType, RowIsInt
  <2>3. d[x] = Add(e[x], to, T[x])
    BY <1>1, <1>4 DEF e
  <2> DEFINE r == e[x]
             n == T[x]
  <2>7. d[x] = Add(r, to, n) /\ r \in [Loc -> Int] /\ n \in Int
    BY <2>2, <2>3
  <2> HIDE DEF r, n
  <2>9. /\ Add(r, to, n) \in [Loc -> Int]
        /\ \A m \in Loc : Add(r, to, n)[m] = IF m = to THEN r[m] + n ELSE r[m]
    BY <2>7 DEF Add
  <2>8. d[x] \in [Loc -> Int] /\ \A m \in Loc : d[x][m] = IF m = to THEN r[m] + n ELSE r[m]
    BY <2>7, <2>9, Zenon
  <2>4. /\ d[x] \in [Loc -> Int]
        /\ \A m \in Loc : d[x][m] = IF m = to THEN e[x][m] + T[x] ELSE e[x][m]
    BY <2>8 DEF r, n
  <2>5. \A m \in Loc : e[x][m] \in Nat
    BY <2>2 DEF Row
  <2>6. \A m \in Loc : d[x][m] \in Nat /\ d[x][m] = e[x][m] + IF m = to THEN T[x] ELSE 0
    BY <2>2, <2>4, <2>5
  <2> QED
    BY <2>4, <2>6 DEF Row
<1>5. \A x \in Batches : b[x] = None => d[x] = None
  OBVIOUS
<1>6. d \in Books
  BY <1>4, <1>5 DEF Books
<1>7. Rows(d) = Rows(b)
  <2>1. \A x \in Batches : b[x] # None => d[x] # None
    BY <1>4 DEF Given
  <2> QED
    BY <1>5, <2>1 DEF Rows
<1>8. \A m \in Loc, x \in Batches : Held(d, m)[x] = Held(e, m)[x] + IF m = to THEN T[x] ELSE 0
  <2> TAKE m \in Loc, x \in Batches
  <2>1. CASE b[x] = None
    <3>1. e[x] = None
      BY <1>2, <2>1 DEF Rows
    <3>2. Held(d, m)[x] = 0 /\ Held(e, m)[x] = 0 /\ Held(b, from)[x] = 0
      BY <1>2, <1>5, <1>6, <2>1, <3>1, HeldType
    <3> QED
      BY <1>1, <3>2
  <2>2. CASE b[x] # None
    <3>1. d[x] # None /\ e[x] # None
      BY <1>2, <1>7, <2>2 DEF Rows
    <3>2. Held(d, m)[x] = d[x][m] /\ Held(e, m)[x] = e[x][m]
      BY <1>2, <1>6, <3>1, HeldType
    <3> QED
      BY <1>4, <2>2, <3>2
  <2> QED
    BY <2>1, <2>2
<1>9. \A m \in Loc : Total(b)[m] \in Nat /\ Total(d)[m] \in Nat /\ Total(e)[m] \in Nat
  BY <1>2, <1>6, TotalType DEF Row
<1>10. Total(d)[from] = Total(b)[from] - q
  <2>1. \A x \in Batches : Held(e, from)[x] \in Nat
    BY <1>2, HeldType
  <2>2. \A x \in Batches : Held(d, from)[x] = Held(e, from)[x]
    BY <1>8, <2>1
  <2>3. Total(d)[from] = Total(e)[from]
    BY <1>2, <1>6, <2>2, SameTotal
  <2> QED
    BY <1>2, <2>3
<1>11. Total(d)[to] = Total(b)[to] + q
  <2> DEFINE h == Held(e, to)
  <2>1. h \in [Batches -> Int] /\ Held(d, to) \in [Batches -> Int] /\ IsFiniteSet(Batches)
    BY <1>2, <1>6, HeldType DEF Given
  <2>2. Held(d, to) = [x \in Batches |-> h[x] + T[x]]
    <3>1. \A x \in Batches : Held(d, to)[x] = h[x] + T[x]
      BY <1>8
    <3> QED
      BY <2>1, <3>1
  <2>3. Total(d)[to] = SumFunction(Held(d, to)) /\ Total(e)[to] = SumFunction(h)
    BY <1>2, <1>6, TotalType
  <2> HIDE DEF h
  <2>4. SumFunction(Held(d, to)) = SumFunction(h) + SumFunction(T)
    BY <1>1, <2>1, <2>2, SumPlus
  <2> QED
    BY <1>2, <1>3, <1>9, <2>3, <2>4
<1> QED
  BY <1>6, <1>7, <1>10, <1>11

\* A batch that is set to a row.
LEMMA SetTotal ==
  ASSUME Given, NEW b \in Books, NEW x \in Batches, NEW row \in Row
  PROVE  /\ [b EXCEPT ![x] = row] \in Books /\ Rows([b EXCEPT ![x] = row]) # {}
         /\ \A m \in Loc : Total([b EXCEPT ![x] = row])[m] = Total(b)[m] - Held(b, m)[x] + row[m]
<1> DEFINE d == [b EXCEPT ![x] = row]
<1>1. d \in Books /\ d[x] = row /\ \A y \in Batches \ {x} : d[y] = b[y]
  BY DEF Books
<1> HIDE DEF d
<1>2. d[x] # None
  BY <1>1 DEF Given
<1>3. \A m \in Loc : Held(d, m)[x] = row[m]
  BY <1>1, <1>2, HeldType
<1>4. \A m \in Loc : Total(d)[m] = Total(b)[m] - Held(b, m)[x] + row[m]
  <2> TAKE m \in Loc
  <2>1. Total(d)[m] = Total(b)[m] - Held(b, m)[x] + Held(d, m)[x]
    BY <1>1, TotalChange
  <2> QED
    BY <1>3, <2>1
<1>5. Rows(d) # {}
  BY <1>2 DEF Rows
<1> QED
  BY <1>1, <1>4, <1>5 DEF d

-----------------------------------------------------------------------------
(* The inductive invariant.                                                *)

Cancels(c) == call[c].entry.of
Waiting(c) == Within(c, {"fetch", "write", "delete", "create", "log"})
Planning(k) == k.pc \in {"fetch", "write"} /\ ~k.old
Wrote(c) == Within(c, {"delete", "create"})

\* What a handler carries: an edit no movement, a cancellation the reverse of the
\* earlier movement it cancels; what it has yet to create is among what it writes.
CallFits(k) ==
  /\ k.pc = "idle" => k = Idle
  /\ k.edit => k.pc \in {"write", "delete", "create"} /\ k.entry.of = 0 /\ k.entry.prev = None
  /\ k.edit /\ k.pc = "write" => k.tracked /\ Rows(k.nextB) # {} /\ k.next = Total(k.nextB)
  /\ k.pc \in {"till", "fetch"} => ~k.tracked
  /\ k.pc \in {"delete", "create"} => Rows(k.nextB) # {}
  /\ k.pc = "create" => k.todo # {} /\ k.todo \subseteq Rows(k.nextB)
  /\ k.pc = "till" => k.entry.of = 0 /\ k.entry.prev = None /\ k.entry.eff["depo"] = 0
  /\ k.pc = "mark" => k.entry.of # 0
  /\ ~k.entry.cancelled /\ k.entry.at <= clock
CancelFits(k) ==
  k.entry.of # 0 =>
    /\ k.entry.of \in DOMAIN log /\ log[k.entry.of].of = 0 /\ k.entry.at > log[k.entry.of].at
    /\ k.entry.eff = Reverse(log[k.entry.of].eff) /\ k.entry.prev = None
Types == TypeOK /\ \A c \in Calls : CallFits(call[c]) /\ CancelFits(call[c])

\* A cancellation names an earlier movement that is none; what is marked, or about to
\* be, has its cancellation in the log.
EntryFits(i) ==
  /\ log[i].at <= clock
  /\ log[i].of # 0 => /\ log[i].of \in DOMAIN log /\ log[log[i].of].of = 0
                      /\ log[i].of < i /\ log[i].at > log[log[i].of].at
  /\ log[i].cancelled => log[i].of = 0 /\ \E j \in DOMAIN log : log[j].of = i
Entries ==
  /\ \A i \in DOMAIN log : EntryFits(i)
  /\ \A c \in Calls : At(c, "mark") => \E j \in DOMAIN log : log[j].of = Cancels(c)

\* What a handler is about to write follows from what is stored, as long as nobody
\* wrote since it read.
PlansMovement(k) ==
  /\ k.next = Shift(stock, k.entry.eff)
  /\ k.tracked => Rows(k.nextB) = {} \/ Total(k.nextB) = Shift(Total(batch), k.entry.eff)
  /\ k.entry.prev # None => k.entry.prev = batch /\ (k.entry.covered => Covered)
PlansCancel(k) ==
  LET m == log[k.entry.of] IN
  /\ m.prev # None => k.tracked /\ k.nextB = m.prev /\ k.next = Total(m.prev)
  /\ m.prev = None => ~k.tracked /\ k.next = Shift(stock, k.entry.eff)
Planned(k) ==
  Planning(k) /\ ~k.edit =>
    (k.entry.of = 0 => PlansMovement(k)) /\ (k.entry.of # 0 => PlansCancel(k))

\* Nobody writes meanwhile; a cancellation has no other on its way to the log.
Undisturbed(c) ==
  Planning(call[c]) /\ (At(c, "write") \/ call[c].entry.prev # None \/ Cancels(c) # 0) => ~Midway(c)
Calm(c) ==
  Planning(call[c]) /\ Cancels(c) # 0 =>
    /\ IsLatest(Cancels(c))
    /\ \A d \in Calls \ {c} : ~Within(d, {"delete", "create", "log", "mark"})
Plans ==
  /\ \A c \in Calls : Undisturbed(c)
  /\ Free({"raced"}) => \A c \in Calls : Planned(call[c]) /\ Calm(c)

\* Only one handler is between its writes and has seen no other write.
Fresh(c) == Within(c, {"delete", "create", "log"}) /\ ~call[c].old
FreshOne ==
  \A c, d \in Calls : Fresh(c) /\ Fresh(d) => c = d
\* The batches stored are some of those its handler writes, and these fit in the row.
Halfway ==
  /\ Free({"raced"}) => \A c, d \in Calls : Wrote(c) /\ Wrote(d) => c = d
  /\ Free({"raced"}) => \A c \in Calls : At(c, "create") =>
       \A x \in Batches : batch[x] \in {None, call[c].nextB[x]}
  /\ Free({"raced", "loose", "kept"}) => \A c \in Calls : Wrote(c) =>
       \A l \in Loc : Total(call[c].nextB)[l] <= stock[l]

\* The batches a movement keeps make up the row without its effect, without what was
\* missed since, and without what is still to be logged.
TookFrom(e, eff) ==
  e.of = 0 /\ e.prev # None /\ e.covered =>
    \A l \in Loc : Total(e.prev)[l] = stock[l] - e.eff[l] - (missed[l] - e.missed[l]) - eff[l]
Took ==
  Free({"raced"}) => \A c \in Calls : Pending(c) /\ ~call[c].old => TookFrom(call[c].entry, Empty)
LastTook ==
  Free({"raced", "edited", "backdated"}) /\ log # <<>> /\ (\A c \in Unlogged : ~call[c].old) =>
    /\ Unlogged = {} => TookFrom(log[Len(log)], Empty)
    /\ \A c \in Unlogged : TookFrom(log[Len(log)], call[c].entry.eff)

\* Nobody cancels what another does, or did.
OnceEach ==
  Free({"raced"}) =>
    /\ \A c, d \in Calls : c # d /\ Cancels(c) # 0 => Cancels(c) # Cancels(d)
    /\ \A c \in Calls : Cancels(c) # 0 /\ Waiting(c) => \A i \in DOMAIN log : log[i].of # Cancels(c)

IInv ==
  /\ Types /\ Entries /\ Plans /\ FreshOne /\ Halfway /\ Took /\ LastTook /\ OnceEach
  /\ BatchesWithinRow /\ LogExplainsRow /\ CancelledOnceUnlessRaced
-----------------------------------------------------------------------------
(* What the steps have in common.                                          *)

Flags == {"raced", "loose", "kept", "uncovered", "edited", "backdated", "unmarked"}
Owed(l) == [c \in Unlogged |-> call[c].entry.eff[l]]
Logged(l) == [i \in DOMAIN log |-> log[i].eff[l]]

\* More may have happened: what needs less to have happened still does.
LEMMA FreeShrinks ==
  ASSUME drift \subseteq drift', NEW F, Free(F)'
  PROVE  Free(F)
BY DEF Free

\* The row keeps its explanation when the same movements explain it.
LEMMA ExplainedStill ==
  ASSUME LogExplainsRow, drift \subseteq drift', opening' = opening, missed' = missed,
         Free({"raced", "uncovered", "edited", "backdated"})' => stock' = stock,
         \A l \in Loc : Owed(l)' = Owed(l), \A l \in Loc : Logged(l)' = Logged(l)
  PROVE  LogExplainsRow'
<1> SUFFICES ASSUME Free({"raced", "uncovered", "edited", "backdated"})', NEW l \in Loc
             PROVE  stock'[l] = opening'[l] + SumFunction(Logged(l)') + SumFunction(Owed(l)')
                                  + missed'[l]
  BY DEF LogExplainsRow, Logged, Owed
<1>1. Free({"raced", "uncovered", "edited", "backdated"})
  BY FreeShrinks
<1>2. stock[l] = opening[l] + SumFunction(Logged(l)) + SumFunction(Owed(l)) + missed[l]
  BY <1>1 DEF LogExplainsRow, Logged, Owed
<1> QED
  BY <1>2

\* The handlers between their writes: finitely many, each with a whole number.
LEMMA OwedType ==
  ASSUME Given, TypeOK, NEW l \in Loc
  PROVE  /\ IsFiniteSet(Unlogged) /\ Owed(l) \in [Unlogged -> Int]
         /\ SumFunction(Owed(l)) \in Int
<1>1. IsFiniteSet(Unlogged)
  <2>1. Unlogged \subseteq Calls /\ IsFiniteSet(Calls)
    BY DEF Unlogged, Given
  <2> QED
    BY <2>1, FS_Subset
<1>2. Owed(l) \in [Unlogged -> Int]
  BY DEF Owed, Unlogged, TypeOK, Call, Entry
<1> QED
  BY <1>1, <1>2, SumType

\* The effects of the movements on a location have a sum.
LEMMA LoggedType ==
  ASSUME TypeOK, NEW l \in Loc
  PROVE  /\ IsFiniteSet(DOMAIN log) /\ Logged(l) \in [DOMAIN log -> Int]
         /\ SumFunction(Logged(l)) \in Int
<1>1. IsFiniteSet(DOMAIN log)
  <2>1. DOMAIN log = 1..Len(log) /\ Len(log) \in Nat
    BY DEF TypeOK
  <2> QED
    BY <2>1, FS_Interval
<1>2. Logged(l) \in [DOMAIN log -> Int]
  <2>1. \A i \in DOMAIN log : log[i] \in Entry
    BY DEF TypeOK
  <2> QED
    BY <2>1 DEF Logged, Entry
<1> QED
  BY <1>1, <1>2, SumType

\* A log, and the sum of its effects.
IsLog(s) == s \in Seq(Entry)
Logs(s, l) == SumFunction([i \in DOMAIN s |-> s[i].eff[l]])

\* A log that grows by one movement grows by its effect.
LEMMA LogsGrows ==
  ASSUME NEW s, IsLog(s), NEW e \in Entry, NEW l \in Loc
  PROVE  Logs(Append(s, e), l) = Logs(s, l) + e.eff[l] /\ Logs(s, l) \in Int
<1> DEFINE n == Len(s) + 1
           D == DOMAIN s
           f == [i \in DOMAIN s |-> s[i].eff[l]]
           g == [i \in DOMAIN Append(s, e) |-> Append(s, e)[i].eff[l]]
<1>1. /\ DOMAIN Append(s, e) = DOMAIN s \cup {n} /\ n \notin DOMAIN s
      /\ Append(s, e)[n] = e /\ \A i \in DOMAIN s : Append(s, e)[i] = s[i]
      /\ Append(s, e) \in Seq(Entry)
  BY DEF IsLog
<1>2. IsFiniteSet(D)
  <2>1. DOMAIN s = 1..Len(s) /\ Len(s) \in Nat
    BY DEF IsLog
  <2> QED
    BY <2>1, FS_Interval
<1>3. f \in [D -> Int]
  <2>1. \A i \in DOMAIN s : s[i] \in Entry
    BY DEF IsLog
  <2> QED
    BY <2>1 DEF Entry
<1>4. g \in [D \cup {n} -> Int]
  <2>1. \A i \in DOMAIN Append(s, e) : Append(s, e)[i] \in Entry
    BY <1>1
  <2> QED
    BY <1>1, <2>1 DEF Entry
<1>5. (\A i \in D : f[i] = g[i]) /\ g[n] = e.eff[l] /\ n \notin D
  BY <1>1
<1>6. Logs(s, l) = SumFunction(f) /\ Logs(Append(s, e), l) = SumFunction(g)
  BY DEF Logs
<1> HIDE DEF f, g, n, D
<1>7. SumFunction(g) = SumFunction(f) + g[n]
  <2>1. /\ IsFiniteSet(D) /\ f \in [D -> Int] /\ n \notin D /\ g \in [D \cup {n} -> Int]
        /\ \A i \in D : f[i] = g[i]
    BY <1>2, <1>3, <1>4, <1>5
  <2> QED
    BY <2>1, SumGrows
<1>8. SumFunction(f) \in Int
  BY <1>2, <1>3, SumType
<1> QED
  BY <1>5, <1>6, <1>7, <1>8

\* A new movement adds its effect.
LEMMA LoggedGrows ==
  ASSUME TypeOK, NEW e \in Entry, log' = Append(log, e), NEW l \in Loc
  PROVE  SumFunction(Logged(l)') = SumFunction(Logged(l)) + e.eff[l]
<1>1. IsLog(log)
  BY DEF IsLog, TypeOK
<1>2. Logs(Append(log, e), l) = Logs(log, l) + e.eff[l]
  BY <1>1, LogsGrows
<1>3. SumFunction(Logged(l)') = Logs(Append(log, e), l) /\ SumFunction(Logged(l)) = Logs(log, l)
  BY DEF Logged, Logs
<1> QED
  BY <1>2, <1>3

\* A handler and its movement have their types, and so has the idle one.
LEMMA CallType ==
  ASSUME NEW k \in Call
  PROVE  /\ k.entry \in Entry /\ k.entry.eff \in [Loc -> Int] /\ k.entry.missed \in [Loc -> Int]
         /\ k.entry.of \in Nat /\ k.entry.at \in Nat /\ k.nextB \in Books /\ k.next \in Row
         /\ k.entry.prev \in Books \cup {None} /\ k.todo \in SUBSET Batches
         /\ k.edit \in BOOLEAN /\ k.tracked \in BOOLEAN /\ k.old \in BOOLEAN
         /\ k.entry.covered \in BOOLEAN /\ k.entry.cancelled \in BOOLEAN
<1>1. k.entry \in Entry /\ k.nextB \in Books /\ k.next \in Row /\ k.todo \in SUBSET Batches
      /\ k.edit \in BOOLEAN /\ k.tracked \in BOOLEAN /\ k.old \in BOOLEAN
  BY DEF Call
<1>2. PICK e \in Entry : e = k.entry
  BY <1>1
<1>3. /\ e.eff \in [Loc -> Int] /\ e.missed \in [Loc -> Int] /\ e.of \in Nat /\ e.at \in Nat
      /\ e.prev \in Books \cup {None} /\ e.covered \in BOOLEAN /\ e.cancelled \in BOOLEAN
  BY DEF Entry
<1> QED
  BY <1>1, <1>2, <1>3

\* A free slot carries nothing and plans nothing.
LEMMA IdleType ==
  /\ NoEntry \in Entry /\ NoEntry.of = 0 /\ NoEntry.at = 0 /\ ~NoEntry.cancelled
  /\ NoEntry.prev = None /\ ~NoEntry.covered
  /\ Idle \in Call /\ Idle.pc = "idle" /\ Idle.entry = NoEntry /\ ~Idle.edit /\ ~Idle.old
  /\ ~Idle.tracked
<1>1. Empty \in [Loc -> Int] /\ Empty \in Row /\ NoBooks \in Books
  BY EmptyType, RowIsInt
<1>2. /\ NoEntry \in Entry /\ NoEntry.of = 0 /\ NoEntry.at = 0 /\ ~NoEntry.cancelled
      /\ NoEntry.prev = None /\ ~NoEntry.covered
  BY <1>1 DEF NoEntry, Entry
<1>3. /\ Idle \in Call /\ Idle.pc = "idle" /\ Idle.entry = NoEntry /\ ~Idle.edit /\ ~Idle.old
      /\ ~Idle.tracked
  BY <1>1, <1>2 DEF Idle, Call
<1> QED
  BY <1>2, <1>3

\* An idle handler fits.
LEMMA IdleFits ==
  ASSUME NEW c, call'[c] = Idle, clock' \in Nat
  PROVE  CallFits(call[c])' /\ CancelFits(call[c])'
BY IdleType DEF CallFits, CancelFits

-----------------------------------------------------------------------------
(* The steps of one handler that write neither row nor log.                *)

Beside(c) == call' \in [Calls -> Call] /\ \A d \in Calls \ {c} : call'[d] = call[d]

\* What the handler still owes the log stays.
Carries(c) ==
  /\ call'[c].entry.eff = call[c].entry.eff /\ call'[c].entry.of = call[c].entry.of
  /\ call'[c].entry.prev = call[c].entry.prev /\ call'[c].entry.covered = call[c].entry.covered
  /\ call'[c].entry.missed = call[c].entry.missed
  /\ call'[c].old = call[c].old

\* The handler changes, no other, and nothing that is stored but the batches.
Inward(c) ==
  /\ Beside(c) /\ UNCHANGED <<stock, log, missed, opening>>
  /\ batch' \in Books /\ clock' \in Nat /\ clock <= clock' /\ served' \in Nat /\ stops' \in Nat
  /\ drift' \subseteq Flags /\ drift \subseteq drift'
  /\ ~At(c, "mark") /\ ~At(c, "mark")'
  /\ CallFits(call[c])' /\ CancelFits(call[c])'

\* Such a step keeps the types and the log,
LEMMA InwardTypes ==
  ASSUME Given, IInv, NEW c \in Calls, Inward(c)
  PROVE  Types' /\ Entries'
<1>1. /\ TypeOK /\ call' \in [Calls -> Call] /\ \A d \in Calls \ {c} : call'[d] = call[d]
      /\ log' = log /\ clock \in Nat /\ clock' \in Nat /\ clock <= clock'
  BY DEF IInv, Types, TypeOK, Inward, Beside
<1>2. TypeOK'
  BY <1>1 DEF TypeOK, Inward, Flags
<1>3. ASSUME NEW d \in Calls PROVE CallFits(call[d])' /\ CancelFits(call[d])'
  <2>1. CASE d = c
    BY <2>1 DEF Inward
  <2>2. CASE d # c
    <3>1. CallFits(call[d]) /\ CancelFits(call[d]) /\ call'[d] = call[d] /\ call[d] \in Call
      BY <1>1, <2>2 DEF IInv, Types, TypeOK
    <3>2. call[d].entry.at \in Nat
      BY <3>1, CallType
    <3>3. call[d].entry.at <= clock => call[d].entry.at <= clock'
      BY <1>1, <3>2
    <3>4. CallFits(call[d])'
      BY <3>1, <3>3 DEF CallFits
    <3> QED
      BY <1>1, <3>1, <3>4 DEF CancelFits
  <2> QED
    BY <2>1, <2>2
<1>4. Types'
  BY <1>2, <1>3 DEF Types
<1>5. ASSUME NEW i \in DOMAIN log' PROVE EntryFits(i)'
  <2>1. EntryFits(i) /\ log[i] \in Entry
    BY <1>1 DEF IInv, Entries, TypeOK
  <2>2. log[i].at \in Nat
    BY <2>1 DEF Entry
  <2>3. log[i].at <= clock'
    BY <1>1, <2>1, <2>2 DEF EntryFits
  <2> QED
    BY <1>1, <2>1, <2>3 DEF EntryFits
<1>6. ASSUME NEW d \in Calls, At(d, "mark")'
      PROVE  \E j \in DOMAIN log' : log'[j].of = Cancels(d)'
  <2>1. d # c
    BY <1>6 DEF Inward
  <2>2. call'[d] = call[d]
    BY <1>1, <2>1
  <2>3. At(d, "mark") /\ Cancels(d)' = Cancels(d)
    BY <1>6, <2>2 DEF At, Cancels
  <2> QED
    BY <1>1, <2>3 DEF IInv, Entries
<1>7. Entries'
  BY <1>5, <1>6 DEF Entries
<1> QED
  BY <1>4, <1>7

\* ... and, if the handler owes the log what it owed, all that is said of that.
LEMMA InwardOwes ==
  ASSUME Given, IInv, NEW c \in Calls, Inward(c),
         Pending(c)' <=> Pending(c), Pending(c) => Carries(c), Fresh(c)' => Fresh(c)
  PROVE  FreshOne' /\ Took' /\ LastTook' /\ LogExplainsRow' /\ CancelledOnceUnlessRaced'
<1>1. /\ call' \in [Calls -> Call] /\ \A d \in Calls \ {c} : call'[d] = call[d]
      /\ UNCHANGED <<stock, log, missed, opening>> /\ drift \subseteq drift'
      /\ ~At(c, "mark") /\ ~At(c, "mark")'
  BY DEF Inward, Beside
<1>2. \A d \in Calls \ {c} : /\ Pending(d)' <=> Pending(d)
                             /\ Fresh(d)' <=> Fresh(d)
                             /\ At(d, "mark")' <=> At(d, "mark")
  BY <1>1 DEF Pending, Fresh, At, Within
<1>3. Unlogged' = Unlogged
  BY <1>2 DEF Unlogged
<1>4. ASSUME NEW d \in Calls, Pending(d) PROVE Carries(d)
  BY <1>1, <1>4 DEF Carries
<1>5. FreshOne'
  <2>1. \A d \in Calls : Fresh(d)' => Fresh(d)
    BY <1>2
  <2> QED
    BY <2>1 DEF FreshOne, IInv
<1>6. Took'
  <2> SUFFICES ASSUME Free({"raced"})', NEW d \in Calls, Pending(d)', ~call'[d].old
               PROVE  TookFrom(call[d].entry, Empty)'
    BY DEF Took
  <2>1. Pending(d) /\ Carries(d)
    BY <1>2, <1>4
  <2>2. Free({"raced"}) /\ ~call[d].old
    BY <1>1, <2>1, FreeShrinks DEF Carries
  <2>3. TookFrom(call[d].entry, Empty)
    BY <2>1, <2>2 DEF IInv, Took
  <2> QED
    BY <1>1, <2>1, <2>3 DEF TookFrom, Carries
<1>7. LastTook'
  <2> SUFFICES ASSUME Free({"raced", "edited", "backdated"})', log # <<>>,
                      \A d \in Unlogged : ~call'[d].old
               PROVE  /\ Unlogged = {} => TookFrom(log[Len(log)], Empty)'
                      /\ \A d \in Unlogged : TookFrom(log[Len(log)], call[d].entry.eff)'
    BY <1>1, <1>3 DEF LastTook
  <2>1. \A d \in Unlogged : Carries(d) /\ d \in Calls
    BY <1>4 DEF Unlogged
  <2>2. Free({"raced", "edited", "backdated"}) /\ \A d \in Unlogged : ~call[d].old
    BY <1>1, <2>1, FreeShrinks DEF Carries
  <2>3. /\ Unlogged = {} => TookFrom(log[Len(log)], Empty)
        /\ \A d \in Unlogged : TookFrom(log[Len(log)], call[d].entry.eff)
    BY <2>2 DEF IInv, LastTook
  <2>4. Unlogged = {} => TookFrom(log[Len(log)], Empty)'
    BY <1>1, <2>3 DEF TookFrom
  <2>5. ASSUME NEW d \in Unlogged PROVE TookFrom(log[Len(log)], call[d].entry.eff)'
    <3>1. call'[d].entry.eff = call[d].entry.eff
      BY <2>1 DEF Carries
    <3>2. TookFrom(log[Len(log)], call[d].entry.eff)
      BY <2>3
    <3> QED
      BY <1>1, <3>1, <3>2 DEF TookFrom
  <2> QED
    BY <2>4, <2>5
<1>8. LogExplainsRow'
  <2>1. \A l \in Loc : Owed(l)' = Owed(l)
    <3>1. \A d \in Unlogged : call'[d].entry.eff = call[d].entry.eff
      BY <1>4 DEF Unlogged, Carries
    <3> QED
      BY <1>3, <3>1 DEF Owed
  <2>2. \A l \in Loc : Logged(l)' = Logged(l)
    BY <1>1 DEF Logged
  <2> QED
    BY <1>1, <2>1, <2>2, ExplainedStill DEF IInv
<1>9. CancelledOnceUnlessRaced'
  <2> SUFFICES ASSUME Free({"raced"})', NEW i \in DOMAIN log, NEW j \in DOMAIN log, log[i].of # 0
               PROVE  /\ log[j].of = log[i].of => i = j
                      /\ \/ log[log[i].of].cancelled \/ ~Free({"unmarked"})'
                         \/ \E d \in Calls : At(d, "mark")' /\ call'[d].entry.of = log[i].of
    BY <1>1 DEF CancelledOnceUnlessRaced
  <2>1. Free({"raced"}) /\ (Free({"unmarked"})' => Free({"unmarked"}))
    BY <1>1, FreeShrinks
  <2>2. /\ log[j].of = log[i].of => i = j
        /\ \/ log[log[i].of].cancelled \/ ~Free({"unmarked"})
           \/ \E d \in Calls : At(d, "mark") /\ call[d].entry.of = log[i].of
    BY <2>1 DEF IInv, CancelledOnceUnlessRaced
  <2>3. (\E d \in Calls : At(d, "mark") /\ call[d].entry.of = log[i].of)
          => \E d \in Calls : At(d, "mark")' /\ call'[d].entry.of = log[i].of
    BY <1>1, <1>2
  <2> QED
    BY <2>1, <2>2, <2>3
<1> QED
  BY <1>5, <1>6, <1>7, <1>8, <1>9

\* What it cancels is what it did, or nothing, or what no other cancels or did.
LEMMA InwardOnce ==
  ASSUME Given, IInv, NEW c \in Calls, Inward(c),
         \/ Cancels(c)' = 0
         \/ Cancels(c)' = Cancels(c) /\ (Waiting(c)' => Waiting(c))
         \/ Free({"raced"})' =>
              /\ \A d \in Calls \ {c} : Cancels(d) # Cancels(c)'
              /\ \A i \in DOMAIN log : log[i].of # Cancels(c)'
  PROVE  OnceEach'
<1>1. /\ \A d \in Calls \ {c} : call'[d] = call[d]
      /\ log' = log /\ drift \subseteq drift'
  BY DEF Inward, Beside
<1> SUFFICES ASSUME Free({"raced"})'
             PROVE  /\ \A d, e \in Calls : d # e /\ Cancels(d)' # 0 => Cancels(d)' # Cancels(e)'
                    /\ \A d \in Calls : Cancels(d)' # 0 /\ Waiting(d)' =>
                         \A i \in DOMAIN log : log[i].of # Cancels(d)'
  BY <1>1 DEF OnceEach
<1>2. /\ \A d, e \in Calls : d # e /\ Cancels(d) # 0 => Cancels(d) # Cancels(e)
      /\ \A d \in Calls : Cancels(d) # 0 /\ Waiting(d) =>
           \A i \in DOMAIN log : log[i].of # Cancels(d)
  <2>1. Free({"raced"})
    BY <1>1, FreeShrinks
  <2> QED
    BY <2>1 DEF IInv, OnceEach
<1>3. \A d \in Calls \ {c} : Cancels(d)' = Cancels(d) /\ (Waiting(d)' <=> Waiting(d))
  BY <1>1 DEF Cancels, Waiting, Within
<1>4. \A d, e \in Calls : d # e /\ Cancels(d)' # 0 => Cancels(d)' # Cancels(e)'
  BY <1>2, <1>3
<1>5. \A d \in Calls : Cancels(d)' # 0 /\ Waiting(d)' =>
        \A i \in DOMAIN log : log[i].of # Cancels(d)'
  BY <1>2, <1>3
<1> QED
  BY <1>4, <1>5

\* A handler that is not between its writes, and only reads.
Reads(c) ==
  /\ Inward(c) /\ batch' = batch
  /\ Within(c, {"idle", "till", "fetch"}) /\ Within(c, {"till", "fetch", "write"})'

\* Such a step keeps the invariant if what the handler plans fits what is stored, and if
\* it cancels, nobody else cancels the same or did.
LEMMA Reading ==
  ASSUME Given, IInv, NEW c \in Calls, Reads(c),
         Undisturbed(c)', Free({"raced"})' => Planned(call[c])' /\ Calm(c)',
         \/ Cancels(c)' = 0
         \/ Cancels(c)' = Cancels(c) /\ (Waiting(c)' => Waiting(c))
         \/ Free({"raced"})' =>
              /\ \A d \in Calls \ {c} : Cancels(d) # Cancels(c)'
              /\ \A i \in DOMAIN log : log[i].of # Cancels(c)'
  PROVE  IInv'
<1>1. /\ Inward(c) /\ call' \in [Calls -> Call] /\ \A d \in Calls \ {c} : call'[d] = call[d]
      /\ UNCHANGED <<stock, batch, log, missed>> /\ drift \subseteq drift'
  BY DEF Reads, Inward, Beside
<1>2. /\ ~Pending(c) /\ ~Pending(c)' /\ ~Fresh(c)' /\ ~Wrote(c) /\ ~Wrote(c)'
      /\ ~At(c, "delete") /\ ~At(c, "delete")' /\ ~At(c, "create")'
      /\ ~Within(c, {"delete", "create", "log", "mark"})
      /\ ~Within(c, {"delete", "create", "log", "mark"})'
  BY DEF Reads, Pending, Fresh, Wrote, Within, At
<1>3. Types' /\ Entries'
  BY <1>1, InwardTypes
<1>4. FreshOne' /\ Took' /\ LastTook' /\ LogExplainsRow' /\ CancelledOnceUnlessRaced'
  BY <1>1, <1>2, InwardOwes
<1>5. OnceEach'
  BY <1>1, InwardOnce
<1>6. \A d \in Calls : /\ Wrote(d)' <=> Wrote(d)
                       /\ At(d, "delete")' <=> At(d, "delete")
                       /\ At(d, "create")' => At(d, "create") /\ call'[d] = call[d]
                       /\ Wrote(d) => call'[d] = call[d]
                       /\ Within(d, {"delete", "create", "log", "mark"})'
                            <=> Within(d, {"delete", "create", "log", "mark"})
  BY <1>1, <1>2 DEF Wrote, At, Within
<1>7. \A F : Free(F)' => Free(F)
  BY <1>1, FreeShrinks
<1>8. Plans'
  <2>1. ASSUME NEW d \in Calls PROVE Undisturbed(d)'
    <3>1. Midway(d)' <=> Midway(d)
      BY <1>6 DEF Midway, Wrote
    <3>2. CASE d # c
      <4>1. Undisturbed(d) /\ call'[d] = call[d]
        BY <1>1, <3>2 DEF IInv, Plans
      <4> QED
        BY <3>1, <4>1 DEF Undisturbed, Cancels, At
    <3> QED
      BY <3>2
  <2>2. ASSUME Free({"raced"})', NEW d \in Calls PROVE Planned(call[d])' /\ Calm(d)'
    <3>1. CASE d # c
      <4>1. Planned(call[d]) /\ Calm(d) /\ call'[d] = call[d]
        BY <1>1, <1>7, <2>2, <3>1 DEF IInv, Plans
      <4>2. Planned(call[d])'
        BY <1>1, <4>1 DEF Planned, PlansMovement, PlansCancel, Covered
      <4>3. Calm(d)'
        BY <1>1, <1>6, <4>1 DEF Calm, Cancels, IsLatest
      <4> QED
        BY <4>2, <4>3
    <3> QED
      BY <2>2, <3>1
  <2> QED
    BY <2>1, <2>2 DEF Plans
<1>9. Halfway'
  <2>1. Free({"raced"})' => \A d, e \in Calls : Wrote(d)' /\ Wrote(e)' => d = e
    BY <1>6, <1>7 DEF IInv, Halfway
  <2>2. ASSUME Free({"raced"})', NEW d \in Calls, At(d, "create")', NEW x \in Batches
        PROVE  batch'[x] \in {None, call'[d].nextB[x]}
    BY <1>1, <1>6, <1>7, <2>2 DEF IInv, Halfway
  <2>3. ASSUME Free({"raced", "loose", "kept"})', NEW d \in Calls, Wrote(d)', NEW l \in Loc
        PROVE  Total(call'[d].nextB)[l] <= stock'[l]
    BY <1>1, <1>6, <1>7, <2>3 DEF IInv, Halfway
  <2> QED
    BY <2>1, <2>2, <2>3 DEF Halfway
<1>10. BatchesWithinRow'
  BY <1>1, <1>6, <1>7 DEF IInv, BatchesWithinRow
<1> QED
  BY <1>3, <1>4, <1>5, <1>8, <1>9, <1>10 DEF IInv

-----------------------------------------------------------------------------
(* The requests that read.                                                 *)

\* A request may begin if what it is to write fits what is stored.
LEMMA Entering ==
  ASSUME Given, IInv, NEW c \in Calls, Ready(c),
         NEW k \in Call, call' = [call EXCEPT ![c] = k], k.pc \in {"till", "fetch", "write"},
         ~k.old /\ k.pc # "till" => ~Midway(c),
         UNCHANGED <<stock, batch, log, stops, opening, missed>>, clock' \in {clock, clock + 1},
         drift' \subseteq Flags, drift \subseteq drift',
         CallFits(k)', CancelFits(k)',
         Free({"raced"})' => Planned(k)' /\ (k.entry.of # 0 =>
           /\ IsLatest(k.entry.of)
           /\ \A d \in Calls \ {c} : ~Within(d, {"delete", "create", "log", "mark"})
           /\ \A d \in Calls \ {c} : Cancels(d) # k.entry.of
           /\ \A i \in DOMAIN log : log[i].of # k.entry.of)
  PROVE  IInv'
<1>1. /\ TypeOK /\ call[c].pc = "idle"
      /\ call' \in [Calls -> Call] /\ call'[c] = k /\ \A d \in Calls \ {c} : call'[d] = call[d]
  BY DEF IInv, Types, TypeOK, Ready, At
<1>2. clock \in Nat /\ clock' \in Nat /\ clock <= clock' /\ served' \in Nat
  BY <1>1 DEF TypeOK, Ready, Room
<1>3. Inward(c)
  BY <1>1, <1>2 DEF Inward, Beside, At, TypeOK
<1>4. Reads(c)
  BY <1>1, <1>3 DEF Reads, Within
<1>5. \A pcs : \A d \in Calls \ {c} : Within(d, pcs)' <=> Within(d, pcs)
  BY <1>1 DEF Within
<1>6. Undisturbed(c)'
  <2>1. Midway(c)' <=> Midway(c)
    BY <1>5 DEF Midway
  <2> QED
    BY <1>1, <2>1 DEF Undisturbed, Planning
<1>7. Cancels(c)' = k.entry.of
  BY <1>1 DEF Cancels
<1>8. ASSUME Free({"raced"})' PROVE Planned(call[c])' /\ Calm(c)'
  <2>1. Planned(call[c])'
    BY <1>1, <1>8
  <2>2. Cancels(c)' # 0 =>
          /\ IsLatest(Cancels(c))'
          /\ \A d \in Calls \ {c} : ~Within(d, {"delete", "create", "log", "mark"})'
    BY <1>5, <1>7, <1>8 DEF IsLatest
  <2> QED
    BY <2>1, <2>2 DEF Calm
<1>9. \/ Cancels(c)' = 0
      \/ Free({"raced"})' =>
           /\ \A d \in Calls \ {c} : Cancels(d) # Cancels(c)'
           /\ \A i \in DOMAIN log : log[i].of # Cancels(c)'
  BY <1>7
<1> QED
  BY <1>4, <1>6, <1>8, <1>9, Reading

\* What the helpers promise of a movement that is not a cancellation.
LEMMA EnteringMovement ==
  ASSUME Given, IInv, NEW c \in Calls, Ready(c), UNCHANGED <<clock, drift>>,
         NEW tracked \in BOOLEAN, NEW next \in Row, NEW nextB \in Books,
         NEW eff \in [Loc -> Int],
         Accept(c, tracked, next, nextB, Movement(eff)),
         next = Shift(stock, eff),
         tracked => Rows(nextB) = {} \/ Total(nextB) = Shift(Total(batch), eff)
  PROVE  IInv'
<1> DEFINE e == [Movement(eff) EXCEPT !.covered = Covered]
<1>0. PICK k, old : /\ old = Midway(c)
                    /\ k = [Idle EXCEPT !.pc = IF tracked THEN "write" ELSE "fetch",
                                !.tracked = tracked, !.old = old, !.next = next,
                                !.nextB = nextB, !.entry = e]
  OBVIOUS
<1>1. TypeOK /\ clock' \in Nat /\ clock' \in {clock, clock + 1}
  BY DEF IInv, Types, TypeOK
<1>2. /\ e \in Entry /\ e.of = 0 /\ e.eff = eff /\ e.prev = batch /\ ~e.cancelled
      /\ e.covered = Covered /\ e.at = 0
  BY <1>1, EmptyType, RowIsInt DEF Movement, NoEntry, Entry, TypeOK, Covered
<1> HIDE DEF e
<1>3. old \in BOOLEAN
  BY <1>0 DEF Midway
<1>4. /\ k \in Call /\ (k.pc = IF tracked THEN "write" ELSE "fetch") /\ k.old = old /\ ~k.edit
      /\ k.entry = e /\ k.next = next /\ k.nextB = nextB /\ k.tracked = tracked
  BY <1>0, <1>2, <1>3 DEF Idle, Call
<1>5. /\ call' = [call EXCEPT ![c] = k]
      /\ UNCHANGED <<stock, batch, log, stops, opening, missed>>
  BY <1>0 DEF Accept, e
<1>6. CallFits(k)' /\ CancelFits(k)'
  BY <1>1, <1>2, <1>4 DEF CallFits, CancelFits
<1>7. Planned(k)'
  BY <1>2, <1>4, <1>5 DEF Planned, PlansMovement, Covered
<1>8. drift' \subseteq Flags /\ drift \subseteq drift' /\ k.entry.of = 0
      /\ k.pc \in {"till", "fetch", "write"} /\ (~k.old /\ k.pc # "till" => ~Midway(c))
  BY <1>0, <1>1, <1>2, <1>4 DEF TypeOK, Flags
<1> QED
  BY <1>1, <1>4, <1>5, <1>6, <1>7, <1>8, Entering

\* The effect of a movement on one location.
LEMMA EffectIs ==
  ASSUME NEW l \in Loc, NEW q \in Int
  PROVE  /\ Effect(l, q) \in [Loc -> Int]
         /\ \A m \in Loc : Effect(l, q)[m] = IF m = l THEN q ELSE 0
BY DEF Effect, Add, Empty

\* A row to which a quantity is added is the row shifted by the effect of that.
LEMMA AddIsShift ==
  ASSUME NEW row \in Row, NEW l \in Loc, NEW q \in Int, row[l] + q >= 0
  PROVE  Add(row, l, q) \in Row /\ Add(row, l, q) = Shift(row, Effect(l, q))
<1>1. Effect(l, q) \in [Loc -> Int] /\ \A m \in Loc : Effect(l, q)[m] = IF m = l THEN q ELSE 0
  BY EffectIs
<1>2. /\ Add(row, l, q) \in [Loc -> Int]
      /\ \A m \in Loc : Add(row, l, q)[m] = IF m = l THEN row[m] + q ELSE row[m]
  BY AddType, RowIsInt
<1>3. \A m \in Loc : row[m] \in Nat
  BY DEF Row
<1>4. Add(row, l, q) \in Row
  BY <1>2, <1>3 DEF Row
<1>5. \A m \in Loc : Add(row, l, q)[m] = row[m] + Effect(l, q)[m]
  BY <1>1, <1>2, <1>3
<1>6. Add(row, l, q) = Shift(row, Effect(l, q))
  BY <1>2, <1>5 DEF Shift
<1> QED
  BY <1>4, <1>6

\* Totals that differ by an effect at each location differ by the effect.
LEMMA TotalIsShift ==
  ASSUME Given, NEW b \in Books, NEW d \in Books, NEW eff,
         \A l \in Loc : Total(d)[l] = Total(b)[l] + eff[l]
  PROVE  Total(d) = Shift(Total(b), eff)
BY DEF Shift, Total

\* Without rows, there is nothing to take from.
LEMMA ConsumeNoRows ==
  ASSUME NEW b \in Books, Rows(b) = {}, NEW l, NEW q, NEW p
  PROVE  Consume(b, l, q, p) = b
BY DEF Consume, Rows, Books

\* Goods in: the request reads and plans.
LEMMA StepGoodsIn ==
  ASSUME Given, IInv, NEW c \in Calls, NEW l \in Loc, NEW q \in 1..MaxQty,
         NEW x \in Batches \cup {None}, GoodsIn(c, l, q, x)
  PROVE  IInv'
<1>1. stock \in Row /\ batch \in Books /\ q \in Nat /\ q \in Int
  BY DEF IInv, Types, TypeOK
<1>2. stock[l] + q >= 0
  BY <1>1 DEF Row
<1>3. /\ Add(stock, l, q) \in Row /\ Add(stock, l, q) = Shift(stock, Effect(l, q))
      /\ Effect(l, q) \in [Loc -> Int]
  BY <1>1, <1>2, AddIsShift, EffectIs
<1>4. Ready(c) /\ UNCHANGED <<clock, drift>>
  BY DEF GoodsIn
<1>5. CASE ~Tracked /\ x = None
           /\ Accept(c, FALSE, Add(stock, l, q), batch, Movement(Effect(l, q)))
  BY <1>1, <1>3, <1>4, <1>5, EnteringMovement
<1>6. ASSUME NEW y \in Batches,
             Accept(c, TRUE, Add(stock, l, q), Put(batch, y, l, q), Movement(Effect(l, q)))
      PROVE  IInv'
  <2>1. /\ Put(batch, y, l, q) \in Books
        /\ \A m \in Loc : Total(Put(batch, y, l, q))[m] = Total(batch)[m] + IF m = l THEN q ELSE 0
    BY <1>1, PutTotal
  <2>2. \A m \in Loc : Total(Put(batch, y, l, q))[m] = Total(batch)[m] + Effect(l, q)[m]
    BY <1>1, <2>1, EffectIs
  <2>3. Total(Put(batch, y, l, q)) = Shift(Total(batch), Effect(l, q))
    BY <1>1, <2>1, <2>2, TotalIsShift
  <2> QED
    BY <1>3, <1>4, <1>6, <2>1, <2>3, EnteringMovement
<1> QED
  BY <1>5, <1>6 DEF GoodsIn

\* What is taken from the batches, where there are any, is what the row loses.
LEMMA TakenIsShift ==
  ASSUME Given, NEW b \in Books, NEW l \in Loc, NEW q \in Nat, NEW p,
         Rows(b) # {} => Suffices(b, l, q)
  PROVE  /\ Consume(b, l, q, p) \in Books
         /\ \/ Rows(Consume(b, l, q, p)) = {}
            \/ Total(Consume(b, l, q, p)) = Shift(Total(b), Effect(l, 0 - q))
<1>1. CASE Rows(b) = {}
  BY <1>1, ConsumeNoRows
<1>2. CASE Rows(b) # {}
  <2> DEFINE n == 0 - q
  <2>1. /\ Consume(b, l, q, p) \in Books
        /\ \A m \in Loc : Total(Consume(b, l, q, p))[m] = Total(b)[m] - IF m = l THEN q ELSE 0
    BY <1>2, ConsumeTotal
  <2>2. n \in Int /\ \A m \in Loc : Total(b)[m] \in Nat
    BY TotalType DEF Row
  <2> HIDE DEF n
  <2>3. \A m \in Loc : Effect(l, n)[m] = IF m = l THEN n ELSE 0
    BY <2>2, EffectIs
  <2>4. \A m \in Loc : Total(Consume(b, l, q, p))[m] = Total(b)[m] + Effect(l, n)[m]
    BY <2>1, <2>2, <2>3 DEF n
  <2>5. Total(Consume(b, l, q, p)) = Shift(Total(b), Effect(l, n))
    BY <2>1, <2>4, TotalIsShift
  <2> QED
    BY <2>1, <2>5 DEF n
<1> QED
  BY <1>1, <1>2

\* Goods out reads and plans.
LEMMA StepGoodsOut ==
  ASSUME Given, IInv, NEW c \in Calls, NEW l \in Loc, NEW q \in 1..MaxQty,
         NEW x \in Batches \cup {None}, GoodsOut(c, l, q, x)
  PROVE  IInv'
<1> DEFINE n == 0 - q
<1>1. stock \in Row /\ batch \in Books /\ q \in Nat /\ n \in Int
  BY DEF IInv, Types, TypeOK
<1>2. /\ Ready(c) /\ UNCHANGED <<clock, drift>> /\ stock[l] >= q
      /\ Tracked => Suffices(batch, l, q)
      /\ Accept(c, Tracked, Add(stock, l, n), Consume(batch, l, q, x), Movement(Effect(l, n)))
  BY DEF GoodsOut
<1>3. stock[l] + n >= 0
  BY <1>1, <1>2 DEF Row
<1>4. /\ Consume(batch, l, q, x) \in Books
      /\ \/ Rows(Consume(batch, l, q, x)) = {}
         \/ Total(Consume(batch, l, q, x)) = Shift(Total(batch), Effect(l, n))
  BY <1>1, <1>2, TakenIsShift DEF Tracked
<1> HIDE DEF n
<1>5. /\ Add(stock, l, n) \in Row /\ Add(stock, l, n) = Shift(stock, Effect(l, n))
      /\ Effect(l, n) \in [Loc -> Int]
  BY <1>1, <1>3, AddIsShift, EffectIs
<1>6. Tracked \in BOOLEAN
  BY DEF Tracked
<1> QED
  BY <1>2, <1>4, <1>5, <1>6, EnteringMovement

\* An adjustment reads and plans.
LEMMA StepAdjust ==
  ASSUME Given, IInv, NEW c \in Calls, NEW l \in Loc, NEW target \in 0..MaxQty,
         NEW x \in Batches \cup {None}, Adjust(c, l, target, x)
  PROVE  IInv'
<1> DEFINE delta == target - stock[l]
           write(tracked, nextB) == Accept(c, tracked, Add(stock, l, delta), nextB,
                                           Movement(Effect(l, delta)))
<1>1. stock \in Row /\ batch \in Books /\ stock[l] \in Nat /\ delta \in Int /\ target \in Nat
  BY DEF IInv, Types, TypeOK, Row
<1>2. /\ Ready(c) /\ UNCHANGED <<clock, drift>>
      /\ \/ ~Tracked /\ write(x # None, batch)
         \/ /\ delta > 0
            /\ \E y \in Batches : write(TRUE, Put(batch, y, l, delta))
         \/ /\ delta < 0 /\ Suffices(batch, l, 0 - delta)
            /\ write(TRUE, Consume(batch, l, 0 - delta, x))
  BY DEF Adjust
<1>3. stock[l] + delta >= 0
  BY <1>1
<1> HIDE DEF delta
<1>4. /\ Add(stock, l, delta) \in Row /\ Add(stock, l, delta) = Shift(stock, Effect(l, delta))
      /\ Effect(l, delta) \in [Loc -> Int]
  BY <1>1, <1>3, AddIsShift, EffectIs
<1>5. CASE ~Tracked /\ write(x # None, batch)
  <2>1. Rows(batch) = {} /\ (x # None) \in BOOLEAN
    BY <1>5 DEF Tracked
  <2> QED
    BY <1>1, <1>2, <1>4, <1>5, <2>1, EnteringMovement
<1>6. ASSUME delta > 0, NEW y \in Batches, write(TRUE, Put(batch, y, l, delta))
      PROVE  IInv'
  <2> DEFINE d == Put(batch, y, l, delta)
  <2>1. delta \in Nat
    BY <1>1, <1>6
  <2>2. /\ d \in Books
        /\ \A m \in Loc : Total(d)[m] = Total(batch)[m] + IF m = l THEN delta ELSE 0
    BY <1>1, <2>1, PutTotal
  <2>3. \A m \in Loc : Total(d)[m] = Total(batch)[m] + Effect(l, delta)[m]
    BY <1>1, <2>2, EffectIs
  <2>4. Total(d) = Shift(Total(batch), Effect(l, delta))
    BY <1>1, <2>2, <2>3, TotalIsShift
  <2> QED
    BY <1>2, <1>4, <1>6, <2>2, <2>4, EnteringMovement
<1>7. CASE delta < 0 /\ Suffices(batch, l, 0 - delta) /\ write(TRUE, Consume(batch, l, 0 - delta, x))
  <2> DEFINE q == 0 - delta
             d == Consume(batch, l, q, x)
  <2>1. q \in Nat /\ 0 - q = delta
    BY <1>1, <1>7
  <2> HIDE DEF q
  <2>2. d \in Books /\ (Rows(d) = {} \/ Total(d) = Shift(Total(batch), Effect(l, delta)))
    BY <1>1, <1>7, <2>1, TakenIsShift DEF q
  <2>3. write(TRUE, d)
    BY <1>7 DEF q
  <2> HIDE DEF d
  <2> QED
    BY <1>2, <1>4, <2>2, <2>3, EnteringMovement
<1> QED
  BY <1>2, <1>5, <1>6, <1>7

\* A transfer between depot and shelf reads and plans.
LEMMA StepTransferStock ==
  ASSUME Given, IInv, NEW c \in Calls, NEW from \in Loc, NEW to \in Loc, NEW q \in 1..MaxQty,
         NEW x \in Batches \cup {None}, TransferStock(c, from, to, q, x)
  PROVE  IInv'
<1> DEFINE moved == [y \in Batches |-> IF batch[y] = None THEN None ELSE
                       Add(Consume(batch, from, q, x)[y], to, Taken(batch, y, from, q, x))]
           n == 0 - q
           eff == Add(Effect(to, q), from, n)
           next == Add(Add(stock, from, n), to, q)
<1>1. stock \in Row /\ batch \in Books /\ q \in Nat /\ n \in Int
  BY DEF IInv, Types, TypeOK
<1>2. /\ Ready(c) /\ UNCHANGED <<clock, drift>> /\ stock[from] >= q /\ from # to
      /\ Tracked => Suffices(batch, from, q)
      /\ Accept(c, Tracked, next, moved, Movement(eff))
  BY DEF TransferStock
<1>3. /\ eff \in [Loc -> Int]
      /\ \A m \in Loc : eff[m] = (IF m = to THEN q ELSE 0) + IF m = from THEN n ELSE 0
  <2>1. /\ Effect(to, q) \in [Loc -> Int]
        /\ \A m \in Loc : Effect(to, q)[m] = IF m = to THEN q ELSE 0
    BY <1>1, EffectIs
  <2> DEFINE r == Effect(to, q)
  <2>2. eff = Add(r, from, n) /\ r \in [Loc -> Int]
    BY <2>1
  <2> HIDE DEF r, n, eff
  <2>3. /\ Add(r, from, n) \in [Loc -> Int]
        /\ \A m \in Loc : Add(r, from, n)[m] = IF m = from THEN r[m] + n ELSE r[m]
    BY <1>1, <2>2, AddType
  <2>4. \A m \in Loc : r[m] = IF m = to THEN q ELSE 0
    BY <2>1 DEF r
  <2> QED
    BY <1>1, <2>2, <2>3, <2>4
<1>4. /\ next \in Row /\ \A m \in Loc : next[m] = stock[m] + eff[m]
  <2> DEFINE r == Add(stock, from, n)
  <2>1. stock[from] + n >= 0 /\ stock \in [Loc -> Int]
    BY <1>1, <1>2, RowIsInt DEF Row
  <2>2. r \in Row /\ r \in [Loc -> Int]
        /\ \A m \in Loc : r[m] = IF m = from THEN stock[m] + n ELSE stock[m]
    BY <1>1, <2>1, AddIsShift, AddType
  <2>3. r[to] + q >= 0
    BY <1>1, <2>2 DEF Row
  <2> HIDE DEF r
  <2>4. Add(r, to, q) \in Row
    BY <1>1, <2>2, <2>3, AddIsShift
  <2>7. \A m \in Loc : Add(r, to, q)[m] = IF m = to THEN r[m] + q ELSE r[m]
    BY <2>2 DEF Add
  <2>5. next = Add(r, to, q)
    BY DEF r
  <2>6. \A m \in Loc : stock[m] \in Nat
    BY <1>1 DEF Row
  <2> QED
    BY <1>1, <1>2, <1>3, <2>2, <2>4, <2>5, <2>6, <2>7
<1>5. next = Shift(stock, eff)
  <2>1. next = [m \in Loc |-> next[m]]
    BY <1>4 DEF Row
  <2> HIDE DEF next, eff
  <2> QED
    BY <1>4, <2>1 DEF Shift
<1>6. /\ moved \in Books
      /\ \/ Rows(moved) = {}
         \/ Total(moved) = Shift(Total(batch), eff)
  <2>1. CASE Rows(batch) = {}
    BY <1>1, <2>1 DEF Rows, Books
  <2>2. CASE Rows(batch) # {}
    <3>1. /\ moved \in Books
          /\ Total(moved)[from] = Total(batch)[from] - q /\ Total(moved)[to] = Total(batch)[to] + q
      BY <1>1, <1>2, <2>2, MovedTotal DEF Tracked
    <3> HIDE DEF moved, eff
    <3>2. \A m \in Loc : m = from \/ m = to
      BY <1>2 DEF Loc
    <3>3. \A m \in Loc : Total(batch)[m] \in Nat
      BY <1>1, TotalType DEF Row
    <3>4. \A m \in Loc : Total(moved)[m] = Total(batch)[m] + eff[m]
      BY <1>1, <1>2, <1>3, <3>1, <3>2, <3>3
    <3> QED
      BY <1>1, <3>1, <3>4, TotalIsShift
  <2> QED
    BY <2>1, <2>2
<1> HIDE DEF next, eff, moved, n
<1>7. Tracked \in BOOLEAN
  BY DEF Tracked
<1> QED
  BY <1>2, <1>3, <1>4, <1>5, <1>6, <1>7, EnteringMovement

\* A batch edit logs nothing, and its row is the sum of its batches.
LEMMA StepUpsertBatch ==
  ASSUME Given, IInv, NEW c \in Calls, NEW x \in Batches, NEW row \in [Loc -> 0..MaxQty],
         UpsertBatch(c, x, row)
  PROVE  IInv'
<1> DEFINE b == [batch EXCEPT ![x] = row]
<1>0. PICK k, old : /\ old = Midway(c)
                    /\ k = [Idle EXCEPT !.pc = "write", !.edit = TRUE, !.tracked = TRUE,
                                !.old = old, !.next = Total(b), !.nextB = b]
  OBVIOUS
<1>1. TypeOK /\ row \in Row /\ old \in BOOLEAN
  BY <1>0 DEF IInv, Types, Row, Midway
<1>2. b \in Books /\ Rows(b) # {}
  BY <1>1, SetTotal DEF TypeOK
<1>3. Total(b) \in Row
  BY <1>2, TotalType
<1>4. /\ call' = [call EXCEPT ![c] = k] /\ Ready(c)
      /\ UNCHANGED <<stock, batch, log, clock, stops, opening, missed, drift>>
  BY <1>0 DEF UpsertBatch
<1> HIDE DEF b
<1>5. /\ k \in Call /\ k.pc = "write" /\ k.old = old /\ k.edit /\ k.entry = NoEntry
      /\ k.next = Total(b) /\ k.nextB = b /\ k.tracked
  BY <1>0, <1>1, <1>2, <1>3, IdleType DEF Idle, Call
<1>6. clock' \in Nat /\ clock' \in {clock, clock + 1}
  BY <1>1, <1>4 DEF TypeOK
<1>7. CallFits(k)' /\ CancelFits(k)'
  BY <1>2, <1>5, <1>6, IdleType DEF CallFits, CancelFits
<1>8. Planned(k)'
  BY <1>5 DEF Planned
<1>9. drift' \subseteq Flags /\ drift \subseteq drift' /\ k.entry.of = 0
      /\ k.pc \in {"till", "fetch", "write"} /\ (~k.old /\ k.pc # "till" => ~Midway(c))
  BY <1>0, <1>1, <1>4, <1>5, IdleType DEF TypeOK, Flags
<1> QED
  BY <1>4, <1>5, <1>6, <1>7, <1>8, <1>9, Entering

\* A sale or return at the till is dated when it begins, and reads the row later.
LEMMA StepTill ==
  ASSUME Given, IInv, NEW c \in Calls, NEW q \in {-1, 1}, Till(c, q)
  PROVE  IInv'
<1> DEFINE e == [NoEntry EXCEPT !.eff = Effect("reyon", q), !.at = clock + 1]
<1>0. PICK k : k = [Idle EXCEPT !.pc = "till", !.entry = e]
  OBVIOUS
<1>1. TypeOK /\ clock \in Nat /\ "reyon" \in Loc /\ "depo" \in Loc /\ q \in Int
  BY DEF IInv, Types, TypeOK, Loc
<1>2. /\ Effect("reyon", q) \in [Loc -> Int] /\ Effect("reyon", q)["depo"] = 0
  BY <1>1, EffectIs
<1>3. /\ e \in Entry /\ e.of = 0 /\ ~e.cancelled /\ e.prev = None
      /\ e.eff = Effect("reyon", q) /\ e.at = clock + 1
  <2>1. PICK r, t : r = Effect("reyon", q) /\ t = clock + 1
    OBVIOUS
  <2>2. e = [NoEntry EXCEPT !.eff = r, !.at = t] /\ t \in Nat
    BY <1>1, <2>1
  <2> HIDE DEF e
  <2> QED
    BY <1>2, <2>1, <2>2, IdleType DEF NoEntry, Entry
<1>4. /\ call' = [call EXCEPT ![c] = k] /\ Ready(c) /\ clock' = clock + 1
      /\ UNCHANGED <<stock, batch, log, stops, opening, missed, drift>>
  BY <1>0 DEF Till
<1> HIDE DEF e
<1>5. k \in Call /\ k.pc = "till" /\ ~k.edit /\ ~k.tracked /\ k.entry = e
  BY <1>0, <1>3, IdleType DEF Idle, Call
<1>6. e.at <= clock'
  BY <1>1, <1>3, <1>4
<1>7. CallFits(k)' /\ CancelFits(k)'
  BY <1>2, <1>3, <1>5, <1>6 DEF CallFits, CancelFits
<1>8. Planned(k)' /\ k.entry.of = 0
  BY <1>3, <1>5 DEF Planned, Planning
<1>9. drift' \subseteq Flags /\ drift \subseteq drift' /\ k.pc \in {"till", "fetch", "write"}
  BY <1>1, <1>4, <1>5 DEF TypeOK, Flags
<1>10. clock' \in {clock, clock + 1} /\ (~k.old /\ k.pc # "till" => ~Midway(c))
  BY <1>4, <1>5
<1> QED
  BY <1>4, <1>5, <1>7, <1>8, <1>9, <1>10, Entering

-----------------------------------------------------------------------------
(* Cancelling.                                                             *)

\* When all movements after one are cancelled, there are none: what is cancelled has a
\* cancellation behind it, which is never cancelled.
LEMMA LatestIsLast ==
  ASSUME IInv, NEW m \in DOMAIN log, \A i \in DOMAIN log : i > m => log[i].cancelled
  PROVE  m = Len(log)
<1>1. /\ DOMAIN log = 1..Len(log) /\ Len(log) \in Nat
      /\ \A i \in DOMAIN log : log[i].of \in Nat
  <2>1. log \in Seq(Entry)
    BY DEF IInv, Types, TypeOK
  <2>2. \A i \in DOMAIN log : log[i] \in Entry
    BY <2>1
  <2> QED
    BY <2>1, <2>2 DEF Entry
<1>2. \A i \in DOMAIN log :
        /\ log[i].of # 0 => log[i].of < i
        /\ log[i].cancelled => log[i].of = 0 /\ \E j \in DOMAIN log : log[j].of = i
  BY DEF IInv, Entries, EntryFits
<1> SUFFICES ASSUME NEW i \in DOMAIN log, i > m PROVE FALSE
  BY <1>1
<1>3. log[i].cancelled
  OBVIOUS
<1>4. PICK j \in DOMAIN log : log[j].of = i
  BY <1>2, <1>3
<1>5. j > m
  BY <1>1, <1>2, <1>4
<1>6. log[j].cancelled
  BY <1>5
<1> QED
  BY <1>1, <1>2, <1>4, <1>6

\* A cancellation reads the movement and plans its reverse.
LEMMA StepCancelMovement ==
  ASSUME Given, IInv, NEW c \in Calls, NEW m \in DOMAIN log, CancelMovement(c, m)
  PROVE  IInv'
<1> DEFINE e == [NoEntry EXCEPT !.eff = Reverse(log[m].eff), !.at = clock + 1, !.of = m]
           back == Shift(stock, Reverse(log[m].eff))
           busy == {d \in Calls \ {c} :
                     Within(d, {"delete", "create", "log", "mark"}) \/ call[d].entry.of = m}
           raced == {x \in {"raced"} : busy # {}}
<1>1. /\ TypeOK /\ log[m] \in Entry /\ m \in Nat /\ m # 0 /\ clock \in Nat
  BY DEF IInv, Types, TypeOK
<1>2. /\ Ready(c) /\ ~log[m].cancelled /\ log[m].of = 0 /\ IsLatest(m)
      /\ drift' = drift \cup raced /\ clock' = clock + 1
      /\ UNCHANGED <<stock, batch, log, stops, opening, missed>>
  BY DEF CancelMovement, Accept
<1>3. /\ log[m].eff \in [Loc -> Int] /\ log[m].at \in Nat /\ log[m].prev \in Books \cup {None}
      /\ EntryFits(m)
  <2>1. PICK f \in Entry : f = log[m]
    BY <1>1, Zenon
  <2>2. f.eff \in [Loc -> Int] /\ f.at \in Nat /\ f.prev \in Books \cup {None}
    BY DEF Entry
  <2> QED
    BY <2>1, <2>2 DEF IInv, Entries
<1> DEFINE Shape(k, old, b) ==
        /\ call' = [call EXCEPT ![c] = k] /\ old = Midway(c) /\ b = Covered
        /\ \/ /\ log[m].prev # None
              /\ k = [Idle EXCEPT !.pc = "write", !.tracked = TRUE, !.old = old,
                                  !.next = Total(log[m].prev), !.nextB = log[m].prev,
                                  !.entry = [e EXCEPT !.covered = b]]
           \/ /\ log[m].prev = None /\ \A l \in Loc : back[l] >= 0
              /\ k = [Idle EXCEPT !.pc = "fetch", !.tracked = FALSE, !.old = old,
                                  !.next = back, !.nextB = batch,
                                  !.entry = [e EXCEPT !.covered = b]]
<1>4. PICK k, old, b : Shape(k, old, b)
  <2>1. PICK old, b : old = Midway(c) /\ b = Covered
    OBVIOUS
  <2> HIDE DEF e, back
  <2>2. \/ log[m].prev # None /\ Accept(c, TRUE, Total(log[m].prev), log[m].prev, e)
        \/ /\ log[m].prev = None /\ \A l \in Loc : back[l] >= 0
           /\ Accept(c, FALSE, back, batch, e)
    BY DEF CancelMovement, e, back
  <2>3. CASE log[m].prev # None /\ Accept(c, TRUE, Total(log[m].prev), log[m].prev, e)
    <3>1. PICK k : k = [Idle EXCEPT !.pc = "write", !.tracked = TRUE, !.old = old,
                                    !.next = Total(log[m].prev), !.nextB = log[m].prev,
                                    !.entry = [e EXCEPT !.covered = b]]
      OBVIOUS
    <3>2. call' = [call EXCEPT ![c] = k]
      BY <2>1, <2>3, <3>1 DEF Accept
    <3>3. Shape(k, old, b)
      BY <2>1, <2>3, <3>1, <3>2
    <3> HIDE DEF Shape
    <3> QED
      BY <3>3
  <2>4. CASE /\ log[m].prev = None /\ \A l \in Loc : back[l] >= 0
             /\ Accept(c, FALSE, back, batch, e)
    <3>1. PICK k : k = [Idle EXCEPT !.pc = "fetch", !.tracked = FALSE, !.old = old,
                                    !.next = back, !.nextB = batch,
                                    !.entry = [e EXCEPT !.covered = b]]
      OBVIOUS
    <3>2. call' = [call EXCEPT ![c] = k]
      BY <2>1, <2>4, <3>1 DEF Accept
    <3>3. Shape(k, old, b)
      BY <2>1, <2>4, <3>1, <3>2
    <3> HIDE DEF Shape
    <3> QED
      BY <3>3
  <2> QED
    BY <2>2, <2>3, <2>4
<1>5. PICK f : f = [e EXCEPT !.covered = b]
  OBVIOUS
<1>6. /\ f \in Entry /\ f.of = m /\ f.eff = Reverse(log[m].eff) /\ f.prev = None /\ ~f.cancelled
      /\ f.at = clock + 1
  <2>1. Reverse(log[m].eff) \in [Loc -> Int] /\ b \in BOOLEAN /\ clock + 1 \in Nat
    BY <1>1, <1>3, <1>4 DEF Reverse, Covered
  <2>2. PICK r, t : r = Reverse(log[m].eff) /\ t = clock + 1
    OBVIOUS
  <2>3. f = [NoEntry EXCEPT !.eff = r, !.at = t, !.of = m, !.covered = b]
    BY <1>5, <2>2 DEF NoEntry
  <2>4. f \in Entry
    BY <1>1, <2>1, <2>2, <2>3, IdleType DEF NoEntry, Entry
  <2>5. f.of = m /\ f.eff = r /\ f.prev = None /\ ~f.cancelled /\ f.at = t
    BY <2>3 DEF NoEntry
  <2> QED
    BY <2>2, <2>4, <2>5
<1>7. log[m].prev # None => log[m].prev \in Books /\ Total(log[m].prev) \in Row
  BY <1>3, TotalType
<1>8. (\A l \in Loc : back[l] >= 0) => back \in Row
  <2>1. \A l \in Loc : back[l] \in Int
    BY <1>1, <1>3 DEF TypeOK, Row, Shift, Reverse
  <2> QED
    BY <2>1 DEF Row, Shift
<1> HIDE DEF e, back
<1>9. /\ k \in Call /\ k.pc \in {"fetch", "write"} /\ k.old = old /\ ~k.edit /\ k.entry = f
      /\ k.pc = "fetch" => ~k.tracked
      /\ log[m].prev # None =>
           k.tracked /\ k.next = Total(log[m].prev) /\ k.nextB = log[m].prev
      /\ log[m].prev = None => ~k.tracked /\ k.next = back
  <2>0. old \in BOOLEAN
    BY <1>4 DEF Midway
  <2>1. CASE /\ log[m].prev # None
             /\ k = [Idle EXCEPT !.pc = "write", !.tracked = TRUE, !.old = old,
                                 !.next = Total(log[m].prev), !.nextB = log[m].prev,
                                 !.entry = [e EXCEPT !.covered = b]]
    BY <1>5, <1>6, <1>7, <2>0, <2>1, IdleType DEF Idle, Call
  <2>2. CASE /\ log[m].prev = None /\ \A l \in Loc : back[l] >= 0
             /\ k = [Idle EXCEPT !.pc = "fetch", !.tracked = FALSE, !.old = old,
                                 !.next = back, !.nextB = batch,
                                 !.entry = [e EXCEPT !.covered = b]]
    BY <1>1, <1>5, <1>6, <1>8, <2>0, <2>2, IdleType DEF Idle, Call, TypeOK
  <2> QED
    BY <1>4, <2>1, <2>2
<1>10. k.entry.at <= clock' /\ k.entry.at > log[m].at
  BY <1>1, <1>2, <1>3, <1>6, <1>9 DEF EntryFits
<1>11. CallFits(k)' /\ CancelFits(k)'
  BY <1>1, <1>2, <1>6, <1>9, <1>10 DEF CallFits, CancelFits
<1>12. Planned(k)'
  BY <1>1, <1>2, <1>6, <1>9 DEF Planned, PlansCancel, back
<1>13. drift' \subseteq Flags /\ drift \subseteq drift'
  BY <1>1, <1>2 DEF TypeOK, Flags
<1>14. ASSUME Free({"raced"})'
       PROVE  /\ IsLatest(m)
              /\ \A d \in Calls \ {c} : ~Within(d, {"delete", "create", "log", "mark"})
              /\ \A d \in Calls \ {c} : Cancels(d) # m
              /\ \A i \in DOMAIN log : log[i].of # m
  <2>1. busy = {}
    <3>1. "raced" \notin raced
      BY <1>2, <1>14 DEF Free
    <3> QED
      BY <3>1
  <2>2. ASSUME NEW i \in DOMAIN log PROVE log[i].of # m
    <3>1. EntryFits(i)
      BY DEF IInv, Entries
    <3> QED
      BY <1>1, <1>2, <3>1 DEF EntryFits, IsLatest
  <2> QED
    BY <1>2, <2>1, <2>2 DEF Cancels
<1> HIDE DEF busy, raced
<1>15. k.entry.of = m /\ (~k.old /\ k.pc # "till" => ~Midway(c)) /\ k.pc \in {"till", "fetch", "write"}
       /\ clock' \in {clock, clock + 1}
  BY <1>2, <1>4, <1>6, <1>9
<1> QED
  BY <1>2, <1>4, <1>9, <1>11, <1>12, <1>13, <1>14, <1>15, Entering

-----------------------------------------------------------------------------
(* Reading late: the till's row, and the batches that are written back.    *)

\* The till reads the row: it plans what the row then holds.
LEMMA StepTillRow ==
  ASSUME Given, IInv, NEW c \in Calls, TillRow(c)
  PROVE  IInv'
<1> DEFINE q == call[c].entry.eff["reyon"]
           next == [stock EXCEPT !["reyon"] = Most(0, @ + q)]
<1>0. PICK n : n = next
  OBVIOUS
<1>1. /\ TypeOK /\ call[c] \in Call /\ call[c].pc = "till" /\ CallFits(call[c])
      /\ stock \in Row /\ clock \in Nat
  BY DEF IInv, Types, TypeOK, TillRow, At
<1>2. /\ call[c].entry.eff \in [Loc -> Int] /\ call[c].entry.of = 0 /\ call[c].entry.prev = None
      /\ call[c].entry.eff["depo"] = 0 /\ q \in Int /\ ~call[c].tracked /\ ~call[c].edit
      /\ Loc = {"depo", "reyon"}
  BY <1>1, CallType DEF CallFits, Loc
<1>3. n \in Row /\ (stock["reyon"] + q >= 0 => n = Shift(stock, call[c].entry.eff))
  <2>1. stock["reyon"] \in Nat /\ stock["depo"] \in Nat
    BY <1>1, <1>2 DEF Row
  <2>2. Most(0, stock["reyon"] + q) \in Nat
    BY <1>2, <2>1 DEF Most
  <2>3. n \in Row
    BY <1>0, <1>1, <1>2, <2>2 DEF Row
  <2>4. n["reyon"] = Most(0, stock["reyon"] + q) /\ n["depo"] = stock["depo"]
    BY <1>0, <1>1, <1>2 DEF Row
  <2>5. ASSUME stock["reyon"] + q >= 0, NEW l \in Loc
        PROVE  n[l] = stock[l] + call[c].entry.eff[l]
    BY <1>2, <2>1, <2>4, <2>5 DEF Most
  <2>6. n = [l \in Loc |-> n[l]]
    BY <2>3 DEF Row
  <2> QED
    BY <2>3, <2>5, <2>6 DEF Shift
<1>4. PICK k : k = [call[c] EXCEPT !.pc = "fetch", !.old = FALSE, !.next = n]
  OBVIOUS
<1>5. /\ call' = [call EXCEPT ![c] = k]
      /\ UNCHANGED <<stock, batch, log, clock, served, stops, opening, missed>>
      /\ drift' = drift \cup {x \in {"raced"} : stock["reyon"] + q < 0}
  BY <1>0, <1>4 DEF TillRow
<1> HIDE DEF q, next
<1>6. /\ k \in Call /\ k.pc = "fetch" /\ k.next = n /\ ~k.tracked /\ ~k.edit
      /\ k.entry = call[c].entry
  BY <1>1, <1>2, <1>3, <1>4 DEF Call
<1>7. /\ call' \in [Calls -> Call] /\ call'[c] = k /\ \A d \in Calls \ {c} : call'[d] = call[d]
  BY <1>1, <1>5, <1>6 DEF TypeOK
<1>8. CallFits(call[c])' /\ CancelFits(call[c])'
  BY <1>1, <1>2, <1>5, <1>6, <1>7 DEF CallFits, CancelFits
<1>9. Reads(c)
  <2>1. drift' \subseteq Flags /\ drift \subseteq drift'
    BY <1>1, <1>5 DEF TypeOK, Flags
  <2>2. batch' \in Books /\ clock' \in Nat /\ clock <= clock' /\ served' \in Nat /\ stops' \in Nat
    BY <1>1, <1>5 DEF TypeOK
  <2>3. Inward(c)
    BY <1>1, <1>5, <1>6, <1>7, <1>8, <2>1, <2>2 DEF Inward, Beside, At
  <2> QED
    BY <1>1, <1>5, <1>6, <1>7, <2>3 DEF Reads, Within
<1>10. Cancels(c)' = 0 /\ Undisturbed(c)' /\ Calm(c)'
  BY <1>2, <1>6, <1>7 DEF Undisturbed, Calm, Cancels, At
<1>11. ASSUME Free({"raced"})' PROVE Planned(call[c])'
  <2>1. stock["reyon"] + q >= 0
    <3>1. ~(stock["reyon"] + q < 0)
      BY <1>5, <1>11 DEF Free
    <3>2. stock["reyon"] \in Nat
      BY <1>1, <1>2 DEF Row
    <3> QED
      BY <1>2, <3>1, <3>2
  <2> QED
    BY <1>2, <1>3, <1>5, <1>6, <1>7, <2>1 DEF Planned, PlansMovement
<1> QED
  BY <1>9, <1>10, <1>11, Reading

\* The batches are read again: they are those that are stored.
LEMMA StepFetch ==
  ASSUME Given, IInv, NEW c \in Calls, Fetch(c)
  PROVE  IInv'
<1>0. PICK k, b : /\ b = (call[c].old \/ Midway(c))
                  /\ k = [call[c] EXCEPT !.pc = "write", !.nextB = batch, !.old = b]
  OBVIOUS
<1>1. /\ TypeOK /\ call[c] \in Call /\ call[c].pc = "fetch" /\ CallFits(call[c])
      /\ CancelFits(call[c]) /\ batch \in Books /\ clock \in Nat
  BY DEF IInv, Types, TypeOK, Fetch, At
<1>2. /\ call' = [call EXCEPT ![c] = k]
      /\ UNCHANGED <<stock, batch, log, clock, served, stops, opening, missed, drift>>
  BY <1>0 DEF Fetch
<1>3. b \in BOOLEAN
  BY <1>0, <1>1, CallType DEF Midway
<1>4. /\ k \in Call /\ k.pc = "write" /\ k.next = call[c].next /\ k.tracked = call[c].tracked
      /\ k.edit = call[c].edit /\ k.nextB = batch /\ k.old = b /\ k.entry = call[c].entry
      /\ ~call[c].tracked /\ ~call[c].edit
  <2>1. ~call[c].tracked /\ ~call[c].edit
    BY <1>1 DEF CallFits
  <2> QED
    BY <1>0, <1>1, <1>3, <2>1 DEF Call
<1>5. /\ call' \in [Calls -> Call] /\ call'[c] = k /\ \A d \in Calls \ {c} : call'[d] = call[d]
  BY <1>1, <1>2, <1>4 DEF TypeOK
<1>6. CallFits(call[c])' /\ CancelFits(call[c])'
  BY <1>1, <1>2, <1>4, <1>5 DEF CallFits, CancelFits
<1>7. Reads(c)
  <2>1. drift' \subseteq Flags /\ drift \subseteq drift'
    BY <1>1, <1>2 DEF TypeOK, Flags
  <2>2. batch' \in Books /\ clock' \in Nat /\ clock <= clock' /\ served' \in Nat /\ stops' \in Nat
    BY <1>1, <1>2 DEF TypeOK
  <2>3. Inward(c)
    BY <1>1, <1>2, <1>4, <1>5, <1>6, <2>1, <2>2 DEF Inward, Beside, At
  <2> QED
    BY <1>1, <1>2, <1>4, <1>5, <2>3 DEF Reads, Within
<1>8. /\ \A d \in Calls \ {c} : call'[d] = call[d]
      /\ Midway(c)' <=> Midway(c)
      /\ Cancels(c)' = Cancels(c) /\ Waiting(c)
  BY <1>1, <1>4, <1>5 DEF Midway, Within, Cancels, Waiting
<1>9. Undisturbed(c)'
  BY <1>0, <1>4, <1>5, <1>8 DEF Undisturbed, Planning
<1>10. ASSUME Free({"raced"})' PROVE Planned(call[c])' /\ Calm(c)'
  <2>1. Free({"raced"})
    BY <1>2, <1>10 DEF Free
  <2>2. Planned(call[c]) /\ Calm(c)
    BY <2>1 DEF IInv, Plans
  <2>3. Planning(call[c])' => Planning(call[c])
    BY <1>0, <1>1, <1>4, <1>5 DEF Planning
  <2>4. Planned(call[c])'
    <3> SUFFICES ASSUME Planning(call[c])'
                 PROVE  /\ k.entry.of = 0 => PlansMovement(k)'
                        /\ k.entry.of # 0 => PlansCancel(k)'
      BY <1>5 DEF Planned
    <3>1. /\ k.entry.of = 0 => PlansMovement(call[c])
          /\ k.entry.of # 0 => PlansCancel(call[c])
      BY <1>4, <2>2, <2>3 DEF Planned
    <3>2. k.entry.of = 0 => PlansMovement(k)'
      BY <1>2, <1>4, <3>1 DEF PlansMovement, Covered
    <3>3. k.entry.of # 0 => PlansCancel(k)'
      BY <1>2, <1>4, <3>1 DEF PlansCancel
    <3> QED
      BY <3>2, <3>3
  <2>5. Calm(c)'
    <3>1. \A d \in Calls \ {c} : Within(d, {"delete", "create", "log", "mark"})'
                                   <=> Within(d, {"delete", "create", "log", "mark"})
      BY <1>8 DEF Within
    <3> QED
      BY <1>2, <1>8, <2>2, <2>3, <3>1 DEF Calm, IsLatest
  <2> QED
    BY <2>4, <2>5
<1> QED
  BY <1>7, <1>8, <1>9, <1>10, Reading

-----------------------------------------------------------------------------
(* Deleting the batches and creating them again.                           *)

\* A movement whose batches are written keeps what it carries, and has a date.
LEMMA WrittenIs ==
  ASSUME NEW k \in Call, ~k.edit, clock \in Nat, k.entry.at <= clock
  PROVE  /\ Written(k) \in Call /\ Written(k).pc = "log" /\ Written(k).old = k.old
         /\ ~Written(k).edit /\ Written(k).entry.eff = k.entry.eff
         /\ Written(k).entry.of = k.entry.of /\ Written(k).entry.prev = k.entry.prev
         /\ Written(k).entry.covered = k.entry.covered
         /\ Written(k).entry.missed = k.entry.missed
         /\ Written(k).entry.cancelled = k.entry.cancelled
         /\ Ticks(k) <=> k.entry.at = 0
         /\ Ticks(k) => Written(k).entry.at = clock + 1
         /\ ~Ticks(k) => Written(k).entry.at = k.entry.at
<1>0. PICK e, t : e = Dated(k.entry) /\ t = IF k.entry.at = 0 THEN clock + 1 ELSE k.entry.at
  OBVIOUS
<1>1. k.entry \in Entry /\ k.entry.at \in Nat /\ k.old \in BOOLEAN /\ t \in Nat
  BY <1>0, CallType
<1>2. e = [k.entry EXCEPT !.at = t]
  BY <1>0 DEF Dated
<1>3. /\ e \in Entry /\ e.eff = k.entry.eff /\ e.of = k.entry.of /\ e.prev = k.entry.prev
      /\ e.covered = k.entry.covered /\ e.missed = k.entry.missed
      /\ e.cancelled = k.entry.cancelled /\ e.at = t
  BY <1>1, <1>2 DEF Entry
<1>4. Written(k) = [Idle EXCEPT !.pc = "log", !.old = k.old, !.entry = e]
  BY <1>0 DEF Written
<1>5. /\ Written(k) \in Call /\ Written(k).pc = "log" /\ Written(k).old = k.old
      /\ ~Written(k).edit /\ Written(k).entry = e
  BY <1>1, <1>3, <1>4, IdleType DEF Idle, Call
<1>6. Ticks(k) <=> k.entry.at = 0
  BY DEF Ticks
<1> QED
  BY <1>0, <1>3, <1>5, <1>6

\* The handler is between its writes, and stays so or is done with them.
Batchwise(c) ==
  /\ Inward(c) /\ Wrote(c) /\ Within(c, {"create", "log", "idle"})'
  /\ Wrote(c)' => call'[c].nextB = call[c].nextB
  /\ ~call[c].edit => Pending(c)' /\ Carries(c)
  /\ call[c].edit => ~Pending(c)' /\ Cancels(c)' = 0
  /\ Fresh(c)' => Fresh(c)

\* Who plans meanwhile has read before this handler wrote, or minds no batches.
LEMMA BatchwiseRest ==
  ASSUME Given, IInv, NEW c \in Calls, Batchwise(c)
  PROVE  /\ Types' /\ Entries' /\ Plans' /\ FreshOne' /\ Took' /\ LastTook' /\ OnceEach'
         /\ LogExplainsRow' /\ CancelledOnceUnlessRaced'
         /\ Free({"raced"})' => \A d \in Calls : Wrote(d) => d = c
<1>1. /\ Inward(c) /\ Wrote(c) /\ call' \in [Calls -> Call]
      /\ \A d \in Calls \ {c} : call'[d] = call[d]
      /\ UNCHANGED <<stock, log, missed>> /\ drift \subseteq drift' /\ TypeOK
  BY DEF IInv, Types, Batchwise, Inward, Beside
<1>2. Types' /\ Entries'
  BY <1>1, InwardTypes
<1>3. (Pending(c)' <=> Pending(c)) /\ (Pending(c) => Carries(c))
  BY DEF Batchwise, Pending, Wrote, Within
<1>4. FreshOne' /\ Took' /\ LastTook' /\ LogExplainsRow' /\ CancelledOnceUnlessRaced'
  BY <1>1, <1>3, InwardOwes DEF Batchwise
<1>5. \/ Cancels(c)' = 0
      \/ Cancels(c)' = Cancels(c) /\ (Waiting(c)' => Waiting(c))
  BY DEF Batchwise, Carries, Cancels, Waiting, Wrote, Within
<1>6. OnceEach'
  BY <1>1, <1>5, InwardOnce
<1>7. \A d \in Calls \ {c} : Midway(d)
  BY <1>1 DEF Midway, Wrote
<1>8. \A d \in Calls \ {c} : Planning(call[d]) =>
        call[d].pc = "fetch" /\ call[d].entry.prev = None /\ Cancels(d) = 0 /\ ~call[d].tracked
  <2> TAKE d \in Calls \ {c}
  <2>1. Undisturbed(d) /\ CallFits(call[d])
    BY DEF IInv, Plans, Types
  <2> QED
    BY <1>7, <2>1 DEF Undisturbed, Planning, At, CallFits
<1>9. Plans'
  <2>1. ~Planning(call[c])'
    BY DEF Batchwise, Planning, Within
  <2>2. ASSUME NEW d \in Calls PROVE Undisturbed(d)'
    <3>1. CASE d = c
      BY <2>1, <3>1 DEF Undisturbed
    <3>2. CASE d # c
      BY <1>1, <1>8, <3>2 DEF Undisturbed, Planning, Cancels, At
    <3> QED
      BY <3>1, <3>2
  <2>3. ASSUME Free({"raced"})', NEW d \in Calls PROVE Planned(call[d])' /\ Calm(d)'
    <3>1. CASE d = c
      BY <2>1, <3>1 DEF Planned, Calm
    <3>2. CASE d # c
      <4>1. call'[d] = call[d] /\ Planned(call[d])
        BY <1>1, <2>3, <3>2, FreeShrinks DEF IInv, Plans
      <4>2. Planned(call[d])'
        BY <1>1, <1>8, <3>2, <4>1 DEF Planned, PlansMovement, Planning, Cancels
      <4>3. Calm(d)'
        BY <1>8, <3>2, <4>1 DEF Calm, Planning, Cancels
      <4> QED
        BY <4>2, <4>3
    <3> QED
      BY <3>1, <3>2
  <2> QED
    BY <2>2, <2>3 DEF Plans
<1>10. Free({"raced"})' => \A d \in Calls : Wrote(d) => d = c
  BY <1>1, FreeShrinks DEF IInv, Halfway
<1> QED
  BY <1>2, <1>4, <1>6, <1>9, <1>10

\* All batches are deleted.
LEMMA StepDeleteBatches ==
  ASSUME Given, IInv, NEW c \in Calls, DeleteBatches(c)
  PROVE  IInv'
<1>0. PICK k : k = [call[c] EXCEPT !.pc = "create", !.todo = Rows(call[c].nextB)]
  OBVIOUS
<1>1. /\ TypeOK /\ call[c] \in Call /\ call[c].pc = "delete" /\ CallFits(call[c])
      /\ CancelFits(call[c]) /\ clock \in Nat
  BY DEF IInv, Types, TypeOK, DeleteBatches, At
<1>2. /\ call' = [call EXCEPT ![c] = k] /\ batch' = NoBooks
      /\ UNCHANGED <<stock, log, clock, served, stops, opening, missed, drift>>
  BY <1>0 DEF DeleteBatches
<1>3. /\ k \in Call /\ k.pc = "create" /\ k.todo = Rows(k.nextB) /\ k.nextB = call[c].nextB
      /\ k.entry = call[c].entry /\ k.old = call[c].old /\ k.edit = call[c].edit
  <2>1. Rows(call[c].nextB) \in SUBSET Batches
    BY DEF Rows
  <2>2. PICK r : r = Rows(call[c].nextB)
    OBVIOUS
  <2>3. /\ k \in Call /\ k.pc = "create" /\ k.todo = r /\ k.nextB = call[c].nextB
        /\ k.entry = call[c].entry /\ k.old = call[c].old /\ k.edit = call[c].edit
    BY <1>0, <1>1, <2>1, <2>2 DEF Call
  <2> QED
    BY <2>2, <2>3
<1>4. /\ call' \in [Calls -> Call] /\ call'[c] = k /\ \A d \in Calls \ {c} : call'[d] = call[d]
  BY <1>1, <1>2, <1>3 DEF TypeOK
<1>5. CallFits(call[c])' /\ CancelFits(call[c])'
  BY <1>1, <1>2, <1>3, <1>4 DEF CallFits, CancelFits
<1>6. Inward(c)
  <2>1. drift' \subseteq Flags /\ drift \subseteq drift' /\ NoBooks \in Books
    BY <1>1, <1>2, EmptyType DEF TypeOK, Flags
  <2> QED
    BY <1>1, <1>2, <1>3, <1>4, <1>5, <2>1 DEF Inward, Beside, At, TypeOK
<1>7. Batchwise(c)
  <2>1. Wrote(c) /\ Within(c, {"create", "log", "idle"})' /\ call'[c].nextB = call[c].nextB
    BY <1>1, <1>3, <1>4 DEF Wrote, Within
  <2>2. (Pending(c)' <=> ~call[c].edit) /\ Carries(c) /\ (Fresh(c)' => Fresh(c))
    BY <1>1, <1>3, <1>4 DEF Pending, Within, Carries, Fresh
  <2>3. call[c].edit => Cancels(c)' = 0
    BY <1>1, <1>3, <1>4 DEF CallFits, Cancels
  <2>4. call'[c].old => call[c].old
    BY <1>3, <1>4
  <2> QED
    BY <1>6, <2>1, <2>2, <2>3, <2>4 DEF Batchwise
<1>8. /\ Types' /\ Entries' /\ Plans' /\ FreshOne' /\ Took' /\ LastTook' /\ OnceEach'
      /\ LogExplainsRow' /\ CancelledOnceUnlessRaced'
      /\ Free({"raced"})' => \A d \in Calls : Wrote(d) => d = c
  BY <1>7, BatchwiseRest
<1>9. \A d \in Calls : Wrote(d)' => Wrote(d) /\ call'[d].nextB = call[d].nextB
  BY <1>1, <1>3, <1>4 DEF Wrote, Within
<1>10. Halfway'
  <2>1. Free({"raced"})' => \A d, e \in Calls : Wrote(d)' /\ Wrote(e)' => d = e
    BY <1>8, <1>9
  <2>2. \A x \in Batches : batch'[x] = None
    BY <1>2 DEF NoBooks
  <2>3. ASSUME Free({"raced", "loose", "kept"})', NEW d \in Calls, Wrote(d)', NEW l \in Loc
        PROVE  Total(call'[d].nextB)[l] <= stock'[l]
    <3>1. Free({"raced", "loose", "kept"})
      BY <1>2, <2>3 DEF Free
    <3> QED
      BY <1>2, <1>9, <2>3, <3>1 DEF IInv, Halfway
  <2> QED
    BY <2>1, <2>2, <2>3 DEF Halfway
<1>11. BatchesWithinRow'
  <2>1. \A l \in Loc : Total(NoBooks)[l] = 0
    <3>1. Rows(NoBooks) = {} /\ NoBooks \in Books
      BY EmptyType DEF Rows, NoBooks
    <3> QED
      BY <3>1, NoRowsTotal
  <2>2. \A l \in Loc : stock[l] \in Nat
    BY <1>1 DEF TypeOK, Row
  <2> QED
    BY <1>2, <2>1, <2>2 DEF BatchesWithinRow
<1> QED
  BY <1>8, <1>10, <1>11 DEF IInv

\* Books whose batches are some of others' hold no more than these.
LEMMA SomeTotal ==
  ASSUME Given, NEW b \in Books, NEW d \in Books, \A x \in Batches : b[x] \in {None, d[x]}, NEW l \in Loc
  PROVE  Total(b)[l] <= Total(d)[l]
<1>1. /\ Held(b, l) \in [Batches -> Int] /\ Held(d, l) \in [Batches -> Int]
      /\ \A x \in Batches : Held(d, l)[x] \in Nat
  BY HeldType
<1>2. ASSUME NEW x \in Batches PROVE Held(b, l)[x] <= Held(d, l)[x]
  <2>1. CASE b[x] = None
    BY <1>1, <2>1, HeldType
  <2>2. CASE b[x] # None
    <3>1. b[x] = d[x]
      BY <2>2
    <3>2. Held(b, l)[x] = Held(d, l)[x]
      BY <2>2, <3>1, HeldType
    <3> QED
      BY <1>1, <3>2
  <2> QED
    BY <2>1, <2>2
<1>3. IsFiniteSet(Batches)
  BY DEF Given
<1>4. SumFunction(Held(b, l)) <= SumFunction(Held(d, l))
  BY <1>1, <1>2, <1>3, SumMonotone
<1> QED
  BY <1>4, TotalType

\* A batch is created.
LEMMA StepCreateBatch ==
  ASSUME Given, IInv, NEW c \in Calls, CreateBatch(c)
  PROVE  IInv'
<1>0. PICK k : k = call[c]
  OBVIOUS
<1>1. /\ TypeOK /\ k \in Call /\ k.pc = "create" /\ CallFits(k) /\ CancelFits(k) /\ clock \in Nat
      /\ batch \in Books /\ k.nextB \in Books /\ k.entry.at \in Nat /\ k.entry.at <= clock
  <2>1. /\ TypeOK /\ k \in Call /\ k.pc = "create" /\ CallFits(k) /\ CancelFits(k)
        /\ clock \in Nat /\ batch \in Books
    BY <1>0 DEF IInv, Types, TypeOK, CreateBatch, At
  <2> QED
    BY <2>1, CallType DEF CallFits
<1>2. PICK x \in k.todo :
        /\ batch[x] = None /\ batch' = [batch EXCEPT ![x] = k.nextB[x]]
        /\ call' = [call EXCEPT ![c] = IF k.todo = {x} THEN Written(k)
                                       ELSE [k EXCEPT !.todo = @ \ {x}]]
        /\ clock' = IF k.todo = {x} /\ Ticks(k) THEN clock + 1 ELSE clock
        /\ UNCHANGED <<stock, log, served, stops, opening, missed, drift>>
  BY <1>0 DEF CreateBatch
<1>3. x \in Batches /\ k.nextB[x] \in Row /\ k.todo \in SUBSET Batches
  <2>1. x \in Rows(k.nextB) /\ k.todo \in SUBSET Batches
    BY <1>1, CallType DEF CallFits
  <2> QED
    BY <1>1, <2>1, HeldType DEF Rows, Loc
<1>4. batch' \in Books /\ batch'[x] = k.nextB[x] /\ \A y \in Batches \ {x} : batch'[y] = batch[y]
  BY <1>1, <1>2, <1>3 DEF Books
<1>5. PICK w : w = IF k.todo = {x} THEN Written(k) ELSE [k EXCEPT !.todo = @ \ {x}]
  OBVIOUS
<1>6. /\ w \in Call /\ clock' \in Nat /\ clock <= clock' /\ w.entry.at <= clock'
      /\ w.pc = "create" => /\ w.nextB = k.nextB /\ w.todo # {} /\ w.todo \subseteq Rows(w.nextB)
                            /\ w.edit = k.edit
      /\ w.pc \in {"create", "log", "idle"} /\ (w.pc = "idle" => w = Idle /\ k.edit)
      /\ w.pc = "log" => ~w.edit /\ ~k.edit
      /\ w.pc # "idle" =>
           /\ w.old = k.old /\ w.entry.eff = k.entry.eff /\ w.entry.of = k.entry.of
           /\ w.entry.prev = k.entry.prev /\ w.entry.covered = k.entry.covered
           /\ w.entry.missed = k.entry.missed /\ w.entry.cancelled = k.entry.cancelled
           /\ k.entry.at # 0 => w.entry.at = k.entry.at
  <2>1. CASE k.todo # {x}
    <3>1. w = [k EXCEPT !.todo = k.todo \ {x}] /\ clock' = clock
      BY <1>2, <1>5, <2>1
    <3>2. k.todo \ {x} \in SUBSET Batches /\ k.todo \ {x} # {}
          /\ k.todo \ {x} \subseteq Rows(k.nextB)
      BY <1>1, <1>3, <2>1 DEF CallFits
    <3>3. /\ w \in Call /\ w.pc = "create" /\ w.nextB = k.nextB /\ w.todo = k.todo \ {x}
          /\ w.edit = k.edit /\ w.old = k.old /\ w.entry = k.entry
      BY <1>1, <3>1, <3>2 DEF Call
    <3> QED
      BY <1>1, <3>1, <3>2, <3>3
  <2>2. CASE k.todo = {x} /\ k.edit
    <3>1. w = Idle /\ clock' = clock
      BY <1>2, <1>5, <2>2 DEF Written, Ticks
    <3> QED
      BY <1>1, <2>2, <3>1, IdleType
  <2>3. CASE k.todo = {x} /\ ~k.edit
    <3>1. w = Written(k) /\ clock' = IF Ticks(k) THEN clock + 1 ELSE clock
      BY <1>2, <1>5, <2>3
    <3> QED
      BY <1>1, <2>3, <3>1, WrittenIs
  <2> QED
    BY <2>1, <2>2, <2>3
<1>7. /\ call' = [call EXCEPT ![c] = w]
      /\ call' \in [Calls -> Call] /\ call'[c] = w /\ \A d \in Calls \ {c} : call'[d] = call[d]
  BY <1>1, <1>2, <1>5, <1>6 DEF TypeOK
<1>8. CallFits(call[c])' /\ CancelFits(call[c])'
  <2>1. CASE w.pc = "idle"
    BY <1>6, <1>7, <2>1, IdleFits
  <2>2. CASE w.pc # "idle"
    <3>1. CallFits(call[c])'
      BY <1>1, <1>6, <1>7, <2>2 DEF CallFits
    <3>2. k.entry.of # 0 => w.entry.at = k.entry.at
      <4>1. k.entry.of # 0 => log[k.entry.of] \in Entry /\ k.entry.at > log[k.entry.of].at
        BY <1>1 DEF CancelFits, TypeOK
      <4>2. k.entry.of # 0 => log[k.entry.of].at \in Nat
        BY <4>1 DEF Entry
      <4> QED
        BY <1>1, <1>6, <2>2, <4>1, <4>2
    <3>3. CancelFits(call[c])'
      BY <1>1, <1>2, <1>6, <1>7, <2>2, <3>2 DEF CancelFits
    <3> QED
      BY <3>1, <3>3
  <2> QED
    BY <2>1, <2>2
<1>9. Inward(c)
  <2>1. drift' \subseteq Flags /\ drift \subseteq drift' /\ served' \in Nat /\ stops' \in Nat
    BY <1>1, <1>2 DEF TypeOK, Flags
  <2>2. ~At(c, "mark") /\ ~At(c, "mark")'
    BY <1>0, <1>1, <1>6, <1>7 DEF At
  <2> QED
    BY <1>2, <1>4, <1>6, <1>7, <1>8, <2>1, <2>2 DEF Inward, Beside
<1>10. Batchwise(c)
  <2>1. Wrote(c) /\ Within(c, {"create", "log", "idle"})'
    BY <1>0, <1>1, <1>6, <1>7 DEF Wrote, Within
  <2>2. Wrote(c)' => call'[c].nextB = call[c].nextB
    BY <1>0, <1>6, <1>7 DEF Wrote, Within
  <2>3. ~call[c].edit => Pending(c)' /\ Carries(c)
    BY <1>0, <1>6, <1>7 DEF Pending, Within, Carries
  <2>4. call[c].edit => ~Pending(c)' /\ Cancels(c)' = 0
    BY <1>0, <1>1, <1>6, <1>7, IdleType DEF Pending, Within, Cancels, CallFits
  <2>5. call'[c].old => call[c].old
    BY <1>0, <1>6, <1>7, IdleType
  <2>6. Fresh(c)' => Fresh(c)
    BY <1>0, <1>1, <1>6, <1>7 DEF Fresh, Within
  <2> QED
    BY <1>9, <2>1, <2>2, <2>3, <2>4, <2>5, <2>6 DEF Batchwise
<1>11. /\ Types' /\ Entries' /\ Plans' /\ FreshOne' /\ Took' /\ LastTook' /\ OnceEach'
       /\ LogExplainsRow' /\ CancelledOnceUnlessRaced'
       /\ Free({"raced"})' => \A d \in Calls : Wrote(d) => d = c
  BY <1>10, BatchwiseRest
<1>12. \A d \in Calls : Wrote(d)' => Wrote(d) /\ call'[d].nextB = call[d].nextB
  BY <1>0, <1>1, <1>6, <1>7 DEF Wrote, Within
<1>13. Free({"raced"})' => \A y \in Batches : batch'[y] \in {None, k.nextB[y]}
  <2>1. Free({"raced"})' => \A y \in Batches : batch[y] \in {None, k.nextB[y]}
    BY <1>0, <1>1, <1>2, FreeShrinks DEF IInv, Halfway, At
  <2> QED
    BY <1>3, <1>4, <2>1
<1>14. Free({"raced", "loose", "kept"})' => \A l \in Loc : Total(k.nextB)[l] <= stock[l]
  <2>1. Wrote(c)
    BY <1>0, <1>1 DEF Wrote, Within
  <2> QED
    BY <1>0, <1>2, <2>1, FreeShrinks DEF IInv, Halfway
<1>15. Halfway'
  <2>1. Free({"raced"})' => \A d, e \in Calls : Wrote(d)' /\ Wrote(e)' => d = e
    BY <1>11, <1>12
  <2>2. ASSUME Free({"raced"})', NEW d \in Calls, At(d, "create")', NEW y \in Batches
        PROVE  batch'[y] \in {None, call'[d].nextB[y]}
    <3>1. Wrote(d)'
      BY <2>2 DEF At, Wrote, Within
    <3>2. d = c /\ call'[d].nextB = k.nextB
      BY <1>0, <1>11, <1>12, <2>2, <3>1
    <3> QED
      BY <1>13, <2>2, <3>2
  <2>3. ASSUME Free({"raced", "loose", "kept"})', NEW d \in Calls, Wrote(d)', NEW l \in Loc
        PROVE  Total(call'[d].nextB)[l] <= stock'[l]
    <3>1. Free({"raced"})'
      BY <2>3 DEF Free
    <3>2. d = c /\ call'[d].nextB = k.nextB
      BY <1>0, <1>11, <1>12, <2>3, <3>1
    <3> QED
      BY <1>2, <1>14, <2>3, <3>2
  <2> QED
    BY <2>1, <2>2, <2>3 DEF Halfway
<1>16. BatchesWithinRow'
  <2> SUFFICES ASSUME Free({"raced", "loose", "kept"})', NEW l \in Loc
               PROVE  Total(batch')[l] <= stock'[l]
    BY DEF BatchesWithinRow
  <2>1. \A y \in Batches : batch'[y] \in {None, k.nextB[y]}
    BY <1>13 DEF Free
  <2>2. Total(batch')[l] <= Total(k.nextB)[l]
    BY <1>1, <1>4, <2>1, SomeTotal
  <2>3. Total(batch')[l] \in Nat /\ Total(k.nextB)[l] \in Nat /\ stock[l] \in Nat
    BY <1>1, <1>4, TotalType DEF TypeOK, Row
  <2> QED
    BY <1>2, <1>14, <2>2, <2>3
<1> QED
  BY <1>11, <1>15, <1>16 DEF IInv

-----------------------------------------------------------------------------
(* Stopping half-way.                                                      *)

\* A handler that owes the log no more leaves the others what they owe.
LEMMA OwedShrinks ==
  ASSUME Given, TypeOK, NEW c \in Unlogged, Unlogged' = Unlogged \ {c}, NEW l \in Loc,
         \A d \in Unlogged \ {c} : call'[d].entry.eff = call[d].entry.eff
  PROVE  /\ SumFunction(Owed(l)) = SumFunction(Owed(l)') + call[c].entry.eff[l]
         /\ SumFunction(Owed(l)') \in Int
<1> DEFINE f == Owed(l)'
           g == Owed(l)
           D == Unlogged'
           E == Unlogged
<1>1. IsFiniteSet(E) /\ g \in [E -> Int]
  BY OwedType
<1>2. IsFiniteSet(D)
  BY <1>1, FS_Subset
<1>3. \A d \in D : f[d] = g[d] /\ d \in E
  BY DEF Owed
<1>4. f \in [D -> Int]
  BY <1>1, <1>3 DEF Owed
<1>5. g[c] = call[c].entry.eff[l] /\ c \notin D /\ E = D \cup {c}
  BY DEF Owed
<1> HIDE DEF f, g, D, E
<1>6. SumFunction(g) = SumFunction(f) + g[c]
  <2>1. /\ IsFiniteSet(D) /\ f \in [D -> Int] /\ c \notin D /\ g \in [D \cup {c} -> Int]
        /\ \A d \in D : f[d] = g[d]
    BY <1>1, <1>2, <1>3, <1>4, <1>5
  <2> QED
    BY <2>1, SumGrows
<1>7. SumFunction(f) \in Int
  BY <1>2, <1>4, SumType
<1> QED
  BY <1>5, <1>6, <1>7 DEF f, g

\* What a handler that stops leaves behind.
LEMMA StopFacts ==
  ASSUME Given, IInv, NEW c \in Calls, Stop(c)
  PROVE  /\ TypeOK /\ call[c] \in Call /\ call[c].pc # "idle" /\ CallFits(call[c])
         /\ call' \in [Calls -> Call] /\ call'[c] = Idle /\ \A d \in Calls \ {c} : call'[d] = call[d]
         /\ UNCHANGED <<stock, batch, log, clock, served, opening>> /\ stops' \in Nat
         /\ missed' \in [Loc -> Int] /\ (~Pending(c) => missed' = missed)
         /\ Pending(c) => \A l \in Loc : missed'[l] = missed[l] + call[c].entry.eff[l]
         /\ drift \subseteq drift' /\ drift' \subseteq Flags
         /\ Free({"raced"})' /\ Pending(c) => ~call[c].old
         /\ Free({"raced", "loose", "kept"})' => ~At(c, "delete")
         /\ Free({"unmarked"})' => ~At(c, "mark")
<1>1. /\ TypeOK /\ call[c] \in Call /\ call[c].pc # "idle" /\ CallFits(call[c])
      /\ stops \in Nat /\ missed \in [Loc -> Int] /\ call[c].entry.eff \in [Loc -> Int]
  <2>1. TypeOK /\ call[c] \in Call /\ call[c].pc # "idle" /\ CallFits(call[c])
    BY DEF IInv, Types, TypeOK, Stop, At
  <2> QED
    BY <2>1, CallType DEF TypeOK
<1>2. /\ call' = [call EXCEPT ![c] = Idle] /\ stops' \in Nat
      /\ UNCHANGED <<stock, batch, log, clock, served, opening>>
  BY <1>1 DEF Stop, Done
<1>3. /\ call' \in [Calls -> Call] /\ call'[c] = Idle /\ \A d \in Calls \ {c} : call'[d] = call[d]
  BY <1>1, <1>2, IdleType DEF TypeOK
<1>4. missed' = IF Pending(c) THEN Shift(missed, call[c].entry.eff) ELSE missed
  BY DEF Stop
<1>5. /\ missed' \in [Loc -> Int] /\ (~Pending(c) => missed' = missed)
      /\ Pending(c) => \A l \in Loc : missed'[l] = missed[l] + call[c].entry.eff[l]
  BY <1>1, <1>4 DEF Shift
<1>6. /\ drift \subseteq drift' /\ drift' \subseteq Flags
      /\ Pending(c) /\ call[c].old => "raced" \in drift'
      /\ At(c, "delete") => "loose" \in drift'
      /\ At(c, "mark") => "unmarked" \in drift'
  BY <1>1 DEF Stop, TypeOK, Flags
<1>7. /\ Free({"raced"})' /\ Pending(c) => ~call[c].old
      /\ Free({"raced", "loose", "kept"})' => ~At(c, "delete")
      /\ Free({"unmarked"})' => ~At(c, "mark")
  BY <1>6 DEF Free
<1> QED
  BY <1>1, <1>2, <1>3, <1>5, <1>6, <1>7

\* The types, the log, and what the others plan stay,
LEMMA StopPlans ==
  ASSUME Given, IInv, NEW c \in Calls, Stop(c)
  PROVE  Types' /\ Entries' /\ Plans'
<1>1. /\ TypeOK /\ call' \in [Calls -> Call] /\ call'[c] = Idle
      /\ \A d \in Calls \ {c} : call'[d] = call[d]
      /\ UNCHANGED <<stock, batch, log, clock, served, opening>> /\ stops' \in Nat
      /\ missed' \in [Loc -> Int] /\ drift \subseteq drift' /\ drift' \subseteq Flags
  BY StopFacts
<1>2. TypeOK'
  BY <1>1 DEF TypeOK, Flags
<1>3. ASSUME NEW d \in Calls PROVE CallFits(call[d])' /\ CancelFits(call[d])'
  <2>1. CASE d = c
    BY <1>1, <2>1, IdleFits DEF TypeOK
  <2>2. CASE d # c
    BY <1>1, <2>2 DEF IInv, Types, CallFits, CancelFits
  <2> QED
    BY <2>1, <2>2
<1>4. Entries'
  <2>1. \A i \in DOMAIN log' : EntryFits(i)'
    BY <1>1 DEF IInv, Entries, EntryFits
  <2>2. \A d \in Calls : At(d, "mark")' => At(d, "mark") /\ Cancels(d)' = Cancels(d)
    BY <1>1, IdleType DEF At, Cancels
  <2> QED
    BY <1>1, <2>1, <2>2 DEF IInv, Entries
<1>5. \A pcs : \A d \in Calls \ {c} : Within(d, pcs)' <=> Within(d, pcs)
  BY <1>1 DEF Within
<1>6. ASSUME NEW d \in Calls PROVE Undisturbed(d)'
  <2>1. CASE d = c
    BY <1>1, <2>1, IdleType DEF Undisturbed, Planning
  <2>2. CASE d # c
    <3>1. Undisturbed(d) /\ call'[d] = call[d]
      BY <1>1, <2>2 DEF IInv, Plans
    <3>2. Midway(d)' => Midway(d)
      BY <1>1, <1>5, IdleType DEF Midway, Within
    <3> QED
      BY <3>1, <3>2 DEF Undisturbed, Cancels, At
  <2> QED
    BY <2>1, <2>2
<1>7. ASSUME Free({"raced"})', NEW d \in Calls PROVE Planned(call[d])' /\ Calm(d)'
  <2>1. CASE d = c
    BY <1>1, <2>1, IdleType DEF Planned, Calm, Planning
  <2>2. CASE d # c
    <3>1. Planned(call[d]) /\ Calm(d) /\ call'[d] = call[d]
      BY <1>1, <1>7, <2>2, FreeShrinks DEF IInv, Plans
    <3>2. Planned(call[d])'
      BY <1>1, <3>1 DEF Planned, PlansMovement, PlansCancel, Covered
    <3>3. \A e \in Calls \ {d} : Within(e, {"delete", "create", "log", "mark"})'
                                   => Within(e, {"delete", "create", "log", "mark"})
      BY <1>1, <1>5, IdleType DEF Within
    <3>4. Calm(d)'
      BY <1>1, <3>1, <3>3 DEF Calm, Cancels, IsLatest
    <3> QED
      BY <3>2, <3>4
  <2> QED
    BY <2>1, <2>2
<1> QED
  BY <1>2, <1>3, <1>4, <1>6, <1>7 DEF Types, Plans

\* ... the batches are not more than the row says,
LEMMA StopWithin ==
  ASSUME Given, IInv, NEW c \in Calls, Stop(c)
  PROVE  FreshOne' /\ Halfway' /\ BatchesWithinRow'
<1>1. /\ call'[c] = Idle /\ \A d \in Calls \ {c} : call'[d] = call[d]
      /\ UNCHANGED <<stock, batch, log, clock, served, opening>> /\ drift \subseteq drift'
      /\ Free({"raced", "loose", "kept"})' => ~At(c, "delete")
  BY StopFacts
<1>2. \A F : Free(F)' => Free(F)
  BY <1>1, FreeShrinks
<1>3. \A d \in Calls : /\ Fresh(d)' => Fresh(d)
                       /\ Wrote(d)' => Wrote(d) /\ call'[d] = call[d]
                       /\ At(d, "create")' => At(d, "create")
  BY <1>1, IdleType DEF Fresh, Wrote, Within, At
<1>4. FreshOne'
  BY <1>3 DEF IInv, FreshOne
<1>5. Halfway'
  <2>1. Free({"raced"})' => \A d, e \in Calls : Wrote(d)' /\ Wrote(e)' => d = e
    BY <1>2, <1>3 DEF IInv, Halfway
  <2>2. ASSUME Free({"raced"})', NEW d \in Calls, At(d, "create")', NEW x \in Batches
        PROVE  batch'[x] \in {None, call'[d].nextB[x]}
    <3>1. At(d, "create") /\ Wrote(d)'
      BY <1>3, <2>2 DEF Wrote, Within, At
    <3> QED
      BY <1>1, <1>2, <1>3, <2>2, <3>1 DEF IInv, Halfway
  <2>3. ASSUME Free({"raced", "loose", "kept"})', NEW d \in Calls, Wrote(d)', NEW l \in Loc
        PROVE  Total(call'[d].nextB)[l] <= stock'[l]
    BY <1>1, <1>2, <1>3, <2>3 DEF IInv, Halfway
  <2> QED
    BY <2>1, <2>2, <2>3 DEF Halfway
<1>6. BatchesWithinRow'
  <2> SUFFICES ASSUME Free({"raced", "loose", "kept"})', \A d \in Calls : ~At(d, "delete")',
                      NEW l \in Loc
               PROVE  Total(batch)[l] <= stock[l]
    BY <1>1 DEF BatchesWithinRow
  <2>1. \A d \in Calls : ~At(d, "delete")
    BY <1>1 DEF At
  <2> QED
    BY <1>2, <2>1 DEF IInv, BatchesWithinRow
<1> QED
  BY <1>4, <1>5, <1>6

\* ... what it wrote is missed, and explains the row as its movement would have done,
LEMMA StopExplained ==
  ASSUME Given, IInv, NEW c \in Calls, Stop(c)
  PROVE  LogExplainsRow'
<1>1. /\ TypeOK /\ call'[c] = Idle /\ \A d \in Calls \ {c} : call'[d] = call[d]
      /\ UNCHANGED <<stock, batch, log, clock, served, opening>> /\ drift \subseteq drift'
      /\ missed' \in [Loc -> Int] /\ (~Pending(c) => missed' = missed)
      /\ Pending(c) => \A l \in Loc : missed'[l] = missed[l] + call[c].entry.eff[l]
  BY StopFacts
<1>2. \A d \in Calls : Pending(d)' <=> Pending(d) /\ d # c
  BY <1>1, IdleType DEF Pending, Within
<1>3. Unlogged' = Unlogged \ {c}
  BY <1>2 DEF Unlogged
<1>4. \A l \in Loc : Logged(l)' = Logged(l)
  BY <1>1 DEF Logged
<1>5. CASE ~Pending(c)
  <2>1. Unlogged' = Unlogged
    BY <1>3, <1>5 DEF Unlogged
  <2>2. \A l \in Loc : Owed(l)' = Owed(l)
    BY <1>1, <1>5, <2>1 DEF Owed, Unlogged
  <2> QED
    BY <1>1, <1>4, <1>5, <2>2, ExplainedStill DEF IInv
<1>6. CASE Pending(c)
  <2> SUFFICES ASSUME Free({"raced", "uncovered", "edited", "backdated"})', NEW l \in Loc
               PROVE  stock'[l] = opening'[l] + SumFunction(Logged(l)') + SumFunction(Owed(l)')
                                    + missed'[l]
    BY DEF LogExplainsRow, Logged, Owed
  <2>1. stock[l] = opening[l] + SumFunction(Logged(l)) + SumFunction(Owed(l)) + missed[l]
    <3>1. Free({"raced", "uncovered", "edited", "backdated"})
      BY <1>1, FreeShrinks
    <3> QED
      BY <3>1 DEF IInv, LogExplainsRow, Logged, Owed
  <2>2. SumFunction(Owed(l)) = SumFunction(Owed(l)') + call[c].entry.eff[l]
        /\ SumFunction(Owed(l)') \in Int
    <3>1. c \in Unlogged /\ \A d \in Unlogged \ {c} : call'[d].entry.eff = call[d].entry.eff
      BY <1>1, <1>6 DEF Unlogged
    <3> QED
      BY <1>1, <1>3, <3>1, OwedShrinks
  <2>3. SumFunction(Logged(l)) \in Int /\ opening[l] \in Int /\ missed[l] \in Int
        /\ missed'[l] = missed[l] + call[c].entry.eff[l] /\ call[c].entry.eff[l] \in Int
    <3>1. call[c].entry.eff \in [Loc -> Int]
      BY <1>1, CallType DEF TypeOK
    <3> QED
      BY <1>1, <1>6, <3>1, LoggedType DEF TypeOK, Row
  <2> QED
    BY <1>1, <1>4, <2>1, <2>2, <2>3
<1> QED
  BY <1>5, <1>6

\* ... and what the batches of a movement make up is what it was, with what is missed.
LEMMA StopTook ==
  ASSUME Given, IInv, NEW c \in Calls, Stop(c)
  PROVE  Took' /\ LastTook'
<1>1. /\ TypeOK /\ call'[c] = Idle /\ \A d \in Calls \ {c} : call'[d] = call[d]
      /\ UNCHANGED <<stock, batch, log, clock, served, opening>> /\ drift \subseteq drift'
      /\ missed' \in [Loc -> Int] /\ (~Pending(c) => missed' = missed)
      /\ Pending(c) => \A l \in Loc : missed'[l] = missed[l] + call[c].entry.eff[l]
      /\ Free({"raced"})' /\ Pending(c) => ~call[c].old
  BY StopFacts
<1>2. \A d \in Calls : Pending(d)' <=> Pending(d) /\ d # c
  BY <1>1, IdleType DEF Pending, Within
<1>3. ASSUME Free({"raced"})', Pending(c), NEW d \in Calls, Pending(d), d # c
      PROVE  call[d].old
  <2>1. Fresh(c) /\ (~call[d].old => Fresh(d))
    BY <1>1, <1>3 DEF Fresh, Pending
  <2> QED
    BY <1>3, <2>1 DEF IInv, FreshOne
<1>4. Took'
  <2> SUFFICES ASSUME Free({"raced"})', NEW d \in Calls, Pending(d)', ~call'[d].old
               PROVE  TookFrom(call[d].entry, Empty)'
    BY DEF Took
  <2>1. Pending(d) /\ d # c /\ call'[d] = call[d] /\ ~Pending(c)
    BY <1>1, <1>2, <1>3
  <2>2. TookFrom(call[d].entry, Empty)
    BY <1>1, <2>1, FreeShrinks DEF IInv, Took
  <2> QED
    BY <1>1, <2>1, <2>2 DEF TookFrom
<1>5. LastTook'
  <2> SUFFICES ASSUME Free({"raced", "edited", "backdated"})', log # <<>>,
                      \A d \in Unlogged' : ~call'[d].old
               PROVE  /\ Unlogged' = {} => TookFrom(log[Len(log)], Empty)'
                      /\ \A d \in Unlogged' : TookFrom(log[Len(log)], call[d].entry.eff)'
    BY <1>1 DEF LastTook
  <2>1. Free({"raced", "edited", "backdated"}) /\ Free({"raced"})'
    BY <1>1, FreeShrinks DEF Free
  <2>2. CASE ~Pending(c)
    <3>1. Unlogged' = Unlogged /\ \A d \in Unlogged : call'[d] = call[d]
      BY <1>1, <1>2, <2>2 DEF Unlogged
    <3>2. /\ Unlogged = {} => TookFrom(log[Len(log)], Empty)
          /\ \A d \in Unlogged : TookFrom(log[Len(log)], call[d].entry.eff)
      BY <2>1, <3>1 DEF IInv, LastTook
    <3> QED
      BY <1>1, <2>2, <3>1, <3>2 DEF TookFrom
  <2>3. CASE Pending(c)
    <3>1. Unlogged' = {}
      BY <1>1, <1>2, <1>3, <2>1, <2>3 DEF Unlogged
    <3>2. \A d \in Unlogged : ~call[d].old
      <4>1. \A d \in Unlogged : d = c
        BY <1>2, <3>1 DEF Unlogged
      <4> QED
        BY <1>1, <2>1, <2>3, <4>1
    <3>3. TookFrom(log[Len(log)], call[c].entry.eff)
      BY <2>1, <2>3, <3>2 DEF IInv, LastTook, Unlogged
    <3>4. PICK e, eff : e = log[Len(log)] /\ eff = call[c].entry.eff
      OBVIOUS
    <3>6. /\ e.eff \in [Loc -> Int] /\ e.missed \in [Loc -> Int] /\ eff \in [Loc -> Int]
          /\ stock \in [Loc -> Int] /\ missed \in [Loc -> Int]
      <4>1. e \in Entry
        <5>1. Len(log) \in DOMAIN log
          BY <1>1 DEF TypeOK
        <5> QED
          BY <1>1, <3>4, <5>1 DEF TypeOK
      <4>2. e.eff \in [Loc -> Int] /\ e.missed \in [Loc -> Int]
        BY <4>1 DEF Entry
      <4> QED
        BY <1>1, <3>4, <4>2, CallType, RowIsInt DEF TypeOK
    <3>7. /\ stock' = stock /\ \A l \in Loc : missed'[l] = missed[l] + eff[l] /\ Empty[l] = 0
      BY <1>1, <2>3, <3>4, EmptyType
    <3>8. \A l \in Loc : stock[l] - e.eff[l] - (missed[l] - e.missed[l]) - eff[l]
                          = stock'[l] - e.eff[l] - (missed'[l] - e.missed[l]) - Empty[l]
      BY <3>6, <3>7
    <3>9. TookFrom(e, eff)
      BY <3>3, <3>4
    <3>10. TookFrom(e, Empty)'
      BY <3>8, <3>9 DEF TookFrom
    <3>5. TookFrom(log[Len(log)], Empty)'
      BY <1>1, <3>4, <3>10
    <3> QED
      BY <3>1, <3>5
  <2> QED
    BY <2>2, <2>3
<1> QED
  BY <1>4, <1>5

\* Stopping keeps the invariant.
LEMMA StepStop ==
  ASSUME Given, IInv, NEW c \in Calls, Stop(c)
  PROVE  IInv'
<1>1. /\ call'[c] = Idle /\ \A d \in Calls \ {c} : call'[d] = call[d]
      /\ log' = log /\ drift \subseteq drift' /\ (Free({"unmarked"})' => ~At(c, "mark"))
  BY StopFacts
<1>2. Free({"raced"})' => Free({"raced"})
  BY <1>1, FreeShrinks
<1>3. OnceEach'
  <2>1. \A d \in Calls : /\ Cancels(d)' = IF d = c THEN 0 ELSE Cancels(d)
                         /\ Waiting(d)' => Waiting(d)
    BY <1>1, IdleType DEF Cancels, Waiting, Within
  <2> SUFFICES ASSUME Free({"raced"})'
               PROVE  /\ \A d, e \in Calls : d # e /\ Cancels(d)' # 0 => Cancels(d)' # Cancels(e)'
                      /\ \A d \in Calls : Cancels(d)' # 0 /\ Waiting(d)' =>
                           \A i \in DOMAIN log : log[i].of # Cancels(d)'
    BY <1>1 DEF OnceEach
  <2>2. /\ \A d, e \in Calls : d # e /\ Cancels(d) # 0 => Cancels(d) # Cancels(e)
        /\ \A d \in Calls : Cancels(d) # 0 /\ Waiting(d) =>
             \A i \in DOMAIN log : log[i].of # Cancels(d)
    BY <1>2 DEF IInv, OnceEach
  <2>3. \A d, e \in Calls : d # e /\ Cancels(d)' # 0 => Cancels(d)' # Cancels(e)'
    BY <2>1, <2>2
  <2>4. \A d \in Calls : Cancels(d)' # 0 /\ Waiting(d)' =>
          \A i \in DOMAIN log : log[i].of # Cancels(d)'
    BY <2>1, <2>2
  <2> QED
    BY <2>3, <2>4
<1>4. CancelledOnceUnlessRaced'
  <2> SUFFICES ASSUME Free({"raced"})', NEW i \in DOMAIN log, NEW j \in DOMAIN log, log[i].of # 0
               PROVE  /\ log[j].of = log[i].of => i = j
                      /\ \/ log[log[i].of].cancelled \/ ~Free({"unmarked"})'
                         \/ \E d \in Calls : At(d, "mark")' /\ call'[d].entry.of = log[i].of
    BY <1>1 DEF CancelledOnceUnlessRaced
  <2>1. /\ log[j].of = log[i].of => i = j
        /\ \/ log[log[i].of].cancelled \/ ~Free({"unmarked"})
           \/ \E d \in Calls : At(d, "mark") /\ call[d].entry.of = log[i].of
    BY <1>2 DEF IInv, CancelledOnceUnlessRaced
  <2>2. Free({"unmarked"})' => Free({"unmarked"}) /\ ~At(c, "mark")
    BY <1>1, FreeShrinks
  <2>3. ASSUME Free({"unmarked"})', NEW d \in Calls, At(d, "mark"), call[d].entry.of = log[i].of
        PROVE  At(d, "mark")' /\ call'[d].entry.of = log[i].of
    BY <1>1, <2>2, <2>3 DEF At
  <2> QED
    BY <2>1, <2>2, <2>3
<1> QED
  BY <1>3, <1>4, StopPlans, StopWithin, StopExplained, StopTook DEF IInv

-----------------------------------------------------------------------------
(* Writing the row.                                                        *)

\* A handler that did not write keeps what it carries, but what it read is old.
Aged(d) ==
  /\ call'[d].pc = call[d].pc /\ call'[d].edit = call[d].edit
  /\ call'[d].tracked = call[d].tracked /\ call'[d].next = call[d].next
  /\ call'[d].nextB = call[d].nextB /\ call'[d].todo = call[d].todo
  /\ call'[d].entry = call[d].entry
  /\ call'[d].pc # "idle" => call'[d].old
  /\ call'[d].pc = "idle" => call'[d] = Idle

\* When a row is written, the others keep what they carry, and are outdated.
LEMMA OutdatedIs ==
  ASSUME IInv, NEW d \in Calls
  PROVE  /\ Outdated[d] \in Call /\ Outdated[d].pc = call[d].pc /\ Outdated[d].edit = call[d].edit
         /\ Outdated[d].tracked = call[d].tracked /\ Outdated[d].next = call[d].next
         /\ Outdated[d].nextB = call[d].nextB /\ Outdated[d].todo = call[d].todo
         /\ Outdated[d].entry = call[d].entry
         /\ Outdated[d].pc # "idle" => Outdated[d].old
         /\ Outdated[d].pc = "idle" => Outdated[d] = Idle
<1>1. call[d] \in Call /\ (call[d].pc = "idle" => call[d] = Idle)
  BY DEF IInv, Types, TypeOK, CallFits
<1>2. CASE call[d].pc = "idle"
  <2>1. Outdated[d] = call[d] /\ call[d] = Idle
    BY <1>1, <1>2 DEF Outdated, At
  <2> QED
    BY <1>1, <1>2, <2>1
<1>3. CASE call[d].pc # "idle"
  <2>1. Outdated[d] = [call[d] EXCEPT !.old = TRUE]
    BY <1>3 DEF Outdated, At
  <2> QED
    BY <1>1, <1>3, <2>1 DEF Call
<1> QED
  BY <1>2, <1>3

Bare(c) == Rows(call[c].nextB) = {}

\* What the write of a row does.
LEMMA WriteFacts ==
  ASSUME Given, IInv, NEW c \in Calls, WriteRow(c)
  PROVE  /\ TypeOK /\ call[c] \in Call /\ call[c].pc = "write"
         /\ CallFits(call[c]) /\ CancelFits(call[c])
         /\ stock' = call[c].next /\ stock' \in Row
         /\ UNCHANGED <<batch, log, served, stops, opening>>
         /\ missed' \in [Loc -> Int]
         /\ missed' = IF Restores(call[c]) THEN log[call[c].entry.of].missed ELSE missed
         /\ drift \subseteq drift' /\ drift' \subseteq Flags
<1>1. /\ TypeOK /\ call[c] \in Call /\ call[c].pc = "write"
      /\ CallFits(call[c]) /\ CancelFits(call[c])
  BY DEF IInv, Types, TypeOK, WriteRow, At
<1>2. stock' = call[c].next /\ UNCHANGED <<batch, log, served, stops, opening>>
  BY DEF WriteRow
<1>3. stock' \in Row
  BY <1>1, <1>2, CallType
<1>4. missed' = IF Restores(call[c]) THEN log[call[c].entry.of].missed ELSE missed
  BY DEF WriteRow
<1>5. Restores(call[c]) => log[call[c].entry.of] \in Entry
  BY <1>1 DEF Restores, CancelFits, TypeOK
<1>6. missed' \in [Loc -> Int]
  BY <1>1, <1>4, <1>5 DEF TypeOK, Entry
<1>7. drift \subseteq drift' /\ drift' \subseteq Flags
  BY <1>1 DEF WriteRow, TypeOK, Flags
<1> QED
  BY <1>1, <1>2, <1>3, <1>4, <1>6, <1>7

\* What must not have happened tells how it was written.
LEMMA WriteFree ==
  ASSUME Given, IInv, NEW c \in Calls, WriteRow(c)
  PROVE  /\ Free({"raced"})' => ~call[c].old
         /\ Free({"loose"})' => call[c].tracked \/ (Bare(c) /\ ~Tracked)
         /\ Free({"kept"})' => ~(call[c].tracked /\ Bare(c) /\ Tracked)
         /\ Free({"uncovered"})' /\ Restores(call[c]) => log[call[c].entry.of].covered
         /\ Free({"backdated"})' /\ Restores(call[c]) => ~Backdated(call[c].entry.of)
         /\ Free({"edited"})' /\ call[c].edit => stock' = stock
<1>1. /\ call[c].old => "raced" \in drift'
      /\ ~call[c].tracked /\ (Tracked \/ ~Bare(c)) => "loose" \in drift'
      /\ call[c].tracked /\ Bare(c) /\ Tracked => "kept" \in drift'
      /\ Restores(call[c]) /\ ~log[call[c].entry.of].covered => "uncovered" \in drift'
      /\ Restores(call[c]) /\ Backdated(call[c].entry.of) => "backdated" \in drift'
      /\ call[c].edit /\ stock' # stock => "edited" \in drift'
  BY DEF WriteRow, Bare
<1> QED
  BY <1>1 DEF Free

\* What becomes of the handler itself, and of the others.
LEMMA WriteCalls ==
  ASSUME Given, IInv, NEW c \in Calls, WriteRow(c)
  PROVE  /\ call' \in [Calls -> Call] /\ \A d \in Calls \ {c} : Aged(d)
         /\ clock' \in Nat /\ clock <= clock'
         /\ Bare(c) => call'[c].pc = "log" /\ ~call[c].edit
         /\ ~Bare(c) => call'[c].pc = "delete" /\ call'[c].nextB = call[c].nextB
         /\ call'[c].edit = call[c].edit /\ ~call'[c].old
         /\ call'[c].entry.eff = call[c].entry.eff /\ call'[c].entry.of = call[c].entry.of
         /\ call'[c].entry.prev = call[c].entry.prev
         /\ call'[c].entry.covered = call[c].entry.covered
         /\ call'[c].entry.missed = missed' /\ ~call'[c].entry.cancelled
         /\ call'[c].entry.at <= clock'
         /\ call[c].entry.at # 0 => call'[c].entry.at = call[c].entry.at
<1>0. PICK k : k = call[c]
  OBVIOUS
<1>1. PICK e : e = [k.entry EXCEPT !.missed = missed']
  OBVIOUS
<1>2. PICK w : w = [Idle EXCEPT !.pc = "delete", !.edit = k.edit, !.nextB = k.nextB, !.entry = e]
  OBVIOUS
<1>3. PICK v : v = IF Rows(k.nextB) = {} THEN Written(w) ELSE w
  OBVIOUS
<1>4. /\ call' = [Outdated EXCEPT ![c] = v]
      /\ clock' = IF Rows(k.nextB) = {} /\ Ticks(k) THEN clock + 1 ELSE clock
  BY <1>0, <1>1, <1>2, <1>3 DEF WriteRow
<1>5. /\ k \in Call /\ k.pc = "write" /\ CallFits(k) /\ missed' \in [Loc -> Int] /\ clock \in Nat
      /\ k.entry \in Entry /\ k.entry.at \in Nat /\ k.entry.at <= clock /\ ~k.entry.cancelled
      /\ k.nextB \in Books /\ k.edit \in BOOLEAN
  <2>1. k \in Call /\ k.pc = "write" /\ CallFits(k) /\ missed' \in [Loc -> Int] /\ clock \in Nat
    BY <1>0, WriteFacts DEF TypeOK
  <2> QED
    BY <2>1, CallType DEF CallFits
<1>6. /\ e \in Entry /\ e.eff = k.entry.eff /\ e.of = k.entry.of /\ e.prev = k.entry.prev
      /\ e.covered = k.entry.covered /\ e.cancelled = k.entry.cancelled /\ e.at = k.entry.at
      /\ e.missed = missed'
  BY <1>1, <1>5 DEF Entry
<1>7. /\ w \in Call /\ w.pc = "delete" /\ w.edit = k.edit /\ w.nextB = k.nextB /\ w.entry = e
      /\ ~w.old
  BY <1>2, <1>5, <1>6, IdleType DEF Idle, Call
<1>8. Ticks(w) <=> Ticks(k)
  BY <1>6, <1>7 DEF Ticks
<1>9. /\ v \in Call /\ clock' \in Nat /\ clock <= clock'
      /\ Rows(k.nextB) = {} => v.pc = "log" /\ ~k.edit
      /\ Rows(k.nextB) # {} => v.pc = "delete" /\ v.nextB = k.nextB
      /\ v.edit = k.edit /\ ~v.old
      /\ v.entry.eff = k.entry.eff /\ v.entry.of = k.entry.of /\ v.entry.prev = k.entry.prev
      /\ v.entry.covered = k.entry.covered /\ v.entry.missed = missed' /\ ~v.entry.cancelled
      /\ v.entry.at <= clock' /\ (k.entry.at # 0 => v.entry.at = k.entry.at)
  <2>1. CASE Rows(k.nextB) # {}
    <3>1. v = w /\ clock' = clock
      BY <1>3, <1>4, <2>1
    <3> QED
      BY <1>5, <1>6, <1>7, <2>1, <3>1
  <2>2. CASE Rows(k.nextB) = {}
    <3>1. ~k.edit
      BY <1>5, <2>2 DEF CallFits
    <3>2. v = Written(w) /\ clock' = IF Ticks(w) THEN clock + 1 ELSE clock
      BY <1>3, <1>4, <1>8, <2>2
    <3>3. /\ v \in Call /\ v.pc = "log" /\ v.old = w.old /\ ~v.edit
          /\ v.entry.eff = e.eff /\ v.entry.of = e.of /\ v.entry.prev = e.prev
          /\ v.entry.covered = e.covered /\ v.entry.missed = e.missed
          /\ v.entry.cancelled = e.cancelled
          /\ Ticks(w) <=> e.at = 0
          /\ Ticks(w) => v.entry.at = clock + 1
          /\ ~Ticks(w) => v.entry.at = e.at
      BY <1>5, <1>6, <1>7, <3>1, <3>2, WrittenIs
    <3>4. /\ clock' \in Nat /\ clock <= clock' /\ v.entry.at <= clock'
          /\ k.entry.at # 0 => v.entry.at = k.entry.at
      BY <1>5, <1>6, <3>2, <3>3
    <3>5. ~v.old /\ ~v.entry.cancelled
      BY <1>5, <1>6, <1>7, <3>3
    <3>6. v.edit = k.edit
      <4>1. v.edit \in BOOLEAN
        BY <3>3, CallType
      <4> QED
        BY <1>5, <3>1, <3>3, <4>1
    <3> QED
      BY <1>6, <2>2, <3>1, <3>3, <3>4, <3>5, <3>6
  <2> QED
    BY <2>1, <2>2
<1>10. Outdated \in [Calls -> Call]
  <2>1. \A d \in Calls : Outdated[d] \in Call
    BY OutdatedIs
  <2>2. DOMAIN Outdated = Calls /\ Outdated = [d \in Calls |-> Outdated[d]]
    BY DEF Outdated
  <2> HIDE DEF Outdated
  <2> QED
    BY <2>1, <2>2
<1>11. /\ call' \in [Calls -> Call] /\ call'[c] = v
       /\ \A d \in Calls \ {c} : call'[d] = Outdated[d]
  <2> HIDE DEF Outdated
  <2> QED
    BY <1>4, <1>9, <1>10
<1>12. \A d \in Calls \ {c} : Aged(d)
  BY <1>11, OutdatedIs DEF Aged
<1> QED
  BY <1>0, <1>9, <1>11, <1>12 DEF Bare

\* The others no longer plan, and owe nothing that can be relied on.
LEMMA WriteOthers ==
  ASSUME Given, IInv, NEW c \in Calls, WriteRow(c)
  PROVE  /\ \A d \in Calls : ~Planning(call[d])'
         /\ \A d \in Calls : Fresh(d)' => d = c
         /\ \A d \in Calls \ {c} : \A pcs : Within(d, pcs)' <=> Within(d, pcs)
         /\ \A d \in Calls \ {c} : Pending(d)' <=> Pending(d)
         /\ \A d \in Calls : Cancels(d)' = Cancels(d) /\ (Waiting(d)' <=> Waiting(d))
         /\ \A d \in Calls : At(d, "mark")' <=> At(d, "mark")
         /\ ~Pending(c) /\ (Pending(c)' <=> ~call[c].edit)
<1>1. \A d \in Calls \ {c} : Aged(d)
  BY WriteCalls
<1>2. /\ call'[c].pc \in {"delete", "log"} /\ call[c].pc = "write"
      /\ call'[c].entry.of = call[c].entry.of /\ call'[c].edit = call[c].edit
  BY WriteCalls, WriteFacts
<1>3. ASSUME NEW d \in Calls PROVE ~Planning(call[d])' /\ (Fresh(d)' => d = c)
  BY <1>1, <1>2 DEF Aged, Planning, Fresh, Within
<1>4. \A d \in Calls \ {c} : \A pcs : Within(d, pcs)' <=> Within(d, pcs)
  BY <1>1 DEF Aged, Within
<1>5. \A d \in Calls \ {c} : Pending(d)' <=> Pending(d)
  BY <1>1 DEF Aged, Pending, Within
<1>6. \A d \in Calls : Cancels(d)' = Cancels(d) /\ (Waiting(d)' <=> Waiting(d))
  BY <1>1, <1>2 DEF Aged, Cancels, Waiting, Within
<1>7. \A d \in Calls : At(d, "mark")' <=> At(d, "mark")
  BY <1>1, <1>2 DEF Aged, At
<1>8. ~Pending(c) /\ (Pending(c)' <=> ~call[c].edit)
  BY <1>2 DEF Pending, Within
<1> QED
  BY <1>3, <1>4, <1>5, <1>6, <1>7, <1>8

\* The write keeps the types and the log,
LEMMA WriteTypes ==
  ASSUME Given, IInv, NEW c \in Calls, WriteRow(c)
  PROVE  Types' /\ Entries'
<1>1. /\ TypeOK /\ stock' \in Row /\ UNCHANGED <<batch, log, served, stops, opening>>
      /\ missed' \in [Loc -> Int] /\ drift' \subseteq Flags
      /\ CallFits(call[c]) /\ CancelFits(call[c]) /\ call[c] \in Call
  BY WriteFacts
<1>2. /\ call' \in [Calls -> Call] /\ \A d \in Calls \ {c} : Aged(d)
      /\ clock \in Nat /\ clock' \in Nat /\ clock <= clock'
  BY <1>1, WriteCalls DEF TypeOK
<1>3. TypeOK'
  BY <1>1, <1>2 DEF TypeOK, Flags
<1>4. CallFits(call[c])' /\ CancelFits(call[c])'
  <2>1. /\ call'[c].pc \in {"delete", "log"} /\ (call'[c].pc = "log" => ~call'[c].edit)
        /\ call'[c].pc = "delete" => Rows(call'[c].nextB) # {}
        /\ call'[c].edit = call[c].edit
        /\ call'[c].entry.eff = call[c].entry.eff /\ call'[c].entry.of = call[c].entry.of
        /\ call'[c].entry.prev = call[c].entry.prev
        /\ ~call'[c].entry.cancelled /\ call'[c].entry.at <= clock'
        /\ call[c].entry.at # 0 => call'[c].entry.at = call[c].entry.at
    BY WriteCalls DEF Bare
  <2>2. CallFits(call[c])'
    BY <1>1, <2>1 DEF CallFits
  <2>3. call[c].entry.of # 0 => call[c].entry.at # 0
    <3>1. call[c].entry.of # 0 => log[call[c].entry.of] \in Entry
      BY <1>1 DEF CancelFits, TypeOK
    <3>2. call[c].entry.of # 0 => log[call[c].entry.of].at \in Nat
      BY <3>1 DEF Entry
    <3> QED
      BY <1>1, <3>2 DEF CancelFits
  <2>4. CancelFits(call[c])'
    BY <1>1, <2>1, <2>3 DEF CancelFits
  <2> QED
    BY <2>2, <2>4
<1>5. ASSUME NEW d \in Calls \ {c} PROVE CallFits(call[d])' /\ CancelFits(call[d])'
  <2>1. CallFits(call[d]) /\ CancelFits(call[d]) /\ Aged(d) /\ call[d] \in Call
    BY <1>1, <1>2 DEF IInv, Types, TypeOK
  <2>2. call[d].entry.at \in Nat
    BY <2>1, CallType
  <2>3. call'[d].entry.at <= clock'
    BY <1>2, <2>1, <2>2 DEF CallFits, Aged
  <2>4. CallFits(call[d])'
    BY <2>1, <2>3 DEF CallFits, Aged
  <2>5. CancelFits(call[d])'
    BY <1>1, <2>1 DEF CancelFits, Aged
  <2> QED
    BY <2>4, <2>5
<1>6. ASSUME NEW i \in DOMAIN log' PROVE EntryFits(i)'
  <2>1. EntryFits(i) /\ log[i] \in Entry
    BY <1>1 DEF IInv, Entries, TypeOK
  <2>2. log[i].at \in Nat
    BY <2>1 DEF Entry
  <2>3. log[i].at <= clock'
    BY <1>2, <2>1, <2>2 DEF EntryFits
  <2> QED
    BY <1>1, <2>1, <2>3 DEF EntryFits
<1>7. Entries'
  BY <1>1, <1>6, WriteOthers DEF Entries, IInv
<1> QED
  BY <1>3, <1>4, <1>5, <1>7 DEF Types

\* A cancellation that restores the batches takes back the last of the movements.
LEMMA RestoresLast ==
  ASSUME Given, IInv, NEW c \in Calls, WriteRow(c), Restores(call[c]),
         Free({"raced", "backdated"})'
  PROVE  /\ Unlogged = {} /\ log # <<>> /\ call[c].entry.of = Len(log)
         /\ call[c].next = Total(log[Len(log)].prev) /\ log[Len(log)].prev # None
         /\ log[Len(log)].of = 0 /\ call[c].entry.eff = Reverse(log[Len(log)].eff)
         /\ missed' = log[Len(log)].missed
<1>0. PICK m : m = call[c].entry.of
  OBVIOUS
<1>1. /\ TypeOK /\ call[c].pc = "write" /\ CancelFits(call[c]) /\ drift \subseteq drift'
      /\ missed' = log[m].missed /\ CallFits(call[c])
  BY <1>0, WriteFacts
<1>2. Free({"raced"})' /\ Free({"backdated"})'
  BY DEF Free
<1>3. Free({"raced"}) /\ ~call[c].old /\ ~Backdated(m)
  BY <1>0, <1>1, <1>2, WriteFree, FreeShrinks
<1>4. /\ m # 0 /\ m \in DOMAIN log /\ log[m].of = 0 /\ log[m].prev # None
      /\ call[c].entry.eff = Reverse(log[m].eff) /\ ~call[c].edit
  BY <1>0, <1>1 DEF Restores, CancelFits, CallFits
<1>5. Planning(call[c])
  BY <1>1, <1>3 DEF Planning
<1>6. /\ IsLatest(m) /\ \A d \in Calls \ {c} : ~Within(d, {"delete", "create", "log", "mark"})
      /\ call[c].next = Total(log[m].prev)
  <2>1. Planned(call[c]) /\ Calm(c)
    BY <1>3 DEF IInv, Plans
  <2>2. PlansCancel(call[c])
    BY <1>0, <1>4, <1>5, <2>1 DEF Planned
  <2> QED
    BY <1>0, <1>4, <1>5, <2>1, <2>2 DEF Calm, Cancels, PlansCancel
<1>7. Unlogged = {}
  BY <1>1, <1>6 DEF Unlogged, Pending, Within
<1>8. ASSUME NEW i \in DOMAIN log, i > m PROVE log[i].cancelled
  <2>1. log[i] \in Entry /\ log[m] \in Entry
    BY <1>1, <1>4 DEF TypeOK
  <2>2. log[i].at \in Nat /\ log[m].at \in Nat
    BY <2>1 DEF Entry
  <2> QED
    BY <1>3, <1>6, <1>8, <2>2 DEF Backdated, IsLatest
<1>9. m = Len(log) /\ log # <<>>
  BY <1>1, <1>4, <1>8, LatestIsLast DEF TypeOK
<1> QED
  BY <1>0, <1>1, <1>4, <1>6, <1>7, <1>9

\* A write that was not overtaken shifts the row by its effect, and by what is no
\* longer missed, unless it restores batches that did not make up the row.
LEMMA WriteShifts ==
  ASSUME Given, IInv, NEW c \in Calls, WriteRow(c), ~call[c].edit,
         Free({"raced", "edited", "backdated"})',
         Restores(call[c]) => log[call[c].entry.of].covered
  PROVE  \A l \in Loc : stock'[l] = stock[l] + call[c].entry.eff[l] + (missed'[l] - missed[l])
<1>0. PICK k : k = call[c]
  OBVIOUS
<1>1. /\ TypeOK /\ k \in Call /\ k.pc = "write" /\ stock' = k.next /\ drift \subseteq drift'
      /\ missed' = IF Restores(k) THEN log[k.entry.of].missed ELSE missed
      /\ CancelFits(k)
  BY <1>0, WriteFacts
<1>2. Free({"raced"})' /\ Free({"raced", "backdated"})'
  BY DEF Free
<1>3. Free({"raced"}) /\ Free({"raced", "edited", "backdated"}) /\ ~k.old
  BY <1>0, <1>1, <1>2, WriteFree, FreeShrinks
<1>4. Planning(k) /\ Planned(k) /\ ~k.edit
  BY <1>0, <1>1, <1>3 DEF IInv, Plans, Planning
<1>5. /\ stock \in [Loc -> Int] /\ missed \in [Loc -> Int] /\ k.entry.eff \in [Loc -> Int]
      /\ k.entry.of \in Nat
  BY <1>1, CallType, RowIsInt DEF TypeOK
<1>6. CASE ~Restores(k)
  <2>1. stock' = Shift(stock, k.entry.eff)
    <3>1. CASE k.entry.of = 0
      BY <1>1, <1>4, <3>1 DEF Planned, PlansMovement
    <3>2. CASE k.entry.of # 0
      BY <1>1, <1>4, <1>6, <3>2 DEF Planned, PlansCancel, Restores
    <3> QED
      BY <3>1, <3>2
  <2>2. \A l \in Loc : stock'[l] = stock[l] + k.entry.eff[l]
    BY <2>1 DEF Shift
  <2>3. missed' = missed
    BY <1>1, <1>6
  <2> QED
    BY <1>0, <1>5, <2>2, <2>3
<1>7. CASE Restores(k)
  <2>1. PICK e : e = log[Len(log)]
    OBVIOUS
  <2>2. /\ Unlogged = {} /\ log # <<>> /\ k.next = Total(e.prev) /\ e.prev # None /\ e.of = 0
        /\ k.entry.eff = Reverse(e.eff) /\ missed' = e.missed /\ e.covered
    BY <1>0, <1>2, <1>7, <2>1, RestoresLast
  <2>3. TookFrom(e, Empty)
    BY <1>3, <2>1, <2>2 DEF IInv, LastTook
  <2>4. \A l \in Loc : Total(e.prev)[l] = stock[l] - e.eff[l] - (missed[l] - e.missed[l]) - Empty[l]
    BY <2>2, <2>3 DEF TookFrom
  <2>5. e.eff \in [Loc -> Int] /\ e.missed \in [Loc -> Int]
    <3>1. e \in Entry
      <4>1. Len(log) \in DOMAIN log
        BY <1>1, <2>2 DEF TypeOK
      <4> QED
        BY <1>1, <2>1, <4>1 DEF TypeOK
    <3> QED
      BY <3>1 DEF Entry
  <2>6. \A l \in Loc : k.entry.eff[l] = 0 - e.eff[l] /\ Empty[l] = 0
    BY <2>2, EmptyType DEF Reverse
  <2>7. \A l \in Loc : stock'[l] = Total(e.prev)[l] /\ missed'[l] = e.missed[l]
    BY <1>1, <2>2
  <2> QED
    BY <1>0, <1>5, <2>4, <2>5, <2>6, <2>7
<1> QED
  BY <1>6, <1>7

\* ... what is written next fits in the row,
LEMMA WriteWithin ==
  ASSUME Given, IInv, NEW c \in Calls, WriteRow(c)
  PROVE  Plans' /\ FreshOne' /\ Halfway' /\ BatchesWithinRow'
<1>0. PICK k : k = call[c]
  OBVIOUS
<1>1. /\ TypeOK /\ k \in Call /\ k.pc = "write" /\ CallFits(k) /\ stock' = k.next
      /\ stock' \in Row /\ UNCHANGED <<batch, log>> /\ drift \subseteq drift'
  BY <1>0, WriteFacts
<1>2. /\ \A d \in Calls : ~Planning(call[d])'
      /\ \A d \in Calls : Fresh(d)' => d = c
      /\ \A d \in Calls \ {c} : \A pcs : Within(d, pcs)' <=> Within(d, pcs)
  BY WriteOthers
<1>3. Plans'
  BY <1>2 DEF Plans, Undisturbed, Planned, Calm
<1>4. FreshOne'
  BY <1>2 DEF FreshOne
<1>5. ASSUME Free({"raced"})'
      PROVE  /\ Planning(k) /\ Planned(k) /\ \A d \in Calls \ {c} : ~Wrote(d)
             /\ \A d \in Calls \ {c} : ~Wrote(d)'
  <2>1. Free({"raced"}) /\ ~k.old
    BY <1>0, <1>1, <1>5, WriteFree, FreeShrinks
  <2>2. Planning(k) /\ Planned(k)
    BY <1>0, <1>1, <2>1 DEF IInv, Plans, Planning
  <2>3. ~Midway(c)
    BY <1>0, <1>1, <2>2 DEF IInv, Plans, Undisturbed, At
  <2>4. \A d \in Calls \ {c} : ~Wrote(d)
    BY <2>3 DEF Midway, Wrote
  <2> QED
    BY <1>2, <2>2, <2>4 DEF Wrote
<1>6. k.nextB \in Books
  BY <1>1, CallType
<1>7. ASSUME Free({"raced", "loose", "kept"})', Rows(k.nextB) # {}, NEW l \in Loc
      PROVE  Total(k.nextB)[l] <= stock'[l]
  <2>1. Free({"raced"})' /\ Free({"loose"})' /\ Free({"kept"})'
    BY <1>7 DEF Free
  <2>2. k.tracked /\ Planning(k) /\ Planned(k)
    BY <1>0, <1>5, <1>7, <2>1, WriteFree DEF Bare
  <2>3. Total(k.nextB)[l] \in Nat /\ Total(batch)[l] \in Nat /\ stock[l] \in Nat
    BY <1>1, <1>6, TotalType DEF TypeOK, Row
  <2>4. CASE k.edit
    BY <1>1, <2>3, <2>4 DEF CallFits
  <2>5. CASE ~k.edit /\ k.entry.of = 0
    <3>1. /\ k.next = Shift(stock, k.entry.eff)
          /\ Total(k.nextB) = Shift(Total(batch), k.entry.eff)
      BY <1>7, <2>2, <2>5 DEF Planned, PlansMovement
    <3>2. Total(batch)[l] <= stock[l]
      <4>1. \A d \in Calls : ~At(d, "delete")
        BY <1>0, <1>1, <1>5, <2>1 DEF Wrote, Within, At
      <4>2. Free({"raced", "loose", "kept"})
        BY <1>1, <1>7, FreeShrinks
      <4> QED
        BY <4>1, <4>2 DEF IInv, BatchesWithinRow
    <3>3. k.entry.eff[l] \in Int
      BY <1>1, CallType
    <3>4. /\ stock'[l] = stock[l] + k.entry.eff[l]
          /\ Total(k.nextB)[l] = Total(batch)[l] + k.entry.eff[l]
      BY <1>1, <3>1 DEF Shift
    <3> QED
      BY <2>3, <3>2, <3>3, <3>4
  <2>6. CASE ~k.edit /\ k.entry.of # 0
    <3>1. k.nextB = log[k.entry.of].prev /\ k.next = Total(log[k.entry.of].prev)
      BY <2>2, <2>6 DEF Planned, PlansCancel
    <3> QED
      BY <1>1, <2>3, <3>1
  <2> QED
    BY <2>4, <2>5, <2>6
<1>8. /\ Bare(c) => call'[c].pc = "log"
      /\ ~Bare(c) => call'[c].pc = "delete" /\ call'[c].nextB = k.nextB
  BY <1>0, WriteCalls
<1>9. Halfway'
  <2>1. Free({"raced"})' => \A d, e \in Calls : Wrote(d)' /\ Wrote(e)' => d = e
    BY <1>5
  <2>2. Free({"raced"})' => \A d \in Calls : ~At(d, "create")'
    BY <1>5, <1>8 DEF Wrote, Within, At
  <2>3. ASSUME Free({"raced", "loose", "kept"})', NEW d \in Calls, Wrote(d)', NEW l \in Loc
        PROVE  Total(call'[d].nextB)[l] <= stock'[l]
    <3>1. d = c
      BY <1>5, <2>3 DEF Free
    <3>2. ~Bare(c)
      BY <1>8, <2>3, <3>1 DEF Wrote, Within
    <3> QED
      BY <1>0, <1>7, <1>8, <2>3, <3>1, <3>2 DEF Bare
  <2> QED
    BY <2>1, <2>2, <2>3 DEF Halfway
<1>10. BatchesWithinRow'
  <2> SUFFICES ASSUME Free({"raced", "loose", "kept"})', \A d \in Calls : ~At(d, "delete")',
                      NEW l \in Loc
               PROVE  Total(batch')[l] <= stock'[l]
    BY DEF BatchesWithinRow
  <2>1. Bare(c)
    BY <1>8 DEF At
  <2>2. ~Tracked
    <3>1. Free({"loose"})' /\ Free({"kept"})'
      BY DEF Free
    <3> QED
      BY <2>1, <3>1, WriteFree
  <2>3. Total(batch)[l] = 0
    BY <1>1, <2>2, NoRowsTotal DEF Tracked, TypeOK
  <2> QED
    BY <1>1, <2>3 DEF Row
<1> QED
  BY <1>3, <1>4, <1>9, <1>10

\* ... the row stays explained,
LEMMA WriteExplained ==
  ASSUME Given, IInv, NEW c \in Calls, WriteRow(c)
  PROVE  LogExplainsRow'
<1>0. PICK eff : eff = call[c].entry.eff
  OBVIOUS
<1>1. /\ TypeOK /\ call[c] \in Call /\ CallFits(call[c]) /\ drift \subseteq drift'
      /\ UNCHANGED <<log, opening>> /\ missed' \in [Loc -> Int]
      /\ missed' = IF Restores(call[c]) THEN log[call[c].entry.of].missed ELSE missed
  BY WriteFacts
<1>2. /\ \A d \in Calls \ {c} : Pending(d)' <=> Pending(d)
      /\ ~Pending(c) /\ (Pending(c)' <=> ~call[c].edit)
  BY WriteOthers
<1>3. /\ \A d \in Calls \ {c} : call'[d].entry.eff = call[d].entry.eff
      /\ call'[c].entry.eff = eff
  BY <1>0, WriteCalls DEF Aged
<1>4. \A l \in Loc : Logged(l)' = Logged(l)
  BY <1>1 DEF Logged
<1>5. CASE call[c].edit
  <2>1. Unlogged' = Unlogged
    BY <1>2, <1>5 DEF Unlogged
  <2>2. \A l \in Loc : Owed(l)' = Owed(l)
    <3>1. \A d \in Unlogged : call'[d].entry.eff = call[d].entry.eff
      BY <1>2, <1>3 DEF Unlogged
    <3> QED
      BY <2>1, <3>1 DEF Owed
  <2>3. missed' = missed
    BY <1>1, <1>5 DEF CallFits, Restores
  <2>4. Free({"raced", "uncovered", "edited", "backdated"})' => stock' = stock
    <3>1. Free({"raced", "uncovered", "edited", "backdated"})' => Free({"edited"})'
      BY DEF Free
    <3> QED
      BY <1>5, <3>1, WriteFree
  <2> QED
    BY <1>1, <1>4, <2>2, <2>3, <2>4, ExplainedStill DEF IInv
<1>6. CASE ~call[c].edit
  <2> SUFFICES ASSUME Free({"raced", "uncovered", "edited", "backdated"})', NEW l \in Loc
               PROVE  stock'[l] = opening'[l] + SumFunction(Logged(l)') + SumFunction(Owed(l)')
                                    + missed'[l]
    BY DEF LogExplainsRow, Logged, Owed
  <2>1. stock[l] = opening[l] + SumFunction(Logged(l)) + SumFunction(Owed(l)) + missed[l]
    <3>1. Free({"raced", "uncovered", "edited", "backdated"})
      BY <1>1, FreeShrinks
    <3> QED
      BY <3>1 DEF IInv, LogExplainsRow, Logged, Owed
  <2>2. stock'[l] = stock[l] + eff[l] + (missed'[l] - missed[l])
    <3>1. Free({"raced", "edited", "backdated"})' /\ Free({"uncovered"})'
      BY DEF Free
    <3>2. Restores(call[c]) => log[call[c].entry.of].covered
      BY <3>1, WriteFree
    <3> QED
      BY <1>0, <1>6, <3>1, <3>2, WriteShifts
  <2>3. /\ SumFunction(Owed(l)') = SumFunction(Owed(l)) + eff[l]
        /\ SumFunction(Owed(l)) \in Int
    <3> DEFINE f == Owed(l)
               g == Owed(l)'
               D == Unlogged
               E == Unlogged'
    <3>1. IsFiniteSet(D) /\ f \in [D -> Int]
      BY <1>1, OwedType
    <3>2. E = D \cup {c} /\ c \notin D
      BY <1>2, <1>6 DEF Unlogged
    <3>3. \A d \in D : f[d] = g[d]
      BY <1>3, <3>2 DEF Owed, Unlogged
    <3>4. g[c] = eff[l]
      BY <1>3, <3>2 DEF Owed
    <3>5. eff[l] \in Int
      BY <1>0, <1>1, CallType
    <3>6. g \in [E -> Int]
      <4>1. \A d \in E : g[d] \in Int
        BY <3>1, <3>2, <3>3, <3>4, <3>5
      <4>2. g = [d \in E |-> g[d]]
        BY DEF Owed
      <4> QED
        BY <4>1, <4>2
    <3> HIDE DEF f, g, D, E
    <3>7. SumFunction(g) = SumFunction(f) + g[c]
      <4>1. /\ IsFiniteSet(D) /\ f \in [D -> Int] /\ c \notin D /\ g \in [D \cup {c} -> Int]
            /\ \A d \in D : f[d] = g[d]
        BY <3>1, <3>2, <3>3, <3>6
      <4> QED
        BY <4>1, SumGrows
    <3>8. SumFunction(f) \in Int
      BY <3>1, SumType
    <3> QED
      BY <3>4, <3>7, <3>8 DEF f, g
  <2>4. /\ SumFunction(Logged(l)) \in Int /\ opening[l] \in Int /\ missed[l] \in Int
        /\ missed'[l] \in Int /\ eff[l] \in Int
    BY <1>0, <1>1, CallType, LoggedType DEF TypeOK, Row
  <2> QED
    BY <1>1, <1>4, <2>1, <2>2, <2>3, <2>4
<1> QED
  BY <1>5, <1>6

\* ... and the batches a movement keeps make up what they should.
LEMMA WriteTook ==
  ASSUME Given, IInv, NEW c \in Calls, WriteRow(c)
  PROVE  Took' /\ LastTook'
<1>0. PICK k : k = call[c]
  OBVIOUS
<1>1. /\ TypeOK /\ k \in Call /\ k.pc = "write" /\ CallFits(k) /\ drift \subseteq drift'
      /\ log' = log /\ stock' = k.next /\ missed' \in [Loc -> Int] /\ stock' \in Row
      /\ missed' = IF Restores(k) THEN log[k.entry.of].missed ELSE missed
  BY <1>0, WriteFacts
<1>2. /\ \A d \in Calls : Fresh(d)' => d = c
      /\ \A d \in Calls \ {c} : Pending(d)' <=> Pending(d)
      /\ ~Pending(c) /\ (Pending(c)' <=> ~k.edit)
  BY <1>0, WriteOthers
<1>3. /\ call'[c].entry.eff = k.entry.eff /\ call'[c].entry.of = k.entry.of
      /\ call'[c].entry.prev = k.entry.prev /\ call'[c].entry.covered = k.entry.covered
      /\ call'[c].entry.missed = missed'
  BY <1>0, WriteCalls
<1>4. \A d \in Calls : Pending(d)' /\ ~call'[d].old => d = c
  BY <1>2 DEF Fresh, Pending
<1>5. /\ stock \in [Loc -> Int] /\ missed \in [Loc -> Int] /\ k.entry.eff \in [Loc -> Int]
      /\ stock' \in [Loc -> Int] /\ \A l \in Loc : Empty[l] = 0
  BY <1>1, CallType, RowIsInt, EmptyType DEF TypeOK
<1>6. Took'
  <2> SUFFICES ASSUME Free({"raced"})', ~k.edit, k.entry.of = 0, k.entry.prev # None,
                      k.entry.covered, NEW l \in Loc
               PROVE  Total(k.entry.prev)[l]
                        = stock'[l] - k.entry.eff[l] - (missed'[l] - missed'[l]) - Empty[l]
    BY <1>2, <1>3, <1>4 DEF Took, TookFrom
  <2>1. Free({"raced"}) /\ ~k.old
    BY <1>0, <1>1, WriteFree, FreeShrinks
  <2>2. PlansMovement(k)
    BY <1>0, <1>1, <2>1 DEF IInv, Plans, Planned, Planning
  <2>3. Total(k.entry.prev) = stock /\ stock' = Shift(stock, k.entry.eff)
    BY <1>1, <2>2 DEF PlansMovement, Covered
  <2>4. stock'[l] = stock[l] + k.entry.eff[l]
    BY <2>3 DEF Shift
  <2> QED
    BY <1>1, <1>5, <2>3, <2>4
<1>7. LastTook'
  <2> SUFFICES ASSUME Free({"raced", "edited", "backdated"})', log # <<>>,
                      \A d \in Unlogged' : ~call'[d].old
               PROVE  /\ Unlogged' = {} => TookFrom(log[Len(log)], Empty)'
                      /\ \A d \in Unlogged' : TookFrom(log[Len(log)], call[d].entry.eff)'
    BY <1>1 DEF LastTook
  <2>1. Unlogged = {} /\ Unlogged' = IF k.edit THEN {} ELSE {c}
    BY <1>2, <1>4 DEF Unlogged
  <2>2. Free({"raced", "edited", "backdated"})
    BY <1>1, FreeShrinks
  <2>3. PICK e : e = log[Len(log)]
    OBVIOUS
  <2>4. TookFrom(e, Empty)
    BY <2>1, <2>2, <2>3 DEF IInv, LastTook
  <2>5. e.eff \in [Loc -> Int] /\ e.missed \in [Loc -> Int]
    <3>1. e \in Entry
      <4>1. Len(log) \in DOMAIN log
        BY <1>1 DEF TypeOK
      <4> QED
        BY <1>1, <2>3, <4>1 DEF TypeOK
    <3> QED
      BY <3>1 DEF Entry
  <2>6. CASE k.edit
    <3>1. stock' = stock /\ missed' = missed
      <4>1. Free({"edited"})'
        BY DEF Free
      <4>2. ~Restores(k)
        BY <1>1, <2>6 DEF CallFits, Restores
      <4> QED
        BY <1>0, <1>1, <2>6, <4>1, <4>2, WriteFree
    <3>2. TookFrom(e, Empty)'
      BY <2>4, <3>1 DEF TookFrom
    <3> QED
      BY <1>1, <2>1, <2>3, <2>6, <3>2
  <2>7. CASE ~k.edit
    <3> SUFFICES ASSUME e.of = 0, e.prev # None, e.covered, NEW l \in Loc
                 PROVE  Total(e.prev)[l]
                          = stock'[l] - e.eff[l] - (missed'[l] - e.missed[l]) - k.entry.eff[l]
      BY <1>1, <1>3, <2>1, <2>3, <2>7 DEF TookFrom
    <3>1. Restores(k) => log[k.entry.of].covered
      <4>1. Free({"raced", "backdated"})'
        BY DEF Free
      <4> QED
        BY <1>0, <2>3, <4>1, RestoresLast
    <3>2. stock'[l] = stock[l] + k.entry.eff[l] + (missed'[l] - missed[l])
      BY <1>0, <2>7, <3>1, WriteShifts
    <3>3. Total(e.prev)[l] = stock[l] - e.eff[l] - (missed[l] - e.missed[l]) - Empty[l]
      BY <2>4 DEF TookFrom
    <3>4. /\ stock[l] \in Int /\ missed[l] \in Int /\ missed'[l] \in Int /\ Empty[l] = 0
          /\ k.entry.eff[l] \in Int /\ e.eff[l] \in Int /\ e.missed[l] \in Int
      BY <1>1, <1>5, <2>5
    <3>5. stock'[l] = stock[l] + k.entry.eff[l] + (missed'[l] - missed[l])
      BY <1>0, <3>2
    <3>6. PICK s, m, n, f, g, o : /\ s = stock[l] /\ m = missed[l] /\ n = missed'[l]
                                  /\ f = k.entry.eff[l] /\ g = e.eff[l] /\ o = e.missed[l]
      OBVIOUS
    <3>7. /\ s \in Int /\ m \in Int /\ n \in Int /\ f \in Int /\ g \in Int /\ o \in Int
          /\ stock'[l] = s + f + (n - m) /\ Total(e.prev)[l] = s - g - (m - o) - 0
      BY <3>3, <3>4, <3>5, <3>6
    <3>8. s - g - (m - o) - 0 = (s + f + (n - m)) - g - (n - o) - f
      BY <3>7
    <3> QED
      BY <3>6, <3>7, <3>8
  <2> QED
    BY <2>6, <2>7
<1> QED
  BY <1>6, <1>7

\* Writing the row keeps the invariant.
LEMMA StepWriteRow ==
  ASSUME Given, IInv, NEW c \in Calls, WriteRow(c)
  PROVE  IInv'
<1>1. log' = log /\ drift \subseteq drift'
  BY WriteFacts
<1>2. /\ \A d \in Calls : Cancels(d)' = Cancels(d) /\ (Waiting(d)' <=> Waiting(d))
      /\ \A d \in Calls : At(d, "mark")' <=> At(d, "mark")
  BY WriteOthers
<1>3. \A F : Free(F)' => Free(F)
  BY <1>1, FreeShrinks
<1>4. OnceEach'
  BY <1>1, <1>2, <1>3 DEF IInv, OnceEach
<1>5. CancelledOnceUnlessRaced'
  <2> SUFFICES ASSUME Free({"raced"})', NEW i \in DOMAIN log, NEW j \in DOMAIN log, log[i].of # 0
               PROVE  /\ log[j].of = log[i].of => i = j
                      /\ \/ log[log[i].of].cancelled \/ ~Free({"unmarked"})'
                         \/ \E d \in Calls : At(d, "mark")' /\ call'[d].entry.of = log[i].of
    BY <1>1 DEF CancelledOnceUnlessRaced
  <2>1. Free({"raced"}) /\ (Free({"unmarked"})' => Free({"unmarked"}))
    BY <1>3
  <2>2. /\ log[j].of = log[i].of => i = j
        /\ \/ log[log[i].of].cancelled \/ ~Free({"unmarked"})
           \/ \E d \in Calls : At(d, "mark") /\ call[d].entry.of = log[i].of
    BY <2>1 DEF IInv, CancelledOnceUnlessRaced
  <2>3. \A d \in Calls : call'[d].entry.of = call[d].entry.of
    BY <1>2 DEF Cancels
  <2> QED
    BY <1>2, <2>1, <2>2, <2>3
<1> QED
  BY <1>4, <1>5, WriteTypes, WriteWithin, WriteExplained, WriteTook DEF IInv
-----------------------------------------------------------------------------
(* Logging the movement, and marking the cancelled one.                    *)

\* What the log keeps of the handlers when a handler logs.
LEMMA LogFacts ==
  ASSUME Given, IInv, NEW c \in Calls, LogMovement(c)
  PROVE  /\ TypeOK /\ call[c] \in Call /\ call[c].pc = "log" /\ CallFits(call[c])
         /\ CancelFits(call[c]) /\ Pending(c)
         /\ UNCHANGED <<stock, batch, clock, served, stops, opening, missed>>
         /\ log' \in Seq(Entry) /\ Len(log') = Len(log) + 1 /\ log' = Append(log, call[c].entry)
         /\ DOMAIN log' = DOMAIN log \cup {Len(log')} /\ Len(log') \notin DOMAIN log
         /\ Len(log') \in Nat /\ Len(log') # 0
         /\ log'[Len(log')] = call[c].entry /\ call[c].entry \in Entry
         /\ \A i \in DOMAIN log : log'[i] = log[i] /\ i < Len(log') /\ i \in Nat
         /\ drift \subseteq drift' /\ drift' \subseteq Flags
         /\ Free({"raced"})' => ~call[c].old
<1>1. /\ TypeOK /\ call[c] \in Call /\ call[c].pc = "log" /\ CallFits(call[c])
      /\ CancelFits(call[c])
  BY DEF IInv, Types, TypeOK, LogMovement, At
<1>2. Pending(c) /\ call[c].entry \in Entry
  BY <1>1, CallType DEF CallFits, Pending, Within
<1>3. /\ log' = Append(log, call[c].entry)
      /\ UNCHANGED <<stock, batch, clock, served, stops, opening, missed>>
  BY DEF LogMovement
<1>4. /\ drift \subseteq drift' /\ drift' \subseteq Flags
      /\ call[c].old => "raced" \in drift'
  BY <1>1 DEF LogMovement, TypeOK, Flags
<1>5. PICK e : e = call[c].entry
  OBVIOUS
<1>6. log \in Seq(Entry) /\ e \in Entry /\ log' = Append(log, e)
  BY <1>1, <1>2, <1>3, <1>5 DEF TypeOK
<1>7. /\ log' \in Seq(Entry) /\ Len(log') = Len(log) + 1
      /\ DOMAIN log' = DOMAIN log \cup {Len(log')} /\ Len(log') \notin DOMAIN log
      /\ Len(log') \in Nat /\ Len(log') # 0 /\ log'[Len(log')] = e
      /\ \A i \in DOMAIN log : log'[i] = log[i] /\ i < Len(log') /\ i \in Nat
  BY <1>6
<1>8. Free({"raced"})' => ~call[c].old
  BY <1>4 DEF Free
<1> QED
  BY <1>1, <1>2, <1>3, <1>4, <1>5, <1>7, <1>8

\* It is done, or has a movement to mark.
LEMMA LogCalls ==
  ASSUME Given, IInv, NEW c \in Calls, LogMovement(c)
  PROVE  /\ call' \in [Calls -> Call] /\ \A d \in Calls \ {c} : call'[d] = call[d]
         /\ call[c].entry.of = 0 => call'[c] = Idle
         /\ call[c].entry.of # 0 =>
              call'[c].pc = "mark" /\ call'[c].entry = call[c].entry /\ ~call'[c].edit
         /\ call'[c].pc \in {"idle", "mark"} /\ Cancels(c)' = Cancels(c)
<1>0. PICK k : k = call[c]
  OBVIOUS
<1>1. call \in [Calls -> Call] /\ k \in Call /\ k.pc = "log" /\ ~k.edit
  BY <1>0, LogFacts DEF TypeOK, CallFits
<1>2. CASE k.entry.of = 0
  <2>1. call' = [call EXCEPT ![c] = Idle]
    BY <1>0, <1>2 DEF LogMovement, Done
  <2>2. /\ call' \in [Calls -> Call] /\ call'[c] = Idle
        /\ \A d \in Calls \ {c} : call'[d] = call[d]
    BY <1>1, <2>1, IdleType
  <2> QED
    BY <1>0, <1>2, <2>2, IdleType DEF Cancels
<1>3. CASE k.entry.of # 0
  <2>1. PICK w : w = [k EXCEPT !.pc = "mark"]
    OBVIOUS
  <2>2. call' = [call EXCEPT ![c] = w]
    BY <1>0, <1>3, <2>1 DEF LogMovement
  <2>3. w \in Call /\ w.pc = "mark" /\ w.entry = k.entry /\ ~w.edit
    BY <1>1, <2>1 DEF Call
  <2>4. /\ call' \in [Calls -> Call] /\ call'[c] = w
        /\ \A d \in Calls \ {c} : call'[d] = call[d]
    BY <1>1, <2>2, <2>3
  <2> QED
    BY <1>0, <1>3, <2>3, <2>4 DEF Cancels
<1> QED
  BY <1>2, <1>3

\* The types stay, and the movement fits in the log,
LEMMA LogTypes ==
  ASSUME Given, IInv, NEW c \in Calls, LogMovement(c)
  PROVE  Types' /\ Entries'
<1>0. PICK k, n : k = call[c] /\ n = Len(log')
  OBVIOUS
<1>1. /\ TypeOK /\ k \in Call /\ CallFits(k) /\ CancelFits(k)
      /\ UNCHANGED <<stock, batch, clock, served, stops, opening, missed>>
      /\ log' \in Seq(Entry) /\ DOMAIN log' = DOMAIN log \cup {n} /\ n \notin DOMAIN log
      /\ n \in Nat /\ log'[n] = k.entry /\ drift' \subseteq Flags
      /\ \A i \in DOMAIN log : log'[i] = log[i] /\ i < n /\ i \in Nat
  BY <1>0, LogFacts
<1>2. /\ call' \in [Calls -> Call] /\ \A d \in Calls \ {c} : call'[d] = call[d]
      /\ k.entry.of = 0 => call'[c] = Idle
      /\ k.entry.of # 0 => call'[c].pc = "mark" /\ call'[c].entry = k.entry /\ ~call'[c].edit
      /\ call'[c].pc \in {"idle", "mark"} /\ Cancels(c)' = k.entry.of
  BY <1>0, LogCalls DEF Cancels
<1>3. TypeOK'
  BY <1>1, <1>2 DEF TypeOK, Flags
<1>4. ASSUME NEW d \in Calls PROVE CallFits(call[d])' /\ CancelFits(call[d])'
  <2>1. CASE d # c
    <3>1. CallFits(call[d]) /\ CancelFits(call[d]) /\ call'[d] = call[d]
      BY <1>2, <2>1 DEF IInv, Types
    <3>2. CallFits(call[d])'
      BY <1>1, <3>1 DEF CallFits
    <3>3. CancelFits(call[d])'
      BY <1>1, <3>1 DEF CancelFits
    <3> QED
      BY <3>2, <3>3
  <2>2. CASE d = c /\ k.entry.of = 0
    BY <1>1, <1>2, <2>2, IdleFits DEF TypeOK
  <2>3. CASE d = c /\ k.entry.of # 0
    <3>1. CallFits(call[c])'
      BY <1>1, <1>2, <2>3 DEF CallFits
    <3>2. CancelFits(call[c])'
      BY <1>1, <1>2, <2>3 DEF CancelFits
    <3> QED
      BY <2>3, <3>1, <3>2
  <2> QED
    BY <2>1, <2>2, <2>3
<1>5. ASSUME NEW i \in DOMAIN log' PROVE EntryFits(i)'
  <2>1. CASE i = n
    BY <1>1, <2>1 DEF EntryFits, CallFits, CancelFits
  <2>2. CASE i # n
    <3>1. EntryFits(i) /\ i \in DOMAIN log /\ log'[i] = log[i]
      BY <1>1, <2>2 DEF IInv, Entries
    <3> QED
      BY <1>1, <3>1 DEF EntryFits
  <2> QED
    BY <2>1, <2>2
<1>6. ASSUME NEW d \in Calls, At(d, "mark")'
      PROVE  \E j \in DOMAIN log' : log'[j].of = Cancels(d)'
  <2>1. CASE d = c
    <3>1. Cancels(c)' = k.entry.of
      BY <1>2
    <3> QED
      BY <1>1, <2>1, <3>1
  <2>2. CASE d # c
    <3>1. At(d, "mark") /\ Cancels(d)' = Cancels(d)
      BY <1>2, <1>6, <2>2 DEF At, Cancels
    <3>2. PICK j \in DOMAIN log : log[j].of = Cancels(d)
      BY <3>1 DEF IInv, Entries
    <3> QED
      BY <1>1, <3>1, <3>2
  <2> QED
    BY <2>1, <2>2
<1> QED
  BY <1>3, <1>4, <1>5, <1>6 DEF Types, Entries

\* ... so do the plans, and what is said of the batches,
LEMMA LogPlans ==
  ASSUME Given, IInv, NEW c \in Calls, LogMovement(c)
  PROVE  Plans' /\ FreshOne' /\ Halfway' /\ BatchesWithinRow' /\ Took' /\ LastTook'
<1>0. PICK k, n : k = call[c] /\ n = Len(log')
  OBVIOUS
<1>1. /\ TypeOK /\ k.pc = "log" /\ Pending(c)
      /\ UNCHANGED <<stock, batch, missed>>
      /\ log'[n] = k.entry /\ drift \subseteq drift'
      /\ \A i \in DOMAIN log : log'[i] = log[i]
      /\ Free({"raced"})' => ~k.old
  BY <1>0, LogFacts
<1>2. /\ \A d \in Calls \ {c} : call'[d] = call[d] /\ d \in Calls
      /\ call'[c].pc \in {"idle", "mark"}
  BY <1>0, LogCalls
<1>3. \A F : Free(F)' => Free(F)
  BY <1>1, FreeShrinks
<1>4. \A d \in Calls : /\ Fresh(d)' => Fresh(d)
                       /\ Wrote(d)' => Wrote(d) /\ call'[d] = call[d]
                       /\ Pending(d)' <=> Pending(d) /\ d # c
                       /\ At(d, "delete")' <=> At(d, "delete")
  BY <1>0, <1>1, <1>2 DEF Fresh, Wrote, Pending, Within, At
<1>5. ASSUME NEW d \in Calls PROVE Undisturbed(d)'
  <2>1. CASE d = c
    BY <1>2, <2>1 DEF Undisturbed, Planning
  <2>2. CASE d # c
    <3>1. Undisturbed(d) /\ call'[d] = call[d]
      BY <1>2, <2>2 DEF IInv, Plans
    <3>2. Midway(d)' => Midway(d)
      BY <1>4 DEF Midway, Wrote
    <3> QED
      BY <3>1, <3>2 DEF Undisturbed, Cancels, At
  <2> QED
    BY <2>1, <2>2
<1>6. ASSUME Free({"raced"})', NEW d \in Calls PROVE Planned(call[d])' /\ Calm(d)'
  <2>1. CASE d = c
    BY <1>2, <2>1 DEF Planned, Calm, Planning
  <2>2. CASE d # c
    <3>1. Planned(call[d]) /\ Calm(d) /\ call'[d] = call[d] /\ CancelFits(call[d])
      BY <1>2, <1>3, <1>6, <2>2 DEF IInv, Plans, Types
    <3>2. ~(Planning(call[d]) /\ Cancels(d) # 0)
      BY <1>0, <1>1, <2>2, <3>1 DEF Calm, Within
    <3>3. Planned(call[d])'
      BY <1>1, <3>1, <3>2 DEF Planned, PlansMovement, Covered, Cancels
    <3>4. Calm(d)'
      BY <3>1, <3>2 DEF Calm, Cancels
    <3> QED
      BY <3>3, <3>4
  <2> QED
    BY <2>1, <2>2
<1>7. Plans'
  BY <1>5, <1>6 DEF Plans
<1>8. FreshOne'
  BY <1>4 DEF IInv, FreshOne
<1>9. Halfway'
  <2>1. Free({"raced"})' => \A d, e \in Calls : Wrote(d)' /\ Wrote(e)' => d = e
    BY <1>3, <1>4 DEF IInv, Halfway
  <2>2. ASSUME Free({"raced"})', NEW d \in Calls, At(d, "create")', NEW x \in Batches
        PROVE  batch'[x] \in {None, call'[d].nextB[x]}
    <3>1. At(d, "create") /\ call'[d] = call[d]
      BY <1>2, <2>2 DEF At
    <3> QED
      BY <1>1, <1>3, <2>2, <3>1 DEF IInv, Halfway
  <2>3. ASSUME Free({"raced", "loose", "kept"})', NEW d \in Calls, Wrote(d)', NEW l \in Loc
        PROVE  Total(call'[d].nextB)[l] <= stock'[l]
    BY <1>1, <1>3, <1>4, <2>3 DEF IInv, Halfway
  <2> QED
    BY <2>1, <2>2, <2>3 DEF Halfway
<1>10. BatchesWithinRow'
  BY <1>1, <1>3, <1>4 DEF IInv, BatchesWithinRow
<1>11. Took'
  <2> SUFFICES ASSUME Free({"raced"})', NEW d \in Calls, Pending(d)', ~call'[d].old
               PROVE  TookFrom(call[d].entry, Empty)'
    BY DEF Took
  <2>1. Pending(d) /\ call'[d] = call[d]
    BY <1>2, <1>4
  <2>2. TookFrom(call[d].entry, Empty)
    BY <1>3, <2>1 DEF IInv, Took
  <2> QED
    BY <1>1, <2>1, <2>2 DEF TookFrom
<1>12. LastTook'
  <2> SUFFICES ASSUME Free({"raced", "edited", "backdated"})', \A d \in Unlogged' : ~call'[d].old
               PROVE  /\ Unlogged' = {} => TookFrom(log[Len(log)], Empty)'
                      /\ \A d \in Unlogged' : TookFrom(log[Len(log)], call[d].entry.eff)'
    BY DEF LastTook
  <2>1. Free({"raced"})'
    BY DEF Free
  <2>2. Fresh(c)
    BY <1>0, <1>1, <2>1 DEF Fresh, Within
  <2>3. Unlogged' = {}
    <3> SUFFICES ASSUME NEW d \in Unlogged' PROVE FALSE
      OBVIOUS
    <3>1. d \in Calls /\ Pending(d) /\ d # c /\ call'[d] = call[d] /\ ~call[d].old
      BY <1>2, <1>4 DEF Unlogged
    <3>2. Fresh(d)
      BY <3>1 DEF Fresh, Pending
    <3> QED
      BY <2>2, <3>1, <3>2 DEF IInv, FreshOne
  <2>4. TookFrom(k.entry, Empty)
    BY <1>0, <1>1, <1>3, <2>1 DEF IInv, Took
  <2>5. TookFrom(k.entry, Empty)'
    <3>1. PICK e : e = k.entry
      OBVIOUS
    <3>2. TookFrom(e, Empty)'
      BY <1>1, <2>4, <3>1 DEF TookFrom
    <3> QED
      BY <1>0, <1>1, <3>1, <3>2 DEF TookFrom
  <2> QED
    BY <1>0, <1>1, <2>3, <2>4 DEF TookFrom
<1> QED
  BY <1>7, <1>8, <1>9, <1>10, <1>11, <1>12

\* ... the row is explained by the movement instead of its handler,
LEMMA LogExplained ==
  ASSUME Given, IInv, NEW c \in Calls, LogMovement(c)
  PROVE  LogExplainsRow'
<1>1. /\ TypeOK /\ UNCHANGED <<stock, opening, missed>> /\ drift \subseteq drift'
      /\ log' = Append(log, call[c].entry) /\ call[c].entry \in Entry /\ call[c] \in Call
      /\ Pending(c)
  BY LogFacts
<1>2. /\ \A d \in Calls \ {c} : call'[d] = call[d]
      /\ call'[c].pc \in {"idle", "mark"}
  BY LogCalls
<1> SUFFICES ASSUME Free({"raced", "uncovered", "edited", "backdated"})', NEW l \in Loc
             PROVE  stock'[l] = opening'[l] + SumFunction(Logged(l)') + SumFunction(Owed(l)')
                                  + missed'[l]
  BY DEF LogExplainsRow, Logged, Owed
<1>3. stock[l] = opening[l] + SumFunction(Logged(l)) + SumFunction(Owed(l)) + missed[l]
  <2>1. Free({"raced", "uncovered", "edited", "backdated"})
    BY <1>1, FreeShrinks
  <2> QED
    BY <2>1 DEF IInv, LogExplainsRow, Logged, Owed
<1>4. SumFunction(Logged(l)') = SumFunction(Logged(l)) + call[c].entry.eff[l]
  BY <1>1, LoggedGrows
<1>5. SumFunction(Owed(l)) = SumFunction(Owed(l)') + call[c].entry.eff[l]
      /\ SumFunction(Owed(l)') \in Int
  <2>1. c \in Unlogged /\ \A d \in Unlogged \ {c} : call'[d].entry.eff = call[d].entry.eff
    BY <1>1, <1>2 DEF Unlogged
  <2>2. Unlogged' = Unlogged \ {c}
    <3>1. \A d \in Calls : Pending(d)' <=> Pending(d) /\ d # c
      BY <1>2 DEF Pending, Within
    <3> QED
      BY <3>1 DEF Unlogged
  <2> QED
    BY <1>1, <2>1, <2>2, OwedShrinks
<1>6. /\ SumFunction(Logged(l)) \in Int /\ opening[l] \in Int /\ missed[l] \in Int
      /\ call[c].entry.eff[l] \in Int
  BY <1>1, CallType, LoggedType DEF TypeOK, Row
<1> QED
  BY <1>1, <1>3, <1>4, <1>5, <1>6, SMTT(30)

\* ... and what a handler cancels, no other does.
LEMMA StepLogMovement ==
  ASSUME Given, IInv, NEW c \in Calls, LogMovement(c)
  PROVE  IInv'
<1>0. PICK k, n : k = call[c] /\ n = Len(log')
  OBVIOUS
<1>1. /\ k.pc = "log" /\ drift \subseteq drift'
      /\ DOMAIN log' = DOMAIN log \cup {n} /\ n \notin DOMAIN log /\ log'[n] = k.entry
      /\ \A i \in DOMAIN log : log'[i] = log[i]
  BY <1>0, LogFacts
<1>2. /\ \A d \in Calls \ {c} : call'[d] = call[d]
      /\ k.entry.of # 0 => call'[c].pc = "mark" /\ call'[c].entry = k.entry
      /\ call'[c].pc \in {"idle", "mark"} /\ Cancels(c)' = Cancels(c)
  BY <1>0, LogCalls
<1>3. /\ Cancels(c) = k.entry.of /\ Waiting(c) /\ ~Waiting(c)'
      /\ \A d \in Calls : Cancels(d)' = Cancels(d)
      /\ \A d \in Calls : Waiting(d)' => Waiting(d) /\ d # c
  BY <1>0, <1>1, <1>2 DEF Cancels, Waiting, Within
<1>4. ASSUME Free({"raced"})'
      PROVE  /\ \A d, e \in Calls : d # e /\ Cancels(d) # 0 => Cancels(d) # Cancels(e)
             /\ \A d \in Calls : Cancels(d) # 0 /\ Waiting(d) =>
                  \A i \in DOMAIN log : log[i].of # Cancels(d)
             /\ \A i, j \in DOMAIN log :
                  log[i].of # 0 =>
                    /\ log[j].of = log[i].of => i = j
                    /\ \/ log[log[i].of].cancelled \/ ~Free({"unmarked"})
                       \/ \E d \in Calls : At(d, "mark") /\ call[d].entry.of = log[i].of
  BY <1>1, <1>4, FreeShrinks DEF IInv, OnceEach, CancelledOnceUnlessRaced
<1>5. OnceEach'
  <2> SUFFICES ASSUME Free({"raced"})'
               PROVE  /\ \A d, e \in Calls : d # e /\ Cancels(d)' # 0 => Cancels(d)' # Cancels(e)'
                      /\ \A d \in Calls : Cancels(d)' # 0 /\ Waiting(d)' =>
                           \A i \in DOMAIN log' : log'[i].of # Cancels(d)'
    BY DEF OnceEach
  <2>1. ASSUME NEW d \in Calls, Cancels(d)' # 0, Waiting(d)', NEW i \in DOMAIN log'
        PROVE  log'[i].of # Cancels(d)'
    <3>1. d # c /\ Waiting(d) /\ Cancels(d) # 0 /\ Cancels(d)' = Cancels(d)
      BY <1>3, <2>1
    <3>2. CASE i = n
      BY <1>1, <1>3, <1>4, <3>1, <3>2
    <3>3. CASE i # n
      BY <1>1, <1>4, <2>1, <3>1, <3>3
    <3> QED
      BY <3>2, <3>3
  <2> QED
    BY <1>3, <1>4, <2>1
<1>6. CancelledOnceUnlessRaced'
  <2> SUFFICES ASSUME Free({"raced"})', NEW i \in DOMAIN log', NEW j \in DOMAIN log',
                      log'[i].of # 0
               PROVE  /\ log'[j].of = log'[i].of => i = j
                      /\ \/ log'[log'[i].of].cancelled \/ ~Free({"unmarked"})'
                         \/ \E d \in Calls : At(d, "mark")' /\ call'[d].entry.of = log'[i].of
    BY DEF CancelledOnceUnlessRaced
  <2>1. k.entry.of # 0 => \A h \in DOMAIN log : log[h].of # k.entry.of
    BY <1>3, <1>4
  <2>2. log'[j].of = log'[i].of => i = j
    <3>1. CASE i = n
      BY <1>1, <2>1, <3>1
    <3>2. CASE i # n /\ j = n
      BY <1>1, <2>1, <3>2
    <3>3. CASE i # n /\ j # n
      BY <1>1, <1>4, <3>3
    <3> QED
      BY <3>1, <3>2, <3>3
  <2>3. CASE i = n
    <3>1. k.entry.of # 0 /\ log'[i].of = k.entry.of
      BY <1>1, <2>3
    <3> QED
      BY <1>2, <2>2, <3>1 DEF At
  <2>4. CASE i # n
    <3>1. i \in DOMAIN log /\ log'[i] = log[i] /\ log[i].of \in DOMAIN log
      BY <1>1, <2>4 DEF IInv, Entries, EntryFits
    <3>2. \/ log[log[i].of].cancelled \/ ~Free({"unmarked"})
          \/ \E d \in Calls : At(d, "mark") /\ call[d].entry.of = log[i].of
      BY <1>4, <3>1
    <3>3. Free({"unmarked"})' => Free({"unmarked"})
      BY <1>1, FreeShrinks
    <3>4. log'[log'[i].of] = log[log[i].of]
      BY <1>1, <3>1
    <3>5. ASSUME NEW d \in Calls, At(d, "mark"), call[d].entry.of = log[i].of
          PROVE  At(d, "mark")' /\ call'[d].entry.of = log'[i].of
      BY <1>0, <1>1, <1>2, <3>1, <3>5 DEF At
    <3> QED
      BY <2>2, <3>2, <3>3, <3>4, <3>5
  <2> QED
    BY <2>2, <2>3, <2>4
<1> QED
  BY <1>5, <1>6, LogTypes, LogPlans, LogExplained DEF IInv

\* What marking changes.
LEMMA MarkFacts ==
  ASSUME Given, IInv, NEW c \in Calls, MarkCancelled(c), NEW m, m = Cancels(c)
  PROVE  /\ TypeOK /\ call[c].pc = "mark" /\ m # 0 /\ m \in DOMAIN log /\ log[m].of = 0
         /\ \E j \in DOMAIN log : log[j].of = m
         /\ UNCHANGED <<stock, batch, clock, served, stops, opening, missed, drift>>
         /\ DOMAIN log' = DOMAIN log /\ Len(log') = Len(log) /\ log' \in Seq(Entry)
         /\ \A i \in DOMAIN log :
              /\ log'[i].of = log[i].of /\ log'[i].eff = log[i].eff /\ log'[i].prev = log[i].prev
              /\ log'[i].covered = log[i].covered /\ log'[i].at = log[i].at
              /\ log'[i].missed = log[i].missed
              /\ log'[i].cancelled <=> log[i].cancelled \/ i = m
         /\ call' \in [Calls -> Call] /\ call'[c] = Idle
         /\ \A d \in Calls \ {c} : call'[d] = call[d]
<1>1. /\ TypeOK /\ call[c].pc = "mark" /\ CallFits(call[c]) /\ CancelFits(call[c])
  BY DEF IInv, Types, MarkCancelled, At
<1>2. /\ call' = [call EXCEPT ![c] = Idle] /\ log' = [log EXCEPT ![m].cancelled = TRUE]
      /\ UNCHANGED <<stock, batch, clock, served, stops, opening, missed, drift>>
  BY DEF MarkCancelled, Done, Marked, Cancels
<1>3. m # 0 /\ m \in DOMAIN log /\ log[m].of = 0
  BY <1>1 DEF CallFits, CancelFits, Cancels
<1>4. \E j \in DOMAIN log : log[j].of = m
  BY <1>1 DEF IInv, Entries, At
<1>5. log \in Seq(Entry) /\ \A i \in DOMAIN log : log[i] \in Entry
  BY <1>1 DEF TypeOK
<1>6. PICK e : e = [log[m] EXCEPT !.cancelled = TRUE]
  OBVIOUS
<1>7. /\ e \in Entry /\ e.of = log[m].of /\ e.eff = log[m].eff /\ e.prev = log[m].prev
      /\ e.covered = log[m].covered /\ e.at = log[m].at /\ e.missed = log[m].missed
      /\ e.cancelled
  BY <1>3, <1>5, <1>6 DEF Entry
<1>8. log' = [log EXCEPT ![m] = e]
  BY <1>2, <1>6
<1>9. /\ DOMAIN log' = DOMAIN log /\ Len(log') = Len(log) /\ log' \in Seq(Entry)
      /\ log'[m] = e /\ \A i \in DOMAIN log : i # m => log'[i] = log[i]
  BY <1>3, <1>5, <1>7, <1>8
<1>10. \A i \in DOMAIN log :
         /\ log'[i].of = log[i].of /\ log'[i].eff = log[i].eff /\ log'[i].prev = log[i].prev
         /\ log'[i].covered = log[i].covered /\ log'[i].at = log[i].at
         /\ log'[i].missed = log[i].missed
         /\ log'[i].cancelled <=> log[i].cancelled \/ i = m
  BY <1>7, <1>9
<1>11. /\ call' \in [Calls -> Call] /\ call'[c] = Idle
       /\ \A d \in Calls \ {c} : call'[d] = call[d]
  BY <1>1, <1>2, IdleType DEF TypeOK
<1> QED
  BY <1>1, <1>2, <1>3, <1>4, <1>9, <1>10, <1>11

\* What is said of types, log and plans does not mind the mark,
LEMMA MarkPlans ==
  ASSUME Given, IInv, NEW c \in Calls, MarkCancelled(c)
  PROVE  Types' /\ Entries' /\ Plans'
<1>0. PICK m : m = Cancels(c)
  OBVIOUS
<1>1. /\ TypeOK /\ call[c].pc = "mark" /\ m # 0 /\ m \in DOMAIN log /\ log[m].of = 0
      /\ \E j \in DOMAIN log : log[j].of = m
      /\ UNCHANGED <<stock, batch, clock, served, stops, opening, missed, drift>>
      /\ DOMAIN log' = DOMAIN log /\ log' \in Seq(Entry)
      /\ \A i \in DOMAIN log :
           /\ log'[i].of = log[i].of /\ log'[i].eff = log[i].eff /\ log'[i].prev = log[i].prev
           /\ log'[i].at = log[i].at
           /\ log'[i].cancelled <=> log[i].cancelled \/ i = m
      /\ call' \in [Calls -> Call] /\ call'[c] = Idle
      /\ \A d \in Calls \ {c} : call'[d] = call[d]
  BY <1>0, MarkFacts
<1>2. TypeOK'
  BY <1>1 DEF TypeOK
<1>3. ASSUME NEW d \in Calls PROVE CallFits(call[d])' /\ CancelFits(call[d])'
  <2>1. CASE d = c
    BY <1>1, <2>1, IdleFits DEF TypeOK
  <2>2. CASE d # c
    <3>1. CallFits(call[d]) /\ CancelFits(call[d]) /\ call'[d] = call[d]
      BY <1>1, <2>2 DEF IInv, Types
    <3>2. CallFits(call[d])'
      BY <1>1, <3>1 DEF CallFits
    <3>3. CancelFits(call[d])'
      BY <1>1, <3>1 DEF CancelFits
    <3> QED
      BY <3>2, <3>3
  <2> QED
    BY <2>1, <2>2
<1>4. ASSUME NEW i \in DOMAIN log' PROVE EntryFits(i)'
  <2>1. EntryFits(i) /\ i \in DOMAIN log
    BY <1>1 DEF IInv, Entries
  <2>2. log'[i].at <= clock' /\ (log'[i].cancelled => log'[i].of = 0 /\ \E j \in DOMAIN log' : log'[j].of = i)
    BY <1>1, <2>1 DEF EntryFits
  <2>3. log'[i].of # 0 => /\ log'[i].of \in DOMAIN log' /\ log'[log'[i].of].of = 0
                          /\ log'[i].of < i /\ log'[i].at > log'[log'[i].of].at
    BY <1>1, <2>1 DEF EntryFits
  <2> QED
    BY <2>2, <2>3 DEF EntryFits
<1>5. ASSUME NEW d \in Calls, At(d, "mark")'
      PROVE  \E j \in DOMAIN log' : log'[j].of = Cancels(d)'
  <2>1. d # c
    BY <1>1, <1>5, IdleType DEF At
  <2>2. At(d, "mark") /\ Cancels(d)' = Cancels(d)
    BY <1>1, <1>5, <2>1 DEF At, Cancels
  <2>3. \E j \in DOMAIN log : log[j].of = Cancels(d)
    BY <2>2 DEF IInv, Entries
  <2> QED
    BY <1>1, <2>2, <2>3
<1>6. \A d \in Calls : ~Planning(call[c])'
  BY <1>1, IdleType DEF Planning
<1>7. ASSUME NEW d \in Calls PROVE Undisturbed(d)'
  <2>1. CASE d = c
    BY <1>6, <2>1 DEF Undisturbed
  <2>2. CASE d # c
    <3>1. Undisturbed(d) /\ call'[d] = call[d]
      BY <1>1, <2>2 DEF IInv, Plans
    <3>2. Midway(d)' => Midway(d)
      BY <1>1, IdleType DEF Midway, Within
    <3> QED
      BY <3>1, <3>2 DEF Undisturbed, Cancels, At
  <2> QED
    BY <2>1, <2>2
<1>8. ASSUME Free({"raced"})', NEW d \in Calls PROVE Planned(call[d])' /\ Calm(d)'
  <2>1. CASE d = c
    BY <1>6, <2>1 DEF Planned, Calm
  <2>2. CASE d # c
    <3>1. Planned(call[d]) /\ Calm(d) /\ call'[d] = call[d]
      BY <1>1, <1>8, <2>2 DEF IInv, Plans, Free
    <3>2. ~(Planning(call[d]) /\ Cancels(d) # 0)
      BY <1>1, <2>2, <3>1 DEF Calm, Within
    <3>3. Planned(call[d])'
      BY <1>1, <3>1, <3>2 DEF Planned, PlansMovement, Covered, Cancels
    <3>4. Calm(d)'
      BY <3>1, <3>2 DEF Calm, Cancels
    <3> QED
      BY <3>3, <3>4
  <2> QED
    BY <2>1, <2>2
<1> QED
  BY <1>2, <1>3, <1>4, <1>5, <1>7, <1>8 DEF Types, Entries, Plans

\* ... nor what is said of the batches.
LEMMA MarkBatches ==
  ASSUME Given, IInv, NEW c \in Calls, MarkCancelled(c)
  PROVE  FreshOne' /\ Halfway' /\ BatchesWithinRow' /\ Took' /\ LastTook' /\ LogExplainsRow'
<1>0. PICK m : m = Cancels(c)
  OBVIOUS
<1>1. /\ TypeOK /\ call[c].pc = "mark"
      /\ UNCHANGED <<stock, batch, clock, served, stops, opening, missed, drift>>
      /\ DOMAIN log' = DOMAIN log /\ Len(log') = Len(log) /\ log' \in Seq(Entry)
      /\ \A i \in DOMAIN log :
           /\ log'[i].of = log[i].of /\ log'[i].eff = log[i].eff /\ log'[i].prev = log[i].prev
           /\ log'[i].covered = log[i].covered /\ log'[i].missed = log[i].missed
      /\ call'[c] = Idle /\ \A d \in Calls \ {c} : call'[d] = call[d]
  BY <1>0, MarkFacts
<1>2. \A F : Free(F)' <=> Free(F)
  BY <1>1 DEF Free
<1>3. \A d \in Calls : /\ Fresh(d)' => Fresh(d)
                       /\ Wrote(d)' => Wrote(d) /\ call'[d] = call[d]
                       /\ Pending(d)' <=> Pending(d)
                       /\ Pending(d) => call'[d] = call[d]
                       /\ At(d, "create")' => At(d, "create")
                       /\ At(d, "delete")' <=> At(d, "delete")
  BY <1>1, IdleType DEF Fresh, Wrote, Pending, Within, At
<1>4. Unlogged' = Unlogged /\ \A d \in Unlogged : call'[d] = call[d] /\ d \in Calls
  BY <1>3 DEF Unlogged
<1>5. FreshOne'
  BY <1>3 DEF IInv, FreshOne
<1>6. Halfway'
  <2>1. Free({"raced"})' => \A d, e \in Calls : Wrote(d)' /\ Wrote(e)' => d = e
    BY <1>2, <1>3 DEF IInv, Halfway
  <2>2. ASSUME Free({"raced"})', NEW d \in Calls, At(d, "create")', NEW x \in Batches
        PROVE  batch'[x] \in {None, call'[d].nextB[x]}
    <3>1. At(d, "create") /\ call'[d] = call[d]
      BY <1>3, <2>2 DEF At, Wrote, Within
    <3> QED
      BY <1>1, <1>2, <2>2, <3>1 DEF IInv, Halfway
  <2>3. ASSUME Free({"raced", "loose", "kept"})', NEW d \in Calls, Wrote(d)', NEW l \in Loc
        PROVE  Total(call'[d].nextB)[l] <= stock'[l]
    BY <1>1, <1>2, <1>3, <2>3 DEF IInv, Halfway
  <2> QED
    BY <2>1, <2>2, <2>3 DEF Halfway
<1>7. BatchesWithinRow'
  BY <1>1, <1>2, <1>3 DEF IInv, BatchesWithinRow
<1>8. Took'
  BY <1>1, <1>2, <1>3 DEF IInv, Took, TookFrom
<1>9. LastTook'
  <2> SUFFICES ASSUME Free({"raced", "edited", "backdated"}), log' # <<>>,
                      \A d \in Unlogged : ~call[d].old
               PROVE  /\ Unlogged = {} => TookFrom(log[Len(log)], Empty)'
                      /\ \A d \in Unlogged : TookFrom(log[Len(log)], call[d].entry.eff)'
    BY <1>2, <1>4 DEF LastTook
  <2>1. log # <<>> /\ Len(log) \in DOMAIN log
    BY <1>1 DEF TypeOK
  <2>2. PICK e, f : e = log[Len(log)] /\ f = log'[Len(log')]
    OBVIOUS
  <2>3. f.of = e.of /\ f.eff = e.eff /\ f.prev = e.prev /\ f.covered = e.covered
        /\ f.missed = e.missed
    BY <1>1, <2>1, <2>2
  <2>4. /\ Unlogged = {} => TookFrom(e, Empty)
        /\ \A d \in Unlogged : TookFrom(e, call[d].entry.eff)
    BY <2>1, <2>2 DEF IInv, LastTook
  <2>5. Unlogged = {} => TookFrom(f, Empty)'
    BY <1>1, <2>3, <2>4 DEF TookFrom
  <2>6. ASSUME NEW d \in Unlogged PROVE TookFrom(f, call[d].entry.eff)'
    <3>1. TookFrom(e, call[d].entry.eff) /\ call'[d] = call[d]
      BY <1>4, <2>4
    <3> QED
      BY <1>1, <2>3, <3>1 DEF TookFrom
  <2> QED
    BY <2>2, <2>5, <2>6 DEF TookFrom
<1>10. LogExplainsRow'
  <2>1. \A l \in Loc : Owed(l)' = Owed(l)
    BY <1>4 DEF Owed
  <2>2. \A l \in Loc : Logged(l)' = Logged(l)
    BY <1>1 DEF Logged
  <2> QED
    BY <1>1, <2>1, <2>2, ExplainedStill DEF IInv
<1> QED
  BY <1>5, <1>6, <1>7, <1>8, <1>9, <1>10

\* Marking the cancelled movement keeps the invariant.
LEMMA StepMarkCancelled ==
  ASSUME Given, IInv, NEW c \in Calls, MarkCancelled(c)
  PROVE  IInv'
<1>0. PICK m : m = Cancels(c)
  OBVIOUS
<1>1. /\ m \in DOMAIN log /\ call[c].pc = "mark" /\ drift' = drift
      /\ DOMAIN log' = DOMAIN log
      /\ \A i \in DOMAIN log :
           /\ log'[i].of = log[i].of
           /\ log'[i].cancelled <=> log[i].cancelled \/ i = m
      /\ call'[c] = Idle /\ \A d \in Calls \ {c} : call'[d] = call[d]
  BY <1>0, MarkFacts
<1>2. \A F : Free(F)' <=> Free(F)
  BY <1>1 DEF Free
<1>3. OnceEach'
  <2>1. \A d \in Calls : Cancels(d)' # 0 => d # c /\ Cancels(d)' = Cancels(d)
    BY <1>1, IdleType DEF Cancels
  <2>2. \A d \in Calls : Waiting(d)' => Waiting(d)
    BY <1>1, IdleType DEF Waiting, Within
  <2> SUFFICES ASSUME Free({"raced"})
               PROVE  /\ \A d, e \in Calls : d # e /\ Cancels(d)' # 0 => Cancels(d)' # Cancels(e)'
                      /\ \A d \in Calls : Cancels(d)' # 0 /\ Waiting(d)' =>
                           \A i \in DOMAIN log' : log'[i].of # Cancels(d)'
    BY <1>2 DEF OnceEach
  <2>4. /\ \A d, e \in Calls : d # e /\ Cancels(d) # 0 => Cancels(d) # Cancels(e)
        /\ \A d \in Calls : Cancels(d) # 0 /\ Waiting(d) =>
             \A i \in DOMAIN log : log[i].of # Cancels(d)
    BY DEF IInv, OnceEach
  <2>5. \A d, e \in Calls : d # e /\ Cancels(d)' # 0 => Cancels(d)' # Cancels(e)'
    BY <2>1, <2>4
  <2>6. \A d \in Calls : Cancels(d)' # 0 /\ Waiting(d)' =>
          \A i \in DOMAIN log' : log'[i].of # Cancels(d)'
    BY <1>1, <2>1, <2>2, <2>4
  <2> QED
    BY <2>5, <2>6
<1>4. CancelledOnceUnlessRaced'
  <2> SUFFICES ASSUME Free({"raced"}), NEW i \in DOMAIN log, NEW j \in DOMAIN log, log[i].of # 0
               PROVE  /\ log[j].of = log[i].of => i = j
                      /\ \/ log'[log[i].of].cancelled \/ ~Free({"unmarked"})
                         \/ \E d \in Calls : At(d, "mark")' /\ call'[d].entry.of = log[i].of
    BY <1>1, <1>2 DEF CancelledOnceUnlessRaced
  <2>1. log[i].of \in DOMAIN log
    BY DEF IInv, Entries, EntryFits
  <2>2. /\ log[j].of = log[i].of => i = j
        /\ \/ log[log[i].of].cancelled \/ ~Free({"unmarked"})
           \/ \E d \in Calls : At(d, "mark") /\ call[d].entry.of = log[i].of
    BY DEF IInv, CancelledOnceUnlessRaced
  <2>3. CASE log[i].of = m
    BY <1>1, <2>1, <2>2, <2>3
  <2>4. CASE log[i].of # m
    <3>1. ASSUME NEW d \in Calls, At(d, "mark"), call[d].entry.of = log[i].of
          PROVE  At(d, "mark")' /\ call'[d].entry.of = log[i].of
      BY <1>0, <1>1, <2>4, <3>1 DEF At, Cancels
    <3> QED
      BY <1>1, <2>1, <2>2, <3>1
  <2> QED
    BY <2>3, <2>4
<1> QED
  BY <1>3, <1>4, MarkPlans, MarkBatches DEF IInv
-----------------------------------------------------------------------------
(* Disposing of a batch, with its movements.                               *)

WriteOff(l, q, at) == [NoEntry EXCEPT !.eff = Effect(l, 0 - q), !.at = at]
Disposed(x) == WrittenOff("reyon", x, WrittenOff("depo", x, log, clock + 1), clock + 2)

\* The movement of a write-off.
LEMMA WriteOffIs ==
  ASSUME NEW l \in Loc, NEW q \in Nat, NEW at \in Nat
  PROVE  /\ WriteOff(l, q, at) \in Entry /\ WriteOff(l, q, at).of = 0
         /\ ~WriteOff(l, q, at).cancelled
         /\ WriteOff(l, q, at).prev = None /\ WriteOff(l, q, at).at = at
         /\ \A m \in Loc : WriteOff(l, q, at).eff[m] = IF m = l THEN 0 - q ELSE 0
<1> DEFINE n == 0 - q
<1>1. n \in Int
  OBVIOUS
<1>2. PICK e : e = [NoEntry EXCEPT !.eff = Effect(l, n), !.at = at]
  OBVIOUS
<1>3. WriteOff(l, q, at) = e
  BY <1>2 DEF WriteOff
<1> HIDE DEF n
<1>4. Effect(l, n) \in [Loc -> Int] /\ \A m \in Loc : Effect(l, n)[m] = IF m = l THEN n ELSE 0
  BY <1>1, EffectIs
<1>5. PICK f : f = Effect(l, n)
  OBVIOUS
<1>6. e \in Entry /\ e.of = 0 /\ ~e.cancelled /\ e.prev = None /\ e.eff = f /\ e.at = at
  <2>1. e = [NoEntry EXCEPT !.eff = f, !.at = at] /\ f \in [Loc -> Int]
    BY <1>2, <1>4, <1>5
  <2> QED
    BY <2>1, IdleType DEF NoEntry, Entry
<1> QED
  BY <1>3, <1>4, <1>5, <1>6 DEF n

\* The log after a batch is disposed of: what the batch held is written off.
LEMMA DisposedIs ==
  ASSUME TypeOK, NEW x \in Batches, batch[x] \in Row
  PROVE  /\ Disposed(x) \in Seq(Entry) /\ Len(Disposed(x)) >= Len(log)
         /\ (\E l \in Loc : batch[x][l] > 0) => Len(Disposed(x)) > Len(log)
         /\ \A i \in DOMAIN log : Disposed(x)[i] = log[i]
         /\ \A i \in DOMAIN Disposed(x) \ DOMAIN log :
              /\ Disposed(x)[i].of = 0 /\ ~Disposed(x)[i].cancelled
                /\ Disposed(x)[i].prev = None /\ Disposed(x)[i].at <= clock + 2
         /\ \A l \in Loc : Logs(Disposed(x), l) = Logs(log, l) - batch[x][l]
<1> DEFINE a == batch[x]["depo"]
           b == batch[x]["reyon"]
           s == IF a = 0 THEN log ELSE Append(log, WriteOff("depo", a, clock + 1))
           t == IF b = 0 THEN s ELSE Append(s, WriteOff("reyon", b, clock + 2))
<1>1. /\ Loc = {"depo", "reyon"} /\ "depo" \in Loc /\ "reyon" \in Loc
      /\ a \in Nat /\ b \in Nat /\ log \in Seq(Entry)
      /\ clock + 1 \in Nat /\ clock + 2 \in Nat /\ clock + 1 <= clock + 2
  BY DEF Loc, Row, TypeOK
<1>2. t = Disposed(x)
  BY DEF Disposed, WrittenOff, WriteOff
<1> HIDE DEF a, b
<1>3. PICK d, r : d = WriteOff("depo", a, clock + 1) /\ r = WriteOff("reyon", b, clock + 2)
  OBVIOUS
<1>4. /\ d \in Entry /\ d.of = 0 /\ ~d.cancelled /\ d.prev = None /\ d.at <= clock + 2
      /\ d.eff["depo"] = 0 - a /\ d.eff["reyon"] = 0
  BY <1>1, <1>3, WriteOffIs
<1>5. /\ r \in Entry /\ r.of = 0 /\ ~r.cancelled /\ r.prev = None /\ r.at <= clock + 2
      /\ r.eff["reyon"] = 0 - b /\ r.eff["depo"] = 0
  BY <1>1, <1>3, WriteOffIs
<1>6. /\ s \in Seq(Entry) /\ Len(s) >= Len(log) /\ (a > 0 => Len(s) > Len(log))
      /\ \A i \in DOMAIN log : s[i] = log[i]
      /\ \A i \in DOMAIN s \ DOMAIN log : s[i] = d
  BY <1>1, <1>3, <1>4
<1>7. \A l \in Loc : /\ Logs(s, l) = Logs(log, l) - IF l = "depo" THEN a ELSE 0
                     /\ Logs(log, l) \in Int
  <2>1. \A l \in Loc : Logs(Append(log, d), l) = Logs(log, l) + d.eff[l] /\ Logs(log, l) \in Int
    BY <1>1, <1>4, LogsGrows DEF IsLog
  <2>2. CASE a > 0
    <3>1. s = Append(log, d)
      BY <1>3, <2>2
    <3> HIDE DEF s
    <3> QED
      BY <1>1, <1>4, <2>1, <3>1
  <2>3. CASE ~(a > 0)
    <3>1. s = log /\ a = 0
      BY <1>1, <2>3
    <3> HIDE DEF s
    <3> QED
      BY <2>1, <3>1
  <2> QED
    BY <2>2, <2>3
<1> HIDE DEF s
<1>8. /\ t \in Seq(Entry) /\ Len(t) >= Len(s) /\ (b > 0 => Len(t) > Len(s))
      /\ \A i \in DOMAIN s : t[i] = s[i]
      /\ \A i \in DOMAIN t \ DOMAIN s : t[i] = r
  BY <1>1, <1>3, <1>5, <1>6
<1>9. \A l \in Loc : Logs(t, l) = Logs(s, l) - IF l = "reyon" THEN b ELSE 0
  <2>1. \A l \in Loc : Logs(Append(s, r), l) = Logs(s, l) + r.eff[l] /\ Logs(s, l) \in Int
    BY <1>5, <1>6, LogsGrows DEF IsLog
  <2>2. CASE b > 0
    <3>1. t = Append(s, r)
      BY <1>3, <2>2
    <3> HIDE DEF t
    <3> QED
      BY <1>1, <1>5, <2>1, <3>1
  <2>3. CASE ~(b > 0)
    <3>1. t = s /\ b = 0
      BY <1>1, <2>3
    <3> HIDE DEF t
    <3> QED
      BY <2>1, <3>1
  <2> QED
    BY <2>2, <2>3
<1> HIDE DEF t
<1>10. /\ Len(t) >= Len(log) /\ (a > 0 \/ b > 0 => Len(t) > Len(log))
       /\ \A i \in DOMAIN log : t[i] = log[i]
       /\ \A i \in DOMAIN t \ DOMAIN log : t[i] = r \/ t[i] = d
  <2>1. Len(log) \in Nat /\ Len(s) \in Nat /\ Len(t) \in Nat /\ DOMAIN log \subseteq DOMAIN s
        /\ DOMAIN s \subseteq DOMAIN t
    BY <1>1, <1>6, <1>8
  <2>2. \A i \in DOMAIN log : t[i] = log[i]
    BY <1>6, <1>8, <2>1
  <2>3. \A i \in DOMAIN t \ DOMAIN log : t[i] = r \/ t[i] = d
    BY <1>6, <1>8, <2>1
  <2> QED
    BY <1>6, <1>8, <2>1, <2>2, <2>3
<1>11. \A l \in Loc : Logs(t, l) = Logs(log, l) - batch[x][l]
  BY <1>1, <1>7, <1>9 DEF a, b
<1>12. (\E l \in Loc : batch[x][l] > 0) => a > 0 \/ b > 0
  BY <1>1 DEF a, b
<1> QED
  BY <1>2, <1>4, <1>5, <1>8, <1>10, <1>11, <1>12
\* What disposing of a batch does.
LEMMA DisposeFacts ==
  ASSUME Given, IInv, NEW x \in Batches, DisposeBatch(x)
  PROVE  /\ TypeOK /\ stock' \in Row /\ batch' \in Books /\ stock' = Total(batch')
         /\ UNCHANGED <<stops, opening, missed>> /\ served' \in Nat /\ clock' = clock + 2
         /\ drift \subseteq drift' /\ drift' \subseteq Flags
         /\ Free({"raced"})' => \A d \in Calls : ~Wrote(d)
         /\ Free({"uncovered"})' => \A l \in Loc : stock'[l] = stock[l] - batch[x][l]
         /\ \A l \in Loc : batch[x][l] \in Nat
         /\ log' \in Seq(Entry) /\ Len(log') > Len(log)
         /\ \A i \in DOMAIN log : log'[i] = log[i]
         /\ \A i \in DOMAIN log' \ DOMAIN log :
              /\ log'[i].of = 0 /\ ~log'[i].cancelled /\ log'[i].prev = None
              /\ log'[i].at <= clock'
         /\ \A l \in Loc : Logs(log', l) = Logs(log, l) - batch[x][l]
<1> DEFINE b == [batch EXCEPT ![x] = Empty]
<1>1. TypeOK /\ stock \in Row /\ batch \in Books /\ Empty \in Row
  BY EmptyType DEF IInv, Types, TypeOK
<1>2. batch[x] \in Row /\ batch[x] # Empty /\ batch[x] # None
  BY <1>1 DEF DisposeBatch, Rows, Books
<1>3. \E l \in Loc : batch[x][l] > 0
  <2>1. \A l \in Loc : batch[x][l] \in Nat
    BY <1>2 DEF Row
  <2> SUFFICES ASSUME \A l \in Loc : batch[x][l] = 0 PROVE FALSE
    BY <2>1
  <2>2. batch[x] = Empty
    BY <1>2 DEF Row, Empty
  <2> QED
    BY <1>2, <2>2
<1>4. b \in Books /\ \A m \in Loc : Total(b)[m] = Total(batch)[m] - Held(batch, m)[x] + Empty[m]
  BY <1>1, SetTotal
<1>5. \A m \in Loc : Held(batch, m)[x] = batch[x][m] /\ Empty[m] = 0 /\ Total(batch)[m] \in Nat
                     /\ batch[x][m] \in Nat
  <2>1. \A m \in Loc : Held(batch, m)[x] = batch[x][m]
    BY <1>1, <1>2, HeldType
  <2>2. \A m \in Loc : Total(batch)[m] \in Nat
    BY <1>1, TotalType DEF Row
  <2>3. \A m \in Loc : batch[x][m] \in Nat
    BY <1>2 DEF Row
  <2> QED
    BY <2>1, <2>2, <2>3, EmptyType
<1>6. Total(b) \in Row
  BY <1>4, TotalType
<1>7. /\ batch' = b /\ stock' = Total(b) /\ clock' = clock + 2 /\ served' = served + 1
      /\ UNCHANGED <<stops, opening, missed>>
      /\ drift \subseteq drift' /\ drift' \subseteq Flags
      /\ ~Covered => "uncovered" \in drift'
      /\ (\E d \in Calls : Within(d, {"delete", "create"})) => "raced" \in drift'
  BY <1>1 DEF DisposeBatch, Room, TypeOK, Flags
<1>8. log' = Disposed(x)
  BY DEF DisposeBatch, Disposed
<1> HIDE DEF b
<1>9. /\ log' \in Seq(Entry) /\ Len(log') > Len(log)
      /\ \A i \in DOMAIN log : log'[i] = log[i]
      /\ \A i \in DOMAIN log' \ DOMAIN log :
           log'[i].of = 0 /\ ~log'[i].cancelled /\ log'[i].prev = None /\ log'[i].at <= clock + 2
      /\ \A l \in Loc : Logs(log', l) = Logs(log, l) - batch[x][l]
  BY <1>1, <1>2, <1>3, <1>8, DisposedIs
<1>10. Free({"uncovered"})' => \A l \in Loc : stock'[l] = stock[l] - batch[x][l]
  <2> SUFFICES ASSUME Free({"uncovered"})' PROVE \A l \in Loc : stock'[l] = stock[l] - batch[x][l]
    OBVIOUS
  <2>1. Total(batch) = stock
    BY <1>7 DEF Free, Covered
  <2> QED
    BY <1>4, <1>5, <1>7, <2>1
<1>11. Free({"raced"})' => \A d \in Calls : ~Wrote(d)
  BY <1>7 DEF Free, Wrote
<1>12. served' \in Nat
  BY <1>1, <1>7 DEF TypeOK
<1> QED
  BY <1>1, <1>4, <1>5, <1>6, <1>7, <1>9, <1>10, <1>11, <1>12

\* What the handlers have read is old; they plan and owe nothing to rely on.
LEMMA DisposeCalls ==
  ASSUME Given, IInv, NEW x \in Batches, DisposeBatch(x)
  PROVE  /\ call' \in [Calls -> Call]
         /\ \A d \in Calls : /\ Aged(d) /\ ~Planning(call[d])' /\ ~Fresh(d)'
                             /\ Pending(d)' <=> Pending(d)
                             /\ Wrote(d)' <=> Wrote(d)
                             /\ Cancels(d)' = Cancels(d) /\ (Waiting(d)' <=> Waiting(d))
                             /\ At(d, "mark")' <=> At(d, "mark")
<1>1. call' = Outdated
  BY DEF DisposeBatch
<1>2. \A d \in Calls : Outdated[d] \in Call /\ Aged(d)
  BY <1>1, OutdatedIs DEF Aged
<1>3. call' \in [Calls -> Call]
  <2>1. Outdated = [d \in Calls |-> Outdated[d]]
    BY DEF Outdated
  <2> HIDE DEF Outdated
  <2> QED
    BY <1>1, <1>2, <2>1
<1>4. ASSUME NEW d \in Calls
      PROVE  /\ ~Planning(call[d])' /\ ~Fresh(d)'
             /\ Pending(d)' <=> Pending(d)
             /\ Wrote(d)' <=> Wrote(d)
             /\ Cancels(d)' = Cancels(d) /\ (Waiting(d)' <=> Waiting(d))
             /\ At(d, "mark")' <=> At(d, "mark")
  <2>1. Aged(d)
    BY <1>2
  <2>2. ~Planning(call[d])' /\ ~Fresh(d)'
    BY <2>1 DEF Aged, Planning, Fresh, Within
  <2>3. /\ Pending(d)' <=> Pending(d)
        /\ Wrote(d)' <=> Wrote(d)
        /\ Cancels(d)' = Cancels(d) /\ (Waiting(d)' <=> Waiting(d))
        /\ At(d, "mark")' <=> At(d, "mark")
    BY <2>1 DEF Aged, Pending, Wrote, Within, Cancels, Waiting, At
  <2> QED
    BY <2>2, <2>3
<1> QED
  BY <1>2, <1>3, <1>4

\* The types stay, and the movements fit in the log,
LEMMA DisposeTypes ==
  ASSUME Given, IInv, NEW x \in Batches, DisposeBatch(x)
  PROVE  Types' /\ Entries'
<1>1. /\ TypeOK /\ stock' \in Row /\ batch' \in Books
      /\ UNCHANGED <<stops, opening, missed>> /\ served' \in Nat /\ clock' = clock + 2
      /\ drift' \subseteq Flags /\ log' \in Seq(Entry) /\ Len(log') > Len(log)
      /\ \A i \in DOMAIN log : log'[i] = log[i]
      /\ \A i \in DOMAIN log' \ DOMAIN log :
           /\ log'[i].of = 0 /\ ~log'[i].cancelled /\ log'[i].prev = None
           /\ log'[i].at <= clock'
  BY DisposeFacts
<1>2. call' \in [Calls -> Call] /\ \A d \in Calls : Aged(d) /\ (At(d, "mark")' <=> At(d, "mark"))
  BY DisposeCalls
<1>3. /\ clock \in Nat /\ clock' \in Nat /\ clock <= clock' /\ DOMAIN log \subseteq DOMAIN log'
      /\ \A i \in DOMAIN log : i \in Nat /\ i # 0
  BY <1>1 DEF TypeOK
<1>4. TypeOK'
  BY <1>1, <1>2, <1>3 DEF TypeOK, Flags
<1>5. ASSUME NEW d \in Calls PROVE CallFits(call[d])' /\ CancelFits(call[d])'
  <2>1. CallFits(call[d]) /\ CancelFits(call[d]) /\ Aged(d) /\ call[d] \in Call
    BY <1>1, <1>2 DEF IInv, Types, TypeOK
  <2>2. call[d].entry.at \in Nat
    BY <2>1, CallType
  <2>3. call'[d].entry.at <= clock'
    BY <1>3, <2>1, <2>2 DEF CallFits, Aged
  <2>4. CallFits(call[d])'
    BY <2>1, <2>3 DEF CallFits, Aged
  <2>5. CancelFits(call[d])'
    BY <1>1, <1>3, <2>1 DEF CancelFits, Aged
  <2> QED
    BY <2>4, <2>5
<1>6. ASSUME NEW i \in DOMAIN log' PROVE EntryFits(i)'
  <2>1. CASE i \in DOMAIN log
    <3>1. EntryFits(i) /\ log[i] \in Entry
      BY <1>1, <2>1 DEF IInv, Entries, TypeOK
    <3>2. log[i].at \in Nat
      BY <3>1 DEF Entry
    <3>3. log[i].at <= clock'
      BY <1>3, <3>1, <3>2 DEF EntryFits
    <3> QED
      BY <1>1, <1>3, <2>1, <3>1, <3>3 DEF EntryFits
  <2>2. CASE i \notin DOMAIN log
    BY <1>1, <2>2 DEF EntryFits
  <2> QED
    BY <2>1, <2>2
<1>7. ASSUME NEW d \in Calls, At(d, "mark")'
      PROVE  \E j \in DOMAIN log' : log'[j].of = Cancels(d)'
  <2>1. At(d, "mark") /\ Cancels(d)' = Cancels(d)
    BY <1>2, <1>7 DEF Aged, Cancels
  <2>2. PICK j \in DOMAIN log : log[j].of = Cancels(d)
    BY <2>1 DEF IInv, Entries
  <2> QED
    BY <1>1, <1>3, <2>1, <2>2
<1> QED
  BY <1>4, <1>5, <1>6, <1>7 DEF Types, Entries

\* ... the row is less what is written off,
LEMMA DisposeExplained ==
  ASSUME Given, IInv, NEW x \in Batches, DisposeBatch(x)
  PROVE  LogExplainsRow'
<1>1. /\ TypeOK /\ stock' \in Row /\ UNCHANGED <<opening, missed>> /\ drift \subseteq drift'
      /\ Free({"uncovered"})' => \A l \in Loc : stock'[l] = stock[l] - batch[x][l]
      /\ \A l \in Loc : batch[x][l] \in Nat
      /\ \A l \in Loc : Logs(log', l) = Logs(log, l) - batch[x][l]
  BY DisposeFacts
<1> SUFFICES ASSUME Free({"raced", "uncovered", "edited", "backdated"})', NEW l \in Loc
             PROVE  stock'[l] = opening'[l] + SumFunction(Logged(l)') + SumFunction(Owed(l)')
                                  + missed'[l]
  BY DEF LogExplainsRow, Logged, Owed
<1>2. stock[l] = opening[l] + SumFunction(Logged(l)) + SumFunction(Owed(l)) + missed[l]
  <2>1. Free({"raced", "uncovered", "edited", "backdated"})
    BY <1>1, FreeShrinks
  <2> QED
    BY <2>1 DEF IInv, LogExplainsRow, Logged, Owed
<1>3. Owed(l)' = Owed(l)
  <2>1. \A d \in Calls : Aged(d) /\ (Pending(d)' <=> Pending(d))
    BY DisposeCalls
  <2>2. Unlogged' = Unlogged
    BY <2>1 DEF Unlogged
  <2> QED
    BY <2>1, <2>2 DEF Owed, Unlogged, Aged
<1>4. SumFunction(Logged(l)) = Logs(log, l) /\ SumFunction(Logged(l)') = Logs(log', l)
  BY DEF Logged, Logs
<1>5. stock'[l] = stock[l] - batch[x][l]
  BY <1>1 DEF Free
<1>6. PICK s, o, m, q, g, w : /\ s = stock[l] /\ o = opening[l] /\ m = missed[l] /\ q = batch[x][l]
                              /\ g = SumFunction(Logged(l)) /\ w = SumFunction(Owed(l))
  OBVIOUS
<1>7. /\ s \in Int /\ o \in Int /\ m \in Int /\ q \in Int /\ g \in Int /\ w \in Int
  BY <1>1, <1>6, LoggedType, OwedType DEF TypeOK, Row
<1>8. s = o + g + w + m
  BY <1>2, <1>6
<1>9. s - q = o + (g - q) + w + m
  BY <1>7, <1>8
<1>10. stock'[l] = s - q /\ SumFunction(Logged(l)') = g - q
  BY <1>1, <1>4, <1>5, <1>6
<1> QED
  BY <1>1, <1>3, <1>6, <1>9, <1>10

\* ... and no cancellation is done or undone.
LEMMA StepDisposeBatch ==
  ASSUME Given, IInv, NEW x \in Batches, DisposeBatch(x)
  PROVE  IInv'
<1>1. /\ TypeOK /\ stock' \in Row /\ stock' = Total(batch') /\ drift \subseteq drift'
      /\ Free({"raced"})' => \A d \in Calls : ~Wrote(d)
      /\ log' \in Seq(Entry) /\ Len(log') > Len(log)
      /\ \A i \in DOMAIN log : log'[i] = log[i]
      /\ \A i \in DOMAIN log' \ DOMAIN log :
           log'[i].of = 0 /\ ~log'[i].cancelled /\ log'[i].prev = None
  BY DisposeFacts
<1>2. \A d \in Calls : /\ Aged(d) /\ ~Planning(call[d])' /\ ~Fresh(d)'
                       /\ Pending(d)' <=> Pending(d)
                       /\ Wrote(d)' <=> Wrote(d)
                       /\ Cancels(d)' = Cancels(d) /\ (Waiting(d)' <=> Waiting(d))
                       /\ At(d, "mark")' <=> At(d, "mark")
  BY DisposeCalls
<1>3. /\ DOMAIN log \subseteq DOMAIN log' /\ Len(log') \in DOMAIN log' \ DOMAIN log
      /\ \A i \in DOMAIN log : i \in Nat /\ i # 0
  BY <1>1 DEF TypeOK
<1>4. Plans' /\ FreshOne'
  BY <1>2 DEF Plans, Undisturbed, Planned, Calm, FreshOne
<1>5. Halfway'
  <2>1. Free({"raced"})' => \A d \in Calls : ~Wrote(d)' /\ ~At(d, "create")'
    BY <1>1, <1>2 DEF Wrote, Within, At
  <2>2. Free({"raced", "loose", "kept"})' => Free({"raced"})'
    BY DEF Free
  <2> QED
    BY <2>1, <2>2 DEF Halfway
<1>6. BatchesWithinRow'
  BY <1>1 DEF BatchesWithinRow, Row
<1>7. Took'
  BY <1>2 DEF Took, Fresh, Pending
<1>8. LastTook'
  <2>1. PICK e : e = log'[Len(log')]
    OBVIOUS
  <2>2. e.prev = None
    BY <1>1, <1>3, <2>1
  <2> QED
    BY <2>1, <2>2 DEF LastTook, TookFrom
<1>9. Free({"raced"})' => Free({"raced"})
  BY <1>1, FreeShrinks
<1>10. OnceEach'
  <2> SUFFICES ASSUME Free({"raced"})'
               PROVE  /\ \A d, e \in Calls : d # e /\ Cancels(d)' # 0 => Cancels(d)' # Cancels(e)'
                      /\ \A d \in Calls : Cancels(d)' # 0 /\ Waiting(d)' =>
                           \A i \in DOMAIN log' : log'[i].of # Cancels(d)'
    BY DEF OnceEach
  <2>1. /\ \A d, e \in Calls : d # e /\ Cancels(d) # 0 => Cancels(d) # Cancels(e)
        /\ \A d \in Calls : Cancels(d) # 0 /\ Waiting(d) =>
             \A i \in DOMAIN log : log[i].of # Cancels(d)
    BY <1>9 DEF IInv, OnceEach
  <2>2. ASSUME NEW d \in Calls, Cancels(d)' # 0, Waiting(d)', NEW i \in DOMAIN log'
        PROVE  log'[i].of # Cancels(d)'
    <3>1. CASE i \in DOMAIN log
      BY <1>1, <1>2, <2>1, <2>2, <3>1
    <3>2. CASE i \notin DOMAIN log
      BY <1>1, <2>2, <3>2
    <3> QED
      BY <3>1, <3>2
  <2> QED
    BY <1>2, <2>1, <2>2
<1>11. CancelledOnceUnlessRaced'
  <2> SUFFICES ASSUME Free({"raced"})', NEW i \in DOMAIN log', NEW j \in DOMAIN log',
                      log'[i].of # 0
               PROVE  /\ log'[j].of = log'[i].of => i = j
                      /\ \/ log'[log'[i].of].cancelled \/ ~Free({"unmarked"})'
                         \/ \E d \in Calls : At(d, "mark")' /\ call'[d].entry.of = log'[i].of
    BY DEF CancelledOnceUnlessRaced
  <2>1. /\ i \in DOMAIN log /\ log'[i] = log[i] /\ log[i].of \in DOMAIN log
        /\ log'[log[i].of] = log[log[i].of]
    BY <1>1 DEF IInv, Entries, EntryFits
  <2>2. log'[j].of = log'[i].of => j \in DOMAIN log /\ log'[j] = log[j]
    BY <1>1
  <2>3. \A g, h \in DOMAIN log :
          log[g].of # 0 =>
            /\ log[h].of = log[g].of => g = h
            /\ \/ log[log[g].of].cancelled \/ ~Free({"unmarked"})
               \/ \E d \in Calls : At(d, "mark") /\ call[d].entry.of = log[g].of
    BY <1>9 DEF IInv, CancelledOnceUnlessRaced
  <2>4. log'[j].of = log'[i].of => i = j
    BY <2>1, <2>2, <2>3
  <2>5. \A d \in Calls : At(d, "mark") => At(d, "mark")' /\ call'[d].entry.of = call[d].entry.of
    BY <1>2 DEF Cancels
  <2>6. Free({"unmarked"})' => Free({"unmarked"})
    BY <1>1, FreeShrinks
  <2>7. \/ log'[log'[i].of].cancelled \/ ~Free({"unmarked"})'
        \/ \E d \in Calls : At(d, "mark")' /\ call'[d].entry.of = log'[i].of
    BY <2>1, <2>3, <2>5, <2>6
  <2> QED
    BY <2>4, <2>7
<1> QED
  BY <1>4, <1>5, <1>6, <1>7, <1>8, <1>10, <1>11, DisposeTypes, DisposeExplained DEF IInv

-----------------------------------------------------------------------------
(* The theorems.                                                           *)

\* At first, no movement explains the opening quantity.
LEMMA InitInv == ASSUME Given, Init PROVE IInv
<1>1. /\ stock \in Row /\ opening \in Row /\ stock = opening
      /\ batch = NoBooks /\ log = <<>> /\ call = [c \in Calls |-> Idle]
      /\ clock = 0 /\ served = 0 /\ stops = 0 /\ missed = Empty /\ drift = {}
  BY DEF Init, Row, Loc
<1>2. \A c \in Calls : call[c] = Idle
  BY <1>1
<1>3. \A c \in Calls : /\ call[c] = Idle /\ Cancels(c) = 0 /\ ~Pending(c) /\ ~Wrote(c) /\ ~Fresh(c)
                       /\ ~Planning(call[c]) /\ ~At(c, "create") /\ ~At(c, "mark")
  BY <1>2, IdleType DEF Cancels, Pending, Wrote, Fresh, Planning, Within, At
<1>4. Types
  <2>1. missed \in [Loc -> Int]
    BY <1>1, EmptyType, RowIsInt
  <2>2. TypeOK
    BY <1>1, <2>1, IdleType, EmptyType DEF TypeOK
  <2>3. ASSUME NEW c \in Calls PROVE CallFits(call[c]) /\ CancelFits(call[c])
    BY <1>1, <1>2, IdleType DEF CallFits, CancelFits
  <2> QED
    BY <2>2, <2>3 DEF Types
<1>5. Entries
  BY <1>1, <1>3 DEF Entries
<1>6. Plans /\ FreshOne
  BY <1>3 DEF Plans, Undisturbed, Planned, Calm, FreshOne
<1>7. Halfway
  BY <1>3 DEF Halfway
<1>8. Took /\ LastTook
  BY <1>1, <1>3 DEF Took, LastTook
<1>9. OnceEach
  BY <1>3 DEF OnceEach
<1>10. BatchesWithinRow
  <2>1. Rows(batch) = {} /\ batch \in Books
    BY <1>1, EmptyType DEF Rows, NoBooks
  <2>2. \A l \in Loc : Total(batch)[l] = 0
    BY <2>1, NoRowsTotal
  <2> QED
    BY <1>1, <2>2 DEF BatchesWithinRow, Row
<1>11. LogExplainsRow
  <2> SUFFICES ASSUME NEW l \in Loc
               PROVE  stock[l] = opening[l] + SumFunction(Logged(l)) + SumFunction(Owed(l))
                                   + missed[l]
    BY DEF LogExplainsRow, Logged, Owed
  <2>1. DOMAIN Logged(l) = {} /\ DOMAIN Owed(l) = {}
    BY <1>1, <1>3 DEF Logged, Owed, Unlogged
  <2>2. SumFunction(Logged(l)) = 0 /\ SumFunction(Owed(l)) = 0
    BY <2>1, SumZero, FS_EmptySet
  <2> QED
    BY <1>1, <2>2, EmptyType DEF Row
<1>12. CancelledOnceUnlessRaced
  BY <1>1 DEF CancelledOnceUnlessRaced
<1> QED
  BY <1>4, <1>5, <1>6, <1>7, <1>8, <1>9, <1>10, <1>11, <1>12 DEF IInv

\* A step that changes nothing keeps it,
LEMMA StutterInv == ASSUME IInv, UNCHANGED vars PROVE IInv'
<1>1. /\ stock' = stock /\ batch' = batch /\ log' = log /\ call' = call /\ clock' = clock
      /\ served' = served /\ stops' = stops /\ opening' = opening /\ missed' = missed
      /\ drift' = drift
  BY DEF vars
<1>2. /\ Unlogged' = Unlogged /\ \A F : Free(F)' <=> Free(F)
      /\ \A c \in Calls : /\ Pending(c)' <=> Pending(c)
                          /\ Fresh(c)' <=> Fresh(c)
                          /\ Wrote(c)' <=> Wrote(c)
                          /\ Midway(c)' <=> Midway(c)
                          /\ Waiting(c)' <=> Waiting(c)
                          /\ Cancels(c)' = Cancels(c)
                          /\ At(c, "create")' <=> At(c, "create")
                          /\ At(c, "delete")' <=> At(c, "delete")
                          /\ At(c, "mark")' <=> At(c, "mark")
  BY <1>1 DEF Unlogged, Free, Pending, Fresh, Wrote, Midway, Waiting, Cancels, Within, At
<1>3. Types'
  BY <1>1 DEF IInv, Types, TypeOK, CallFits, CancelFits
<1>4. Entries'
  BY <1>1, <1>2 DEF IInv, Entries, EntryFits
<1>5. Plans'
  <2>1. \A c \in Calls : Undisturbed(c)'
    BY <1>1, <1>2 DEF IInv, Plans, Undisturbed, At
  <2>2. ASSUME Free({"raced"})', NEW c \in Calls PROVE Planned(call[c])' /\ Calm(c)'
    <3>1. Planned(call[c]) /\ Calm(c)
      BY <1>2, <2>2 DEF IInv, Plans
    <3>2. Planned(call[c])'
      BY <1>1, <3>1 DEF Planned, PlansMovement, PlansCancel, Covered
    <3>3. Calm(c)'
      BY <1>1, <1>2, <3>1 DEF Calm, IsLatest, Within
    <3> QED
      BY <3>2, <3>3
  <2> QED
    BY <2>1, <2>2 DEF Plans
<1>6. FreshOne' /\ Halfway'
  BY <1>1, <1>2 DEF IInv, FreshOne, Halfway
<1>7. Took' /\ LastTook'
  BY <1>1, <1>2 DEF IInv, Took, LastTook, TookFrom
<1>8. OnceEach'
  BY <1>1, <1>2 DEF IInv, OnceEach
<1>9. BatchesWithinRow' /\ LogExplainsRow'
  BY <1>1, <1>2 DEF IInv, BatchesWithinRow, LogExplainsRow
<1>10. CancelledOnceUnlessRaced'
  BY <1>1, <1>2 DEF IInv, CancelledOnceUnlessRaced
<1> QED
  BY <1>3, <1>4, <1>5, <1>6, <1>7, <1>8, <1>9, <1>10 DEF IInv

\* ... and so does every other.
LEMMA InvStep == ASSUME Given, IInv, [Next]_vars PROVE IInv'
<1>1. ASSUME NEW c \in Calls, NEW l \in Loc, NEW q \in 1..MaxQty,
             NEW x \in Batches \cup {None},
             \/ GoodsIn(c, l, q, x) \/ GoodsOut(c, l, q, x)
             \/ \E to \in Loc : TransferStock(c, l, to, q, x)
      PROVE  IInv'
  BY <1>1, StepGoodsIn, StepGoodsOut, StepTransferStock
<1>2. ASSUME NEW c \in Calls, NEW l \in Loc, NEW q \in 0..MaxQty,
             NEW x \in Batches \cup {None}, Adjust(c, l, q, x)
      PROVE  IInv'
  BY <1>2, StepAdjust
<1>3. ASSUME NEW c \in Calls, NEW x \in Batches, NEW row \in [Loc -> 0..MaxQty],
             UpsertBatch(c, x, row)
      PROVE  IInv'
  BY <1>3, StepUpsertBatch
<1>4. ASSUME NEW c \in Calls, NEW m \in DOMAIN log, CancelMovement(c, m) PROVE IInv'
  BY <1>4, StepCancelMovement
<1>5. ASSUME NEW c \in Calls, Handle(c) PROVE IInv'
  BY <1>5, StepTillRow, StepFetch, StepWriteRow, StepDeleteBatches, StepCreateBatch,
     StepLogMovement, StepMarkCancelled, StepStop DEF Handle
<1>6. ASSUME NEW x \in Batches, DisposeBatch(x) PROVE IInv'
  BY <1>6, StepDisposeBatch
<1>7. ASSUME NEW c \in Calls, NEW q \in {-1, 1}, Till(c, q) PROVE IInv'
  BY <1>7, StepTill
<1>8. CASE UNCHANGED vars
  BY <1>8, StutterInv
<1> QED
  BY <1>1, <1>2, <1>3, <1>4, <1>5, <1>6, <1>7, <1>8 DEF Next

\* The row, the batches, the log and the handlers have their types, what a handler
\* carries fits what is stored, and what it has yet to write or to log makes up for what
\* it wrote, wherever it stops (stockService.js, stockRepository.js).
THEOREM Invariance == ASSUME Given PROVE Spec => []IInv
<1>1. Init => IInv
  BY InitInv
<1>2. IInv /\ [Next]_vars => IInv'
  BY InvStep
<1> QED
  BY <1>1, <1>2, PTL DEF Spec

\* The types of row, batches, movements and requests.
THEOREM TypeCorrect == ASSUME Given PROVE Spec => []TypeOK
<1>1. IInv => TypeOK
  BY DEF IInv, Types
<1> QED
  BY <1>1, Invariance, PTL

\* The batches of a product never claim more than its row holds, but between the write
\* of the row and that of the batches, and for the listed ways in which the code parts
\* them.
THEOREM BatchesStayWithinRow == ASSUME Given PROVE Spec => []BatchesWithinRow
<1>1. IInv => BatchesWithinRow
  BY DEF IInv
<1> QED
  BY <1>1, Invariance, PTL

\* The row is the opening quantity and the sum of the movements, of those that handlers
\* have yet to log, and of those they stopped before; a movement is cancelled by one
\* other at most.
THEOREM MovementsExplainRow ==
  ASSUME Given PROVE Spec => [](LogExplainsRow /\ CancelledOnceUnlessRaced)
<1>1. IInv => LogExplainsRow /\ CancelledOnceUnlessRaced
  BY DEF IInv
<1> QED
  BY <1>1, Invariance, PTL

\* Only a handler that writes the row goes on from there.
LEMMA WriteLeaves ==
  ASSUME Given, IInv, [Next]_vars, NEW c \in Calls, At(c, "write"), Within(c, {"delete", "log"})'
  PROVE  WriteRow(c)
<1>1. TypeOK /\ call[c].pc = "write" /\ call'[c].pc \in {"delete", "log"}
  BY DEF IInv, Types, At, Within
<1>2. call \in [Calls -> Call] /\ call' # call /\ call'[c] # call[c]
  BY <1>1 DEF TypeOK
<1>3. ASSUME NEW d \in Calls, NEW k, call' = [call EXCEPT ![d] = k], ~At(d, "write")
      PROVE  FALSE
  <2>1. d # c
    BY <1>3
  <2> QED
    BY <1>2, <1>3, <2>1
<1>4. ASSUME NEW d \in Calls, WriteRow(d) PROVE d = c
  <2>1. d # c => Aged(c)
    BY <1>4, WriteCalls
  <2> QED
    BY <1>1, <2>1 DEF Aged
<1>5. ASSUME NEW d \in Calls, Ready(d), NEW k, call' = [call EXCEPT ![d] = k] PROVE FALSE
  BY <1>3, <1>5 DEF Ready, At
<1>6. ASSUME NEW d \in Calls, NEW l \in Loc, NEW q, NEW x,
             \/ GoodsIn(d, l, q, x) \/ GoodsOut(d, l, q, x)
             \/ \E to \in Loc : TransferStock(d, l, to, q, x)
             \/ Adjust(d, l, q, x)
      PROVE  FALSE
  <2>1. Ready(d) /\ \E k : call' = [call EXCEPT ![d] = k]
    BY <1>6 DEF GoodsIn, GoodsOut, TransferStock, Adjust, Accept
  <2> QED
    BY <1>5, <2>1
<1>7. ASSUME NEW d \in Calls, NEW x, NEW row, UpsertBatch(d, x, row) PROVE FALSE
  <2>1. Ready(d) /\ \E k : call' = [call EXCEPT ![d] = k]
    BY <1>7 DEF UpsertBatch
  <2> QED
    BY <1>5, <2>1
<1>8. ASSUME NEW d \in Calls, NEW q, Till(d, q) PROVE FALSE
  <2>1. Ready(d) /\ \E k : call' = [call EXCEPT ![d] = k]
    BY <1>8 DEF Till
  <2> QED
    BY <1>5, <2>1
<1>9. ASSUME NEW d \in Calls, NEW m, CancelMovement(d, m) PROVE FALSE
  <2>1. Ready(d) /\ \E k : call' = [call EXCEPT ![d] = k]
    BY <1>9 DEF CancelMovement, Accept
  <2> QED
    BY <1>5, <2>1
<1>10. ASSUME NEW d \in Calls, TillRow(d) \/ Fetch(d) \/ DeleteBatches(d) PROVE FALSE
  <2>1. ~At(d, "write")
    BY <1>10 DEF TillRow, Fetch, DeleteBatches, At
  <2>2. d # c
    BY <2>1
  <2>3. call'[c] = call[c]
    BY <1>2, <1>10, <2>2 DEF TillRow, Fetch, DeleteBatches
  <2> QED
    BY <1>2, <2>3
<1>11. ASSUME NEW d \in Calls, CreateBatch(d) PROVE FALSE
  <2>1. ~At(d, "write") /\ \E k : call' = [call EXCEPT ![d] = k]
    BY <1>11 DEF CreateBatch, At
  <2> QED
    BY <1>3, <2>1
<1>12. ASSUME NEW d \in Calls, LogMovement(d) PROVE FALSE
  <2>1. d # c
    BY <1>1, <1>12 DEF LogMovement, At
  <2> QED
    BY <1>2, <1>12, <2>1, LogCalls
<1>13. ASSUME NEW d \in Calls, MarkCancelled(d) PROVE FALSE
  BY <1>3, <1>13 DEF MarkCancelled, Done, At
<1>14. ASSUME NEW d \in Calls, Stop(d) PROVE FALSE
  <2>1. call'[d] = Idle /\ (d # c => call'[c] = call[c])
    BY <1>14, StopFacts
  <2> QED
    BY <1>1, <1>2, <2>1, IdleType
<1>15. ASSUME NEW x \in Batches, DisposeBatch(x) PROVE FALSE
  <2>1. Aged(c)
    BY <1>15, DisposeCalls
  <2> QED
    BY <1>1, <2>1 DEF Aged
<1>16. ~UNCHANGED vars
  BY <1>2 DEF vars
<1>17. PICK d \in Calls : WriteRow(d)
  <2>1. ASSUME NEW d \in Calls, Handle(d), ~WriteRow(d) PROVE FALSE
    BY <1>10, <1>11, <1>12, <1>13, <1>14, <2>1 DEF Handle
  <2> QED
    BY <1>6, <1>7, <1>8, <1>9, <1>15, <1>16, <2>1 DEF Next
<1> QED
  BY <1>4, <1>17

\* The write of a cancellation takes back what a covered movement did.
LEMMA RestoreStep == ASSUME Given, IInv, [Next]_vars PROVE RestoringCovered
<1> SUFFICES ASSUME NEW c \in Calls, NEW m \in DOMAIN log, Restoring(c, m),
                    log[m].covered, Free({"raced", "edited", "backdated"})'
             PROVE  TakesBack(c, m)
  BY DEF RestoringCovered
<1>1. WriteRow(c) /\ call[c].entry.of = m
  BY WriteLeaves DEF Restoring
<1>2. /\ TypeOK /\ call[c] \in Call /\ CallFits(call[c]) /\ CancelFits(call[c])
      /\ missed' \in [Loc -> Int]
  BY <1>1, WriteFacts
<1>3. m # 0 /\ log[m] \in Entry
  BY <1>2 DEF TypeOK
<1>4. ~call[c].edit /\ call[c].entry.eff = Reverse(log[m].eff)
  BY <1>1, <1>2, <1>3 DEF CallFits, CancelFits
<1>5. \A l \in Loc : stock'[l] = stock[l] + call[c].entry.eff[l] + (missed'[l] - missed[l])
  BY <1>1, <1>4, WriteShifts
<1>6. \A l \in Loc : call[c].entry.eff[l] = 0 - log[m].eff[l]
  BY <1>4 DEF Reverse
<1>7. \A l \in Loc : /\ stock[l] \in Int /\ log[m].eff[l] \in Int /\ missed[l] \in Int
                     /\ missed'[l] \in Int
  BY <1>2, <1>3 DEF TypeOK, Row, Entry
<1> QED
  BY <1>5, <1>6, <1>7 DEF TakesBack

\* Cancelling a movement whose batches made up the row takes back what it did, and what
\* handlers that stopped had written since, for every number of handlers, unless a
\* handler met another, a batch edit changed the row, or a movement written later bears
\* an earlier date.
THEOREM CancelTakesBack == ASSUME Given PROVE Spec => CancelRestoresCovered
<1>1. IInv /\ [Next]_vars => [RestoringCovered]_vars
  BY RestoreStep
<1> QED
  BY <1>1, Invariance, PTL DEF Spec, CancelRestoresCovered
=============================================================================

--------------------------- MODULE CategoryProofs ---------------------------
(***************************************************************************)
(* For every set of shapes, locators and objects: the types of Category,   *)
(* the agreement of index and array, reading by number, and that the       *)
(* category implements EventStore.                                         *)
(***************************************************************************)
EXTENDS Category, FunctionTheorems, FiniteSetTheorems, SequenceTheorems, TLAPS

-----------------------------------------------------------------------------
(* Part 1: the layout.  A locator in bounds has its own position below     *)
(* data_size (SCategory::setup and loc2pos).                               *)

(* One step of a mixed-radix number: the low digit stays below its radix.  *)
LEMMA RadixBound ==
  ASSUME NEW n \in Nat, NEW m \in Nat,
         NEW a \in Nat, NEW b \in Nat, a < n, b < m
  PROVE  a + b * n \in Nat /\ a + b * n < n * m
<1>1. b + 1 <= m OBVIOUS
<1>2. (b + 1) * n <= m * n
  <2>1. PICK d \in Nat : m = b + 1 + d
    <3>1. m - (b + 1) \in Nat /\ m = b + 1 + (m - (b + 1)) BY <1>1
    <3>2. QED BY <3>1
  <2>2. m * n = (b + 1) * n + d * n BY <2>1
  <2>3. d * n \in Nat /\ (b + 1) * n \in Nat OBVIOUS
  <2>4. QED BY <2>2, <2>3
<1>3. (b + 1) * n = b * n + n OBVIOUS
<1>4. b * n \in Nat /\ m * n = n * m OBVIOUS
<1>5. QED BY <1>2, <1>3, <1>4

(* Two mixed-radix numbers are equal only digit by digit.                  *)
LEMMA RadixUnique ==
  ASSUME NEW n \in Nat,
         NEW a \in Nat, NEW b \in Nat, NEW c \in Nat, NEW d \in Nat,
         a < n, c < n, a + b * n = c + d * n
  PROVE  a = c /\ b = d
<1>1. ASSUME NEW x \in Nat, NEW y \in Nat, NEW u \in Nat, NEW v \in Nat,
             u < n, v < n, x < y
      PROVE  u + x * n < v + y * n
  <2>1. PICK e \in Nat : y = x + 1 + e
    <3>1. y - (x + 1) \in Nat /\ y = x + 1 + (y - (x + 1)) BY <1>1
    <3>2. QED BY <3>1
  <2>2. y * n = x * n + n + e * n BY <2>1
  <2>3. e * n \in Nat /\ x * n \in Nat OBVIOUS
  <2>4. QED BY <1>1, <2>2, <2>3
<1>2. ~(b < d) BY <1>1
<1>3. ~(d < b) BY <1>1
<1>4. b = d BY <1>2, <1>3
<1>5. b * n \in Nat OBVIOUS
<1>6. QED BY <1>4, <1>5

(* The sizes and coordinates of the three dimensions, present or not.      *)
LEMMA Digits ==
  ASSUME NEW s \in Shapes, NEW l \in Locators, CheckDim(s, l), InBounds(s, l)
  PROVE  /\ \A k \in 1 .. 3 : /\ Size(s, k) \in Nat \ {0}
                              /\ Coord(l, k) \in Nat
                              /\ Coord(l, k) < Size(s, k)
         /\ Len(s) \in 1 .. 3 /\ Len(l) = Len(s)
         /\ s \in Seq(Nat \ {0}) /\ l \in Seq(Nat)
<1>1. s \in Seq(Nat \ {0}) /\ Len(s) \in 1 .. 3 BY ShapesAssumption
<1>2. l \in Seq(Nat) BY LocatorsAssumption
<1>3. Len(l) = Len(s) BY DEF CheckDim
<1>4. ASSUME NEW k \in 1 .. 3
      PROVE  Size(s, k) \in Nat \ {0} /\ Coord(l, k) \in Nat /\ Coord(l, k) < Size(s, k)
  <2>1. CASE k <= Len(s)
    <3>1. k \in 1 .. Len(s) /\ k \in DOMAIN s BY <1>1, <2>1
    <3>2. s[k] \in Nat \ {0} /\ l[k] \in Nat BY <1>1, <1>2, <1>3, <3>1
    <3>3. l[k] < s[k] BY <3>1 DEF InBounds
    <3>4. QED BY <1>3, <2>1, <3>2, <3>3 DEF Size, Coord
  <2>2. CASE ~(k <= Len(s))
    BY <1>3, <2>2 DEF Size, Coord
  <2>3. QED BY <2>1, <2>2
<1>5. QED BY <1>1, <1>2, <1>3, <1>4

(* loc2pos is the mixed-radix number of the coordinates.                   *)
LEMMA Loc2PosRadix ==
  ASSUME NEW s \in Shapes, NEW l \in Locators, CheckDim(s, l), InBounds(s, l)
  PROVE  /\ Loc2Pos(s, l) =
              Coord(l, 1) + (Coord(l, 2) + Coord(l, 3) * Size(s, 2)) * Size(s, 1)
         /\ DataSize(s) = Size(s, 1) * (Size(s, 2) * Size(s, 3))
<1> DEFINE a == Coord(l, 1)  b == Coord(l, 2)  c == Coord(l, 3)
           n == Size(s, 1)   m == Size(s, 2)   r == Size(s, 3)
<1>1. a \in Nat /\ b \in Nat /\ c \in Nat /\ n \in Nat /\ m \in Nat /\ r \in Nat
  BY Digits
<1>2. Loc2Pos(s, l) = a * 1 + b * n + c * (n * m)
  BY DEF Loc2Pos, Offset
<1>3. DataSize(s) = n * m * r BY DEF DataSize
<1> HIDE DEF a, b, c, n, m, r
<1>4. a * 1 + b * n + c * (n * m) = a + (b + c * m) * n
  <2>1. c * (n * m) = (c * m) * n BY <1>1
  <2>2. (b + c * m) * n = b * n + (c * m) * n BY <1>1
  <2>3. a * 1 = a BY <1>1
  <2>4. c * m \in Nat BY <1>1
  <2>5. b * n \in Nat /\ (c * m) * n \in Nat BY <1>1, <2>4
  <2>6. QED BY <1>1, <2>1, <2>2, <2>3, <2>5
<1>5. n * m * r = n * (m * r) BY <1>1
<1>6. QED BY <1>2, <1>3, <1>4, <1>5 DEF a, b, c, n, m, r

(* A locator in bounds lies inside the array.                              *)
THEOREM Loc2PosInRange ==
  ASSUME NEW s \in Shapes, NEW l \in Locators, CheckDim(s, l), InBounds(s, l)
  PROVE  Loc2Pos(s, l) \in 0 .. DataSize(s) - 1 /\ Loc2Pos(s, l) \in Positions
<1> DEFINE a == Coord(l, 1)  b == Coord(l, 2)  c == Coord(l, 3)
           n == Size(s, 1)   m == Size(s, 2)   r == Size(s, 3)
<1>1. /\ a \in Nat /\ b \in Nat /\ c \in Nat /\ n \in Nat /\ m \in Nat /\ r \in Nat
      /\ a < n /\ b < m /\ c < r
  BY Digits
<1>2. Loc2Pos(s, l) = a + (b + c * m) * n /\ DataSize(s) = n * (m * r)
  BY Loc2PosRadix
<1>3. DataSize(s) <= Capacity BY ShapesAssumption
<1> HIDE DEF a, b, c, n, m, r
<1>4. b + c * m \in Nat /\ b + c * m < m * r BY <1>1, RadixBound
<1>5. m * r \in Nat BY <1>1
<1>6. a + (b + c * m) * n \in Nat /\ a + (b + c * m) * n < n * (m * r)
  BY <1>1, <1>4, <1>5, RadixBound
<1>7. n * (m * r) \in Nat BY <1>1, <1>5
<1>8. QED BY <1>2, <1>3, <1>6, <1>7, CapacityAssumption DEF Positions

(* Two locators in bounds never share a position.                          *)
THEOREM Loc2PosUnique ==
  ASSUME NEW s \in Shapes, NEW l1 \in Locators, NEW l2 \in Locators,
         CheckDim(s, l1), InBounds(s, l1), CheckDim(s, l2), InBounds(s, l2),
         Loc2Pos(s, l1) = Loc2Pos(s, l2)
  PROVE  l1 = l2
<1> DEFINE a(l) == Coord(l, 1)  b(l) == Coord(l, 2)  c(l) == Coord(l, 3)
           n == Size(s, 1)   m == Size(s, 2)
<1>1. ASSUME NEW l \in Locators, CheckDim(s, l), InBounds(s, l)
      PROVE  /\ a(l) \in Nat /\ b(l) \in Nat /\ c(l) \in Nat
             /\ n \in Nat /\ m \in Nat /\ a(l) < n /\ b(l) < m
             /\ Loc2Pos(s, l) = a(l) + (b(l) + c(l) * m) * n
             /\ b(l) + c(l) * m \in Nat
  <2>1. /\ a(l) \in Nat /\ b(l) \in Nat /\ c(l) \in Nat
        /\ n \in Nat /\ m \in Nat /\ a(l) < n /\ b(l) < m
    BY <1>1, Digits
  <2>2. Loc2Pos(s, l) = a(l) + (b(l) + c(l) * m) * n
    BY <1>1, Loc2PosRadix
  <2> HIDE DEF a, b, c, n, m
  <2>3. b(l) + c(l) * m \in Nat BY <2>1
  <2>4. QED BY <2>1, <2>2, <2>3
<1> HIDE DEF a, b, c, n, m
<1>2. a(l1) = a(l2) /\ b(l1) + c(l1) * m = b(l2) + c(l2) * m
  <2> DEFINE u == b(l1) + c(l1) * m  v == b(l2) + c(l2) * m
  <2>1. a(l1) + u * n = a(l2) + v * n BY <1>1
  <2>2. /\ u \in Nat /\ v \in Nat /\ a(l1) \in Nat /\ a(l2) \in Nat /\ n \in Nat
        /\ a(l1) < n /\ a(l2) < n
    BY <1>1
  <2> HIDE DEF u, v
  <2>3. a(l1) = a(l2) /\ u = v BY <2>1, <2>2, RadixUnique
  <2>4. QED BY <2>3 DEF u, v
<1>3. b(l1) = b(l2) /\ c(l1) = c(l2) BY <1>1, <1>2, RadixUnique
<1>4. \A k \in 1 .. 3 : Coord(l1, k) = Coord(l2, k)
  BY <1>2, <1>3 DEF a, b, c
<1>5. l1 \in Seq(Nat) /\ Len(l1) = Len(s) /\ Len(s) \in 1 .. 3 BY Digits
<1>6. l2 \in Seq(Nat) /\ Len(l2) = Len(s) BY Digits
<1>8. \A k \in 1 .. Len(l1) : l1[k] = l2[k] 
  <2> TAKE k \in 1 .. Len(l1)
  <2>1. k \in 1 .. 3 /\ k <= Len(l1) /\ k <= Len(l2)
    <3>1. Len(l1) \in 1 .. 3 /\ Len(l2) = Len(l1) BY <1>5, <1>6
    <3>2. QED BY <3>1
  <2>2. Coord(l1, k) = l1[k] /\ Coord(l2, k) = l2[k] BY <2>1 DEF Coord
  <2>3. QED BY <1>4, <2>1, <2>2
<1>7. Len(l1) = Len(l2) BY <1>5, <1>6
<1>9. QED BY <1>5, <1>6, <1>7, <1>8, SeqEqual
-----------------------------------------------------------------------------
(* Part 2: packing.  The rank numbers a set of positions 0, 1, 2, ...;     *)
(* TClonesArray::Compress and SCategoryIndex::compress both follow it.     *)

(* There are finitely many positions, so every set of them has a size.     *)
LEMMA PositionsFinite ==
  ASSUME NEW S \in SUBSET Positions
  PROVE  IsFiniteSet(S) /\ Cardinality(S) \in Nat /\ Cardinality(S) <= Capacity
<1>1. IsFiniteSet(Positions) /\ Cardinality(Positions) = Capacity
  BY CapacityAssumption, FS_Interval DEF Positions
<1>2. QED BY <1>1, FS_Subset, FS_CardinalityType

(* The rank of a position is below the number of positions of the set.     *)
LEMMA RankType ==
  ASSUME NEW S \in SUBSET Positions, NEW p \in Positions
  PROVE  Rank(S, p) \in Nat /\ Rank(S, p) <= Cardinality(S)
<1>1. {q \in S : q < p} \in SUBSET S OBVIOUS
<1>2. QED BY <1>1, PositionsFinite, FS_Subset DEF Rank

(* The rank grows from one element of the set to the next.                 *)
LEMMA RankGrows ==
  ASSUME NEW S \in SUBSET Positions, NEW p \in S, NEW q \in Positions, p < q
  PROVE  Rank(S, p) < Rank(S, q)
<1> DEFINE A == {x \in S : x < p}  B == {x \in S : x < q}
<1>1. A \in SUBSET B
  <2>1. SUFFICES ASSUME NEW x \in S, x < p PROVE x < q OBVIOUS
  <2>2. x \in Int /\ p \in Int /\ q \in Int BY CapacityAssumption DEF Positions
  <2>3. QED BY <2>1, <2>2
<1>2. p \in B /\ p \notin A
  BY CapacityAssumption DEF Positions
<1>3. IsFiniteSet(B) /\ IsFiniteSet(A)
  <2>1. B \in SUBSET Positions /\ A \in SUBSET Positions OBVIOUS
  <2>2. QED BY <2>1, PositionsFinite
<1>4. Cardinality(A) <= Cardinality(B) /\ Cardinality(A) # Cardinality(B)
  BY <1>1, <1>2, <1>3, FS_Subset
<1>5. Cardinality(A) \in Nat /\ Cardinality(B) \in Nat BY <1>3, FS_CardinalityType
<1>6. QED BY <1>4, <1>5 DEF Rank

(* No two elements of a set of positions have the same rank.               *)
LEMMA RankInjective ==
  ASSUME NEW S \in SUBSET Positions, NEW p \in S, NEW q \in S, Rank(S, p) = Rank(S, q)
  PROVE  p = q
<1>1. p \in Int /\ q \in Int /\ p \in Positions /\ q \in Positions
  BY CapacityAssumption DEF Positions
<1>2. ~(p < q) /\ ~(q < p)
  <2>1. Rank(S, p) \in Nat BY <1>1, RankType
  <2>2. QED BY <1>1, <2>1, RankGrows
<1>3. QED BY <1>1, <1>2

(* The rank of an element is below the cardinality of the set.             *)
LEMMA RankBelow ==
  ASSUME NEW S \in SUBSET Positions, NEW p \in S
  PROVE  Rank(S, p) \in 0 .. Cardinality(S) - 1
<1> DEFINE A == {x \in S : x < p}
<1>1. A \in SUBSET S /\ p \in S /\ p \notin A
  BY CapacityAssumption DEF Positions
<1>2. IsFiniteSet(S) /\ Cardinality(S) \in Nat BY PositionsFinite
<1>3. Cardinality(A) <= Cardinality(S) /\ Cardinality(A) # Cardinality(S)
  BY <1>1, <1>2, FS_Subset
<1>4. Cardinality(A) \in Nat BY <1>1, <1>2, FS_Subset, FS_CardinalityType
<1>5. QED BY <1>2, <1>3, <1>4 DEF Rank

(* The rank of an element is itself a position of the array.               *)
LEMMA RankIsPosition ==
  ASSUME NEW S \in SUBSET Positions, NEW p \in S
  PROVE  Rank(S, p) \in Positions
<1>1. Cardinality(S) \in Nat /\ Cardinality(S) <= Capacity BY PositionsFinite
<1>2. Rank(S, p) \in 0 .. Cardinality(S) - 1 BY RankBelow
<1>3. QED BY <1>1, <1>2, CapacityAssumption DEF Positions

(* Every number below the cardinality is the rank of an element.           *)
LEMMA RankOnto ==
  ASSUME NEW S \in SUBSET Positions, NEW i \in 0 .. Cardinality(S) - 1
  PROVE  \E p \in S : Rank(S, p) = i
<1> DEFINE n == Cardinality(S)
           T == 0 .. n - 1
           f == [p \in S |-> Rank(S, p)]
<1>1. IsFiniteSet(S) /\ n \in Nat BY PositionsFinite
<1>2. IsFiniteSet(T) /\ Cardinality(T) = n
  <2>1. 0 \in Int /\ n - 1 \in Int BY <1>1
  <2>2. QED BY <1>1, <2>1, FS_Interval
<1>3. f \in Injection(S, T)
  <2>1. f \in [S -> T] BY RankBelow
  <2>2. \A p, q \in S : f[p] = f[q] => p = q BY RankInjective
  <2>3. QED BY <2>1, <2>2, Fun_IsInj
<1>4. f \in Surjection(S, T)
  <2>1. Cardinality(S) = Cardinality(T) BY <1>2
  <2> HIDE DEF T, f, n
  <2>2. QED BY <1>2, <1>3, <2>1, FS_Injection
<1>5. \A t \in T : \E p \in S : f[p] = t BY <1>4 DEF Surjection
<1>6. QED BY <1>5

(* In a set without holes every element is its own rank.                   *)
LEMMA RankOfInterval ==
  ASSUME NEW n \in Nat, n <= Capacity, NEW p \in 0 .. n - 1
  PROVE  Rank(0 .. n - 1, p) = p
<1>1. {q \in 0 .. n - 1 : q < p} = 0 .. p - 1 OBVIOUS
<1>2. Cardinality(0 .. p - 1) = p
  <2>1. 0 \in Int /\ p - 1 \in Int /\ p \in Nat OBVIOUS
  <2>2. QED BY <2>1, FS_Interval
<1>3. QED BY <1>1, <1>2 DEF Rank

(* Packing an array: the entry of rank i moves to i, nothing is lost.      *)
LEMMA PackedEntries ==
  ASSUME NEW d \in [Positions -> Objects \cup {Null}]
  PROVE  /\ Packed(d) \in [Positions -> Objects \cup {Null}]
         /\ \A p \in Occupied(d) : Packed(d)[Rank(Occupied(d), p)] = d[p]
         /\ \A i \in Positions : Packed(d)[i] # Null <=> i < Cardinality(Occupied(d))
<1> DEFINE S == Occupied(d)
<1>1. S \in SUBSET Positions BY DEF Occupied
<1>2. ASSUME NEW i \in Positions, NEW p \in S, Rank(S, p) = i
      PROVE  Packed(d)[i] = d[p] /\ d[p] # Null
  <2>1. (CHOOSE q \in S : Rank(S, q) = i) = p BY <1>1, <1>2, RankInjective
  <2>2. QED BY <1>2, <2>1 DEF Packed, Occupied
<1>3. ASSUME NEW i \in Positions, ~\E p \in S : Rank(S, p) = i
      PROVE  Packed(d)[i] = Null
  BY <1>3 DEF Packed
<1>4. \A i \in Positions : Packed(d)[i] \in Objects \cup {Null}
  BY <1>1, <1>2, <1>3
<1>5. \A p \in S : Packed(d)[Rank(S, p)] = d[p]
  <2> TAKE p \in S
  <2>1. Rank(S, p) \in Positions
    BY <1>1, RankIsPosition
  <2>2. QED BY <1>2, <2>1
<1>6. \A i \in Positions : Packed(d)[i] # Null <=> i < Cardinality(S)
  <2> TAKE i \in Positions
  <2>1. i \in Nat /\ Cardinality(S) \in Nat
    BY <1>1, PositionsFinite, CapacityAssumption DEF Positions
  <2>2. ASSUME i < Cardinality(S) PROVE Packed(d)[i] # Null
    <3>1. i \in 0 .. Cardinality(S) - 1 BY <2>1, <2>2
    <3>2. PICK p \in S : Rank(S, p) = i BY <1>1, <3>1, RankOnto
    <3>3. QED BY <1>2, <3>2
  <2>3. ASSUME Packed(d)[i] # Null PROVE i < Cardinality(S)
    <3>1. PICK p \in S : Rank(S, p) = i BY <1>3, <2>3
    <3>2. Rank(S, p) \in 0 .. Cardinality(S) - 1 BY <1>1, RankBelow
    <3>3. QED BY <2>1, <3>1, <3>2
  <2>4. QED BY <2>2, <2>3
<1>7. Packed(d) \in [Positions -> Objects \cup {Null}] BY <1>4 DEF Packed
<1>8. QED BY <1>5, <1>6, <1>7

(* SCategoryIndex::compress maps positions to slots of the array.          *)
LEMMA RenumberedType ==
  ASSUME NEW idx \in [Positions -> Slots]
  PROVE  /\ Renumbered(idx) \in [Positions -> Slots]
         /\ Indexed(Renumbered(idx)) = Indexed(idx)
         /\ \A p \in Indexed(idx) : Renumbered(idx)[p] = Rank(Indexed(idx), p)
<1>1. Indexed(idx) \in SUBSET Positions BY DEF Indexed
<1>2. \A p \in Indexed(idx) : Rank(Indexed(idx), p) \in Positions
  BY <1>1, RankIsPosition
<1>3. \A p \in Indexed(idx) : Renumbered(idx)[p] = Rank(Indexed(idx), p)
  BY DEF Renumbered, Indexed
<1>4. \A p \in Positions \ Indexed(idx) : Renumbered(idx)[p] = NoIndex
  BY DEF Renumbered, Indexed
<1>5. NoIndex \notin Positions BY CapacityAssumption DEF NoIndex, Positions
<1>6. Renumbered(idx) \in [Positions -> Slots]
  BY <1>2, <1>3, <1>4 DEF Renumbered, Slots
<1>7. Indexed(Renumbered(idx)) = Indexed(idx)
  BY <1>2, <1>3, <1>4, <1>5 DEF Indexed
<1>8. QED BY <1>3, <1>6, <1>7

(* Compressing keeps the entry of every position and makes the index       *)
(* dense, whether the category was compressed before or not.               *)
LEMMA CompressKeeps ==
  ASSUME NEW idx \in [Positions -> Slots],
         NEW d \in [Positions -> Objects \cup {Null}],
         Direct(idx, d) \/ Dense(idx, d)
  PROVE  /\ Dense(Renumbered(idx), Packed(d))
         /\ \A p \in Positions : EntryAt(Renumbered(idx), Packed(d), p) = EntryAt(idx, d, p)
<1> DEFINE S == Indexed(idx)  n == Cardinality(S)
<1>1. S \in SUBSET Positions /\ Occupied(d) \in SUBSET Positions
  BY DEF Indexed, Occupied
<1>2. n \in Nat /\ n <= Capacity BY <1>1, PositionsFinite
<1>3. NoIndex \notin Positions BY CapacityAssumption DEF NoIndex, Positions
<1>4. \A p \in Positions \ S : EntryAt(Renumbered(idx), Packed(d), p) = EntryAt(idx, d, p)
  BY RenumberedType DEF EntryAt, Indexed
<1>5. CASE Direct(idx, d)
  <2>1. S = Occupied(d)
    BY <1>3, <1>5 DEF Direct, Indexed, Occupied
  <2>2. Dense(Renumbered(idx), Packed(d))
    BY <2>1, RenumberedType, PackedEntries DEF Dense
  <2>3. \A p \in S : EntryAt(Renumbered(idx), Packed(d), p) = EntryAt(idx, d, p)
    <3> TAKE p \in S
    <3>1. p \in Positions /\ idx[p] = p /\ idx[p] # NoIndex
      BY <1>3, <1>5 DEF Direct, Indexed
    <3>2. Renumbered(idx)[p] = Rank(S, p) /\ Rank(S, p) # NoIndex
      BY <1>1, RenumberedType, RankType, <3>1 DEF NoIndex
    <3>3. Packed(d)[Rank(S, p)] = d[p] BY <2>1, PackedEntries
    <3>4. QED BY <3>1, <3>2, <3>3 DEF EntryAt
  <2>4. QED BY <1>4, <2>2, <2>3
<1>6. CASE Dense(idx, d)
  <2>1. Occupied(d) = 0 .. n - 1
    BY <1>2, <1>6, CapacityAssumption DEF Dense, Occupied, Positions
  <2>2. Cardinality(Occupied(d)) = n
    <3>1. 0 \in Int /\ n - 1 \in Int BY <1>2
    <3>2. QED BY <1>2, <2>1, <3>1, FS_Interval
  <2>3. ASSUME NEW i \in 0 .. n - 1 PROVE Packed(d)[i] = d[i]
    <3>1. Rank(Occupied(d), i) = i BY <1>2, <2>1, RankOfInterval
    <3>2. QED BY <2>1, <3>1, PackedEntries
  <2>4. Dense(Renumbered(idx), Packed(d))
    BY <2>2, RenumberedType, PackedEntries DEF Dense
  <2>5. \A p \in S : EntryAt(Renumbered(idx), Packed(d), p) = EntryAt(idx, d, p)
    <3> TAKE p \in S
    <3>1. idx[p] = Rank(S, p) /\ Renumbered(idx)[p] = Rank(S, p)
      BY <1>6, RenumberedType DEF Dense
    <3>2. Rank(S, p) \in 0 .. n - 1 BY <1>1, RankBelow
    <3>3. QED BY <2>3, <3>1, <3>2 DEF EntryAt
  <2>6. QED BY <1>4, <2>4, <2>5
<1>7. QED BY <1>5, <1>6
-----------------------------------------------------------------------------
(* Part 3: the invariants.                                                 *)

(* SCategory::compress keeps the types of index and array.                 *)
LEMMA CompressedType ==
  ASSUME TypeOK, Compressed
  PROVE  /\ idxmap' \in [Positions -> Slots]
         /\ data' \in [Positions -> Objects \cup {Null}]
         /\ compressed' \in BOOLEAN
  BY RenumberedType, PackedEntries DEF TypeOK, Compressed

(* The slot getNewSlot gives is a position of the array.                   *)
LEMMA NewSlotInRange ==
  ASSUME TypeOK, GetEntries < DataSize(sizes)
  PROVE  GetEntries \in Positions
<1>1. Occupied(data) \in SUBSET Positions BY DEF Occupied
<1>2. GetEntries \in Nat BY <1>1, PositionsFinite DEF GetEntries
<1>3. DataSize(sizes) <= Capacity BY ShapesAssumption DEF TypeOK
<1>4. DataSize(sizes) \in Nat
  <2>1. \A k \in 1 .. 3 : Size(sizes, k) \in Nat
    <3>1. sizes \in Seq(Nat \ {0}) BY ShapesAssumption DEF TypeOK
    <3>2. \A k \in 1 .. Len(sizes) : sizes[k] \in Nat BY <3>1
    <3>3. Len(sizes) \in Nat BY <3>1
    <3>4. QED BY <3>2, <3>3 DEF Size
  <2>2. QED BY <2>1 DEF DataSize
<1>5. QED BY <1>2, <1>3, <1>4, CapacityAssumption DEF Positions

(* Constructing an object in a slot keeps the types.                       *)
LEMMA ConstructAtType ==
  ASSUME TypeOK, NEW pos \in Positions, NEW o \in Objects, ConstructAt(pos, o)
  PROVE  TypeOK'
  BY DEF TypeOK, ConstructAt, Slots

(* The variables of Category keep their types.                             *)
THEOREM TypeCorrect == Spec => []TypeOK
<1>1. Init => TypeOK
  <2>1. <<>> \in Seq(Snapshots) OBVIOUS
  <2>2. EmptyIndex \in [Positions -> Slots] BY DEF EmptyIndex, Slots
  <2>3. NoEntries \in [Positions -> Objects \cup {Null}] BY DEF NoEntries
  <2>4. QED BY <2>1, <2>2, <2>3 DEF Init, TypeOK
<1>2. TypeOK /\ [Next]_vars => TypeOK'
  <2> SUFFICES ASSUME TypeOK, [Next]_vars PROVE TypeOK' OBVIOUS
  <2>1. ASSUME NEW l \in Locators, NEW o \in Objects, GetSlot(l, o) PROVE TypeOK'
    <3>1. Loc2Pos(sizes, l) \in Positions
      BY <2>1, Loc2PosInRange DEF GetSlot, TypeOK
    <3>2. QED BY <2>1, <3>1, ConstructAtType DEF GetSlot
  <2>2. ASSUME NEW o \in Objects, GetNewSlot(o) PROVE TypeOK'
    <3>1. GetEntries \in Positions BY <2>2, NewSlotInRange DEF GetNewSlot
    <3>2. QED BY <2>2, <3>1, ConstructAtType DEF GetNewSlot
  <2>3. ASSUME Compress PROVE TypeOK'
    BY <2>3, CompressedType DEF Compress, TypeOK
  <2>4. ASSUME GetObjectByIndex PROVE TypeOK'
    BY <2>3, <2>4 DEF GetObjectByIndex
  <2>5. ASSUME Clear PROVE TypeOK'
    BY <2>5 DEF Clear, TypeOK, EmptyIndex, NoEntries, Slots
  <2>6. ASSUME Fill PROVE TypeOK'
    <3>1. Compressed /\ tree' = Append(tree, [idxmap |-> idxmap', data |-> data'])
      BY <2>6 DEF Fill
    <3>2. [idxmap |-> idxmap', data |-> data'] \in Snapshots
      BY <3>1, CompressedType DEF Snapshots
    <3>3. tree' \in Seq(Snapshots) BY <3>1, <3>2 DEF TypeOK
    <3>4. QED BY <2>6, <3>1, <3>3, CompressedType DEF Fill, TypeOK
  <2>7. ASSUME Reopen PROVE TypeOK'
    BY <2>7 DEF Reopen, TypeOK, EmptyIndex, NoEntries, Slots
  <2>8. ASSUME NEW k \in DOMAIN tree, GetEvent(k) PROVE TypeOK'
    <3>1. tree[k] \in Snapshots BY DEF TypeOK
    <3>2. QED BY <2>8, <3>1 DEF GetEvent, TypeOK, Snapshots
  <2>9. CASE UNCHANGED vars BY <2>9 DEF vars, TypeOK
  <2>10. QED BY <2>1, <2>2, <2>3, <2>4, <2>5, <2>6, <2>7, <2>8, <2>9 DEF Next
<1>3. QED BY <1>1, <1>2, PTL DEF Spec

(* The index of an empty category agrees with its array.                   *)
LEMMA EmptyAgrees == Direct(EmptyIndex, NoEntries)
  BY DEF Direct, EmptyIndex, NoEntries

(* Constructing an object keeps index and array in agreement.              *)
LEMMA ConstructAtAgrees ==
  ASSUME TypeOK, IndexMatchesData, NEW pos \in Positions, NEW o \in Objects,
         ConstructAt(pos, o)
  PROVE  IndexMatchesData'
<1>1. Direct(idxmap, data) BY DEF ConstructAt, IndexMatchesData
<1>2. Direct(idxmap', data')
  BY <1>1, ObjectsAssumption DEF ConstructAt, Direct, TypeOK
<1>3. QED BY <1>2 DEF ConstructAt, IndexMatchesData

(* After compression the index numbers the entries of the array.           *)
LEMMA CompressedAgrees ==
  ASSUME TypeOK, IndexMatchesData, Compressed
  PROVE  /\ IF compressed' THEN Dense(idxmap', data') ELSE Direct(idxmap', data')
         /\ \A p \in Positions : EntryAt(idxmap', data', p) = EntryAt(idxmap, data, p)
         /\ writable => compressed' /\ Dense(idxmap', data')
<1>1. Direct(idxmap, data) \/ Dense(idxmap, data) BY DEF IndexMatchesData
<1>2. CASE writable
  <2>1. idxmap' = Renumbered(idxmap) /\ data' = Packed(data) /\ compressed' = TRUE
    BY <1>2 DEF Compressed
  <2>2. QED BY <1>1, <2>1, CompressKeeps DEF TypeOK
<1>3. CASE ~writable
  BY <1>3 DEF Compressed, IndexMatchesData
<1>4. QED BY <1>2, <1>3

(* A program that fills the tree writes, one that reads it may only        *)
(* compress what it has loaded: Fill always compresses.                    *)
WriterIsWritable == ~reading => writable

IndexInv == IndexMatchesData /\ WriterIsWritable

(* The strengthened agreement of index and array is invariant.             *)
LEMMA IndexInvariant == Spec => []IndexInv
<1>1. Init => IndexInv
  BY EmptyAgrees DEF Init, IndexInv, IndexMatchesData, WriterIsWritable
<1>2. TypeOK /\ IndexInv /\ [Next]_vars => IndexInv'
  <2> SUFFICES ASSUME TypeOK, IndexInv, [Next]_vars PROVE IndexInv' OBVIOUS
  <2> USE DEF IndexInv
  <2>1. ASSUME NEW l \in Locators, NEW o \in Objects, GetSlot(l, o) PROVE IndexInv'
    <3>1. Loc2Pos(sizes, l) \in Positions
      BY <2>1, Loc2PosInRange DEF GetSlot, TypeOK
    <3>2. IndexMatchesData' BY <2>1, <3>1, ConstructAtAgrees DEF GetSlot
    <3>3. QED BY <2>1, <3>2 DEF GetSlot, ConstructAt, WriterIsWritable
  <2>2. ASSUME NEW o \in Objects, GetNewSlot(o) PROVE IndexInv'
    <3>1. GetEntries \in Positions BY <2>2, NewSlotInRange DEF GetNewSlot
    <3>2. IndexMatchesData' BY <2>2, <3>1, ConstructAtAgrees DEF GetNewSlot
    <3>3. QED BY <2>2, <3>2 DEF GetNewSlot, ConstructAt, WriterIsWritable
  <2>3. ASSUME Compress PROVE IndexInv'
    BY <2>3, CompressedAgrees DEF Compress, IndexMatchesData, WriterIsWritable
  <2>4. ASSUME GetObjectByIndex PROVE IndexInv'
    BY <2>3, <2>4 DEF GetObjectByIndex
  <2>5. ASSUME Clear PROVE IndexInv'
    BY <2>5, EmptyAgrees DEF Clear, IndexMatchesData, WriterIsWritable
  <2>6. ASSUME Fill PROVE IndexInv'
    <3>1. Compressed /\ writable /\ UNCHANGED <<writable, reading>>
      BY <2>6 DEF Fill, WriterIsWritable
    <3>2. compressed' /\ Dense(idxmap', data') BY <3>1, CompressedAgrees
    <3> DEFINE e == [idxmap |-> idxmap', data |-> data']
    <3>3. tree \in Seq(Snapshots) /\ tree' = Append(tree, e)
      BY <2>6 DEF Fill, TypeOK
    <3>4. ASSUME NEW k \in DOMAIN tree' PROVE Dense(tree'[k].idxmap, tree'[k].data)
      <4>1. CASE k = Len(tree) + 1
        <5>1. tree'[k] = e BY <3>3, <4>1
        <5>2. QED BY <3>2, <5>1
      <4>2. CASE k # Len(tree) + 1
        <5>1. k \in DOMAIN tree /\ tree'[k] = tree[k] BY <3>3, <3>4, <4>2
        <5>2. QED BY <5>1 DEF IndexMatchesData
      <4>3. QED BY <4>1, <4>2
    <3>5. IndexMatchesData' BY <3>2, <3>4 DEF IndexMatchesData
    <3>6. QED BY <3>1, <3>5 DEF WriterIsWritable
  <2>7. ASSUME Reopen PROVE IndexInv'
    BY <2>7, EmptyAgrees DEF Reopen, IndexMatchesData, WriterIsWritable
  <2>8. ASSUME NEW k \in DOMAIN tree, GetEvent(k) PROVE IndexInv'
    BY <2>8 DEF GetEvent, IndexMatchesData, WriterIsWritable
  <2>9. CASE UNCHANGED vars
    BY <2>9 DEF vars, IndexMatchesData, WriterIsWritable
  <2>10. QED BY <2>1, <2>2, <2>3, <2>4, <2>5, <2>6, <2>7, <2>8, <2>9 DEF Next
<1>3. QED BY <1>1, <1>2, TypeCorrect, PTL DEF Spec

(* Index and array agree, in the category and in every event of the tree.  *)
THEOREM IndexCorrect == Spec => []IndexMatchesData
<1>1. IndexInv => IndexMatchesData BY DEF IndexInv
<1>2. QED BY <1>1, IndexInvariant, PTL

(* Filled without holes, getNewSlot gives a slot that holds no object.     *)
THEOREM NewSlotCorrect == Spec => NewSlotIsFreeWithoutHoles
<1>1. ASSUME TypeOK, NEW o \in Objects, GetNewSlot(o),
             Occupied(data) = 0 .. GetEntries - 1, NEW p \in Positions
      PROVE  data[p] = Null \/ data'[p] = data[p]
  <2>1. GetEntries \in Positions BY <1>1, NewSlotInRange DEF GetNewSlot
  <2>2. GetEntries \notin Occupied(data)
    BY <1>1, <2>1, CapacityAssumption DEF Positions
  <2>3. data' = [data EXCEPT ![GetEntries] = o] BY <1>1 DEF GetNewSlot, ConstructAt
  <2>4. CASE p = GetEntries BY <2>1, <2>2, <2>4 DEF Occupied
  <2>5. CASE p # GetEntries BY <1>1, <2>3, <2>5 DEF TypeOK
  <2>6. QED BY <2>4, <2>5
<1>2. TypeOK => [\A o \in Objects :
                   GetNewSlot(o) /\ Occupied(data) = 0 .. GetEntries - 1
                     => \A p \in Positions : data[p] = Null \/ data'[p] = data[p]]_vars
  BY <1>1
<1>3. QED BY <1>2, TypeCorrect, PTL DEF NewSlotIsFreeWithoutHoles
-----------------------------------------------------------------------------
(* Part 4: the category implements EventStore.                             *)

(* Constructing at a locator's position puts the object there only.        *)
LEMMA ConstructAtIsPut ==
  ASSUME TypeOK, IndexMatchesData, NEW l \in Locators, NEW o \in Objects,
         CheckDim(sizes, l), InBounds(sizes, l), ConstructAt(Loc2Pos(sizes, l), o)
  PROVE  Store!Put(l, o)
<1> DEFINE pos == Loc2Pos(sizes, l)
<1>1. sizes \in Shapes /\ pos \in Positions BY Loc2PosInRange DEF TypeOK
<1>2. NoIndex \notin Positions BY CapacityAssumption DEF NoIndex, Positions
<1>3. EntryAt(idxmap', data', pos) = o
  BY <1>1, <1>2 DEF ConstructAt, EntryAt, TypeOK
<1>4. \A p \in Positions \ {pos} : EntryAt(idxmap', data', p) = EntryAt(idxmap, data, p)
  <2> TAKE p \in Positions \ {pos}
  <2>1. idxmap'[p] = idxmap[p] /\ data'[p] = data[p]
    BY DEF ConstructAt, TypeOK
  <2>2. idxmap[p] = NoIndex \/ idxmap[p] = p
    BY DEF ConstructAt, IndexMatchesData, Direct
  <2>3. QED BY <2>1, <2>2 DEF EntryAt
<1>5. \A m \in Locators : CheckDim(sizes, m) /\ InBounds(sizes, m) /\ m # l
                            => Loc2Pos(sizes, m) \in Positions \ {pos}
  BY <1>1, Loc2PosInRange, Loc2PosUnique
<1>6. ObjectsIn(sizes, idxmap, data)' = [ObjectsIn(sizes, idxmap, data) EXCEPT ![l] = o]
  <2>1. ASSUME NEW m \in Locators
        PROVE  Lookup(sizes', idxmap', data', m) =
                 IF m = l THEN o ELSE Lookup(sizes, idxmap, data, m)
    <3>1. sizes' = sizes BY DEF ConstructAt
    <3>2. CASE m = l BY <1>3, <3>1, <3>2 DEF Lookup
    <3>3. CASE m # l BY <1>4, <1>5, <3>1, <3>3 DEF Lookup
    <3>4. QED BY <3>2, <3>3
  <2>2. QED BY <2>1 DEF ObjectsIn
<1>7. UNCHANGED <<compressed, sizes, tree>> /\ ~compressed BY DEF ConstructAt
<1>8. Archive' = Archive BY <1>7 DEF Archive
<1>9. QED BY <1>6, <1>7, <1>8 DEF Store!Put

(* The slot of getNewSlot is the position of a locator in bounds.          *)
LEMMA NewSlotLocator ==
  ASSUME TypeOK, Len(sizes) = 1, GetEntries < DataSize(sizes)
  PROVE  /\ <<GetEntries>> \in Locators
         /\ CheckDim(sizes, <<GetEntries>>) /\ InBounds(sizes, <<GetEntries>>)
         /\ Loc2Pos(sizes, <<GetEntries>>) = GetEntries
<1> DEFINE n == GetEntries  l == <<n>>
<1>1. n \in Nat
  <2>1. Occupied(data) \in SUBSET Positions BY DEF Occupied
  <2>2. QED BY <2>1, PositionsFinite DEF GetEntries
<1> HIDE DEF n
<1>2. sizes \in Shapes /\ sizes \in Seq(Nat \ {0}) BY ShapesAssumption DEF TypeOK
<1>3. sizes[1] \in Nat /\ DOMAIN sizes = {1} BY <1>2
<1>4. /\ Size(sizes, 1) = sizes[1] /\ Size(sizes, 2) = 1 /\ Size(sizes, 3) = 1
      /\ Coord(l, 1) = n /\ Coord(l, 2) = 0 /\ Coord(l, 3) = 0
  BY DEF Size, Coord
<1>5. DataSize(sizes) = sizes[1] BY <1>3, <1>4 DEF DataSize
<1>6. n < sizes[1] BY <1>5 DEF n
<1>7. l \in Locators
  <2>1. n \in 0 .. sizes[1] - 1 BY <1>1, <1>3, <1>6
  <2>2. QED BY <1>2, <2>1, LocatorsAssumption
<1>8. CheckDim(sizes, l) /\ InBounds(sizes, l)
  BY <1>3, <1>6 DEF CheckDim, InBounds
<1>9. Loc2Pos(sizes, l) = n
  <2>1. Offset(sizes, 1) = 1 /\ Offset(sizes, 2) \in Nat /\ Offset(sizes, 3) \in Nat
    BY <1>3, <1>4 DEF Offset
  <2>2. QED BY <1>1, <1>4, <2>1 DEF Loc2Pos
<1>10. QED BY <1>7, <1>8, <1>9 DEF n

(* Compressing is invisible: every locator keeps its object.               *)
LEMMA CompressedIsInvisible ==
  ASSUME TypeOK, IndexMatchesData, Compressed, UNCHANGED sizes
  PROVE  ObjectsIn(sizes, idxmap, data)' = ObjectsIn(sizes, idxmap, data)
<1>1. ASSUME NEW l \in Locators
      PROVE  Lookup(sizes', idxmap', data', l) = Lookup(sizes, idxmap, data, l)
  <2>1. CASE CheckDim(sizes, l) /\ InBounds(sizes, l)
    <3>1. Loc2Pos(sizes, l) \in Positions BY <2>1, Loc2PosInRange DEF TypeOK
    <3>2. QED BY <2>1, <3>1, CompressedAgrees DEF Lookup
  <2>2. CASE ~(CheckDim(sizes, l) /\ InBounds(sizes, l))
    BY <2>2 DEF Lookup
  <2>3. QED BY <2>1, <2>2
<1>2. QED BY <1>1 DEF ObjectsIn

(* No object is found in an empty category.                                *)
LEMMA EmptyIsEmpty ==
  ASSUME TypeOK
  PROVE  ObjectsIn(sizes, EmptyIndex, NoEntries) = [l \in Locators |-> Null]
<1>1. ASSUME NEW l \in Locators PROVE Lookup(sizes, EmptyIndex, NoEntries, l) = Null
  <2>1. CASE CheckDim(sizes, l) /\ InBounds(sizes, l)
    <3>1. Loc2Pos(sizes, l) \in Positions BY <2>1, Loc2PosInRange DEF TypeOK
    <3>2. QED BY <2>1, <3>1 DEF Lookup, EntryAt, EmptyIndex
  <2>2. CASE ~(CheckDim(sizes, l) /\ InBounds(sizes, l))
    BY <2>2 DEF Lookup
  <2>3. QED BY <2>1, <2>2
<1>2. QED BY <1>1 DEF ObjectsIn

(* Writing an event appends what is found in it to the archive.            *)
LEMMA AppendedArchive ==
  ASSUME TypeOK, NEW e \in Snapshots, tree' = Append(tree, e), UNCHANGED sizes
  PROVE  Archive' = Append(Archive, ObjectsIn(sizes, e.idxmap, e.data))
<1> DEFINE g(k) == ObjectsIn(sizes, tree'[k].idxmap, tree'[k].data)
           x == ObjectsIn(sizes, e.idxmap, e.data)
           n == Len(tree)
<1>1. tree \in Seq(Snapshots) /\ n \in Nat BY DEF TypeOK
<1>2. Len(tree') = n + 1 /\ tree'[n + 1] = e /\ \A k \in 1 .. n : tree'[k] = tree[k]
  BY <1>1
<1>3. Archive' = [k \in 1 .. n + 1 |-> g(k)] BY <1>2 DEF Archive
<1>4. Archive = [k \in 1 .. n |-> g(k)] BY <1>2 DEF Archive
<1>5. g(n + 1) = x BY <1>2
<1> HIDE DEF g, x, n
<1>6. Append([k \in 1 .. n |-> g(k)], x)
        = [k \in 1 .. n + 1 |-> IF k = n + 1 THEN x ELSE g(k)]
  BY <1>1
<1>7. QED BY <1>1, <1>3, <1>4, <1>5, <1>6 DEF x

(* A category is an EventStore: objects stay under their locators through  *)
(* compression, the output tree and the way back.                          *)
THEOREM CategoryImplementsStore == Spec => ImplementsStore
<1>1. Init => Store!StoreInit
  <2> SUFFICES ASSUME Init PROVE Store!StoreInit OBVIOUS
  <2>1. TypeOK
    <3>1. <<>> \in Seq(Snapshots) OBVIOUS
    <3>2. EmptyIndex \in [Positions -> Slots] BY DEF EmptyIndex, Slots
    <3>3. NoEntries \in [Positions -> Objects \cup {Null}] BY DEF NoEntries
    <3>4. QED BY <3>1, <3>2, <3>3 DEF Init, TypeOK
  <2>2. ObjectsIn(sizes, idxmap, data) = Store!Empty
    BY <2>1, EmptyIsEmpty DEF Init, Store!Empty
  <2>3. Archive = <<>> BY DEF Init, Archive
  <2>4. QED BY <2>2, <2>3 DEF Init, Store!StoreInit
<1>2. TypeOK /\ IndexInv /\ [Next]_vars => [Store!StoreNext]_Store!storeVars
  <2> SUFFICES ASSUME TypeOK, IndexInv, [Next]_vars
               PROVE  Store!StoreNext \/ UNCHANGED Store!storeVars
    OBVIOUS
  <2> USE DEF IndexInv
  <2>0. ASSUME UNCHANGED <<sizes, tree>> PROVE Archive' = Archive
    BY <2>0 DEF Archive
  <2>1. ASSUME NEW l \in Locators, NEW o \in Objects, GetSlot(l, o)
        PROVE  Store!StoreNext
    BY <2>1, ConstructAtIsPut DEF GetSlot, Store!StoreNext
  <2>2. ASSUME NEW o \in Objects, GetNewSlot(o) PROVE Store!StoreNext
    <3>1. /\ TypeOK /\ Len(sizes) = 1 /\ GetEntries < DataSize(sizes)
          /\ ConstructAt(GetEntries, o)
      BY <2>2 DEF GetNewSlot
    <3>2. Store!Put(<<GetEntries>>, o) BY <3>1, NewSlotLocator, ConstructAtIsPut
    <3>3. QED BY <3>1, <3>2, NewSlotLocator DEF Store!StoreNext
  <2>3. ASSUME Compress PROVE Store!StoreNext \/ UNCHANGED Store!storeVars
    <3>1. Compressed /\ UNCHANGED <<sizes, tree>> BY <2>3 DEF Compress
    <3>2. ObjectsIn(sizes, idxmap, data)' = ObjectsIn(sizes, idxmap, data)
      BY <3>1, CompressedIsInvisible
    <3>3. compressed' = TRUE \/ compressed' = compressed BY <3>1 DEF Compressed
    <3>4. QED
      BY <2>0, <3>1, <3>2, <3>3 DEF Store!StoreNext, Store!Seal, Store!storeVars
  <2>4. ASSUME GetObjectByIndex PROVE Store!StoreNext \/ UNCHANGED Store!storeVars
    BY <2>3, <2>4 DEF GetObjectByIndex
  <2>5. ASSUME Clear PROVE Store!StoreNext
    BY <2>0, <2>5, EmptyIsEmpty
       DEF Clear, Store!StoreNext, Store!Reset, Store!Empty
  <2>6. ASSUME Fill PROVE Store!StoreNext
    <3>1. Compressed /\ writable /\ UNCHANGED sizes
      BY <2>6 DEF Fill, WriterIsWritable
    <3>2. ObjectsIn(sizes, idxmap, data)' = ObjectsIn(sizes, idxmap, data)
      BY <3>1, CompressedIsInvisible
    <3>3. compressed' = TRUE BY <3>1 DEF Compressed
    <3> DEFINE e == [idxmap |-> idxmap', data |-> data']
    <3>4. e \in Snapshots BY <3>1, CompressedType DEF Snapshots
    <3>5. tree' = Append(tree, e) BY <2>6 DEF Fill
    <3>6. Archive' = Append(Archive, ObjectsIn(sizes, e.idxmap, e.data))
      BY <3>1, <3>4, <3>5, AppendedArchive
    <3>7. ObjectsIn(sizes, e.idxmap, e.data) = ObjectsIn(sizes, idxmap, data)
      BY <3>1, <3>2
    <3>8. QED BY <3>2, <3>3, <3>6, <3>7 DEF Store!StoreNext, Store!Write
  <2>7. ASSUME Reopen PROVE Store!StoreNext
    BY <2>0, <2>7, EmptyIsEmpty
       DEF Reopen, Store!StoreNext, Store!Reset, Store!Empty
  <2>8. ASSUME NEW k \in DOMAIN tree, GetEvent(k) PROVE Store!StoreNext
    <3>1. DOMAIN Archive = 1 .. Len(tree) /\ DOMAIN tree = 1 .. Len(tree)
      BY DEF Archive, TypeOK
    <3>2. Archive[k] = ObjectsIn(sizes, idxmap', data')
      BY <2>8, <3>1 DEF GetEvent, Archive
    <3>3. Store!Load(k)
      BY <2>0, <2>8, <3>2 DEF GetEvent, Store!Load
    <3>4. QED BY <3>1, <3>3 DEF Store!StoreNext
  <2>9. CASE UNCHANGED vars
    BY <2>0, <2>9 DEF vars, Store!storeVars
  <2>10. QED BY <2>1, <2>2, <2>3, <2>4, <2>5, <2>6, <2>7, <2>8, <2>9 DEF Next
<1>3. QED
  BY <1>1, <1>2, IndexInvariant, TypeCorrect, PTL DEF Spec, ImplementsStore, Store!StoreSpec
=============================================================================

------------------------------ MODULE Category ------------------------------
(***************************************************************************)
(* SCategory: the container that holds the objects of one kind of one      *)
(* event (lib/base/datastruct/SCategory.cc, SCategoryIndex.cc).            *)
(*                                                                         *)
(* An object is addressed by a locator.  The locator is turned into a      *)
(* linear position, an index maps positions to slots of a TClonesArray.    *)
(* While the event is built position and slot are the same number; when    *)
(* the category is compressed the array is packed and the index            *)
(* renumbered, and no slot can be added until the next clear.  SiFi::fill  *)
(* compresses the category and writes it to the output tree; a later       *)
(* program reads the tree with SLoop and asks for the objects by locator.  *)
(***************************************************************************)
EXTENDS Naturals, Integers, Sequences, FiniteSets

CONSTANTS
  Shapes,     (* the dimension sizes categories are registered with        *)
  Locators,   (* the SLocators the tasks use, of any dimension             *)
  Capacity,   (* bound: positions 0 .. Capacity-1 hold every shape         *)
  Objects,    (* the objects the tasks construct                           *)
  Null,       (* an array entry that is a null pointer                     *)
  MaxEntries  (* bound: events written to the output tree                  *)

(***************************************************************************)
(* The layout of a category: SCategory::setup and loc2pos.  Every category *)
(* of the framework has one to three dimensions; the loop over dimensions  *)
(* is unrolled, a missing dimension has size 1 and coordinate 0.           *)
(***************************************************************************)
Size(sizes, k) == IF k <= Len(sizes) THEN sizes[k] ELSE 1

Coord(l, k) == IF k <= Len(l) THEN l[k] ELSE 0

MutantOffset(sizes, k) ==   \* the previous size alone, not the product so far
  IF k = 1 THEN 1 ELSE Size(sizes, k - 1)
Offset(sizes, k) ==
  CASE k = 1 -> 1
    [] k = 2 -> Size(sizes, 1)
    [] k = 3 -> Size(sizes, 1) * Size(sizes, 2)

DataSize(sizes) == Size(sizes, 1) * Size(sizes, 2) * Size(sizes, 3)

Loc2Pos(sizes, l) ==
  Coord(l, 1) * Offset(sizes, 1) + Coord(l, 2) * Offset(sizes, 2)
    + Coord(l, 3) * Offset(sizes, 3)

(* loc2pos checks no coordinate: staying below the registered sizes is up  *)
(* to the caller.                                                          *)
InBounds(sizes, l) == \A k \in DOMAIN sizes : l[k] < sizes[k]

CheckDim(sizes, l) == Len(l) = Len(sizes)

Positions == 0 .. Capacity - 1

ASSUME ShapesAssumption ==
  /\ Shapes \subseteq Seq(Nat \ {0})
  /\ \A s \in Shapes : Len(s) \in 1 .. 3 /\ DataSize(s) <= Capacity
ASSUME LocatorsAssumption ==
  /\ Locators \subseteq Seq(Nat)
  /\ \A s \in Shapes : Len(s) = 1 => \A n \in 0 .. s[1] - 1 : <<n>> \in Locators
ASSUME CapacityAssumption == Capacity \in Nat
ASSUME ObjectsAssumption == Null \notin Objects
ASSUME MaxEntriesAssumption == MaxEntries \in Nat
-----------------------------------------------------------------------------
VARIABLES
  sizes,      (* header.dim_sizes                                          *)
  writable,   (* header.writable                                           *)
  idxmap,     (* index.idxmap: the slot of each position, NoIndex if none  *)
  compressed, (* index.compressed                                          *)
  data,       (* the entries of the TClonesArray                           *)
  tree,       (* the output tree: index and data as they were streamed     *)
  reading     (* the program that reads the tree has taken over            *)

vars == <<sizes, writable, idxmap, compressed, data, tree, reading>>

NoIndex == -1
Slots == Positions \cup {NoIndex}
NoEntries == [p \in Positions |-> Null]
EmptyIndex == [p \in Positions |-> NoIndex]

Occupied(d) == {p \in Positions : d[p] # Null}
Indexed(idx) == {p \in Positions : idx[p] # NoIndex}

(* TClonesArray::GetEntries counts the entries that are not null.          *)
GetEntries == Cardinality(Occupied(data))

(* The number of elements of S below p.                                    *)
Rank(S, p) == Cardinality({q \in S : q < p})

(* TClonesArray::Compress moves the entries to the front, in order.        *)
Packed(d) ==
  [i \in Positions |->
     IF \E p \in Occupied(d) : Rank(Occupied(d), p) = i
       THEN d[CHOOSE p \in Occupied(d) : Rank(Occupied(d), p) = i]
       ELSE Null]

(* SCategoryIndex::compress numbers the keys of the map in their order.    *)
Renumbered(idx) ==
  [p \in Positions |-> IF idx[p] = NoIndex THEN NoIndex ELSE Rank(Indexed(idx), p)]

(* The entry the index of a position leads to (getMapIndex, then At).      *)
EntryAt(idx, d, p) == IF idx[p] = NoIndex THEN Null ELSE d[idx[p]]

(* getObject(locator).                                                     *)
Lookup(sz, idx, d, l) ==
  IF CheckDim(sz, l) /\ InBounds(sz, l) THEN EntryAt(idx, d, Loc2Pos(sz, l)) ELSE Null

ObjectsIn(sz, idx, d) == [l \in Locators |-> Lookup(sz, idx, d, l)]
-----------------------------------------------------------------------------
(* The four-argument constructor: an empty category of a registered shape. *)
Init ==
  /\ sizes \in Shapes
  /\ writable = TRUE
  /\ idxmap = EmptyIndex
  /\ compressed = FALSE
  /\ data = NoEntries
  /\ tree = <<>>
  /\ reading = FALSE

(* SCategoryIndex::setMapIndex and TClonesArray::operator[], then the      *)
(* construction of the object in the slot, which every caller does before  *)
(* it uses the category again.                                             *)
ConstructAt(pos, o) ==
  /\ ~compressed
  /\ idxmap' = [idxmap EXCEPT ![pos] = pos]
  /\ data' = [data EXCEPT ![pos] = o]
  /\ UNCHANGED <<sizes, writable, compressed, tree, reading>>

(* getSlot: a locator of another dimension gets no slot; the callers keep  *)
(* the coordinates in bounds.                                              *)
GetSlot(l, o) ==
  /\ ~reading
  /\ CheckDim(sizes, l)
  /\ InBounds(sizes, l)
  /\ ConstructAt(Loc2Pos(sizes, l), o)

(* getNewSlot: the slot whose number is the count of entries.  The array   *)
(* would grow past data_size; the model stops there.                       *)
MutantGetNewSlot(o) ==   \* the slot before: an off-by-one in the count
  /\ ~reading
  /\ Len(sizes) = 1
  /\ GetEntries < DataSize(sizes)
  /\ ConstructAt(IF GetEntries = 0 THEN 0 ELSE GetEntries - 1, o)
GetNewSlot(o) ==
  /\ ~reading
  /\ Len(sizes) = 1
  /\ GetEntries < DataSize(sizes)
  /\ ConstructAt(GetEntries, o)

(* compress: a category that is not writable is left as it is.             *)
Compressed ==
  IF writable
    THEN /\ data' = Packed(data)
         /\ idxmap' = Renumbered(idxmap)
         /\ compressed' = TRUE
    ELSE UNCHANGED <<data, idxmap, compressed>>

Compress ==
  /\ Compressed
  /\ UNCHANGED <<sizes, writable, tree, reading>>

(* getObject(i): reading by number compresses the category first.          *)
GetObjectByIndex ==
  /\ ~compressed
  /\ Compress

MutantClear ==   \* the index keeps its entries and its flag
  /\ data' = NoEntries
  /\ UNCHANGED <<sizes, writable, idxmap, compressed, tree, reading>>
Clear ==
  /\ data' = NoEntries
  /\ idxmap' = EmptyIndex
  /\ compressed' = FALSE
  /\ UNCHANGED <<sizes, writable, tree, reading>>

(* SiFi::fill: compress, then TTree::Fill streams index and data.          *)
Fill ==
  /\ ~reading
  /\ Len(tree) < MaxEntries
  /\ Compressed
  /\ tree' = Append(tree, [idxmap |-> idxmap', data |-> data'])
  /\ UNCHANGED <<sizes, writable, reading>>

(* The program that reads the tree starts with a default-constructed       *)
(* category, which is not writable, and with nothing loaded.               *)
Reopen ==
  /\ ~reading
  /\ reading' = TRUE
  /\ writable' = FALSE
  /\ data' = NoEntries
  /\ idxmap' = EmptyIndex
  /\ compressed' = FALSE
  /\ UNCHANGED <<sizes, tree>>

(* SLoop::getEvent: header, index and data are streamed back.              *)
GetEvent(k) ==
  /\ reading
  /\ idxmap' = tree[k].idxmap
  /\ data' = tree[k].data
  /\ compressed' = TRUE
  /\ writable' = TRUE
  /\ UNCHANGED <<sizes, tree, reading>>

Next ==
  \/ \E l \in Locators, o \in Objects : GetSlot(l, o)
  \/ \E o \in Objects : GetNewSlot(o)
  \/ Compress
  \/ GetObjectByIndex
  \/ Clear
  \/ Fill
  \/ Reopen
  \/ \E k \in DOMAIN tree : GetEvent(k)

Spec == Init /\ [][Next]_vars
-----------------------------------------------------------------------------
Snapshots == [idxmap : [Positions -> Slots], data : [Positions -> Objects \cup {Null}]]

(* The values the variables can hold; a snapshot is an index and an array. *)
TypeOK ==
  /\ sizes \in Shapes
  /\ writable \in BOOLEAN
  /\ idxmap \in [Positions -> Slots]
  /\ compressed \in BOOLEAN
  /\ data \in [Positions -> Objects \cup {Null}]
  /\ tree \in Seq(Snapshots)
  /\ reading \in BOOLEAN

(* Before compression a position is indexed by itself, and exactly when    *)
(* the array has an entry there.                                           *)
Direct(idx, d) == \A p \in Positions : idx[p] = IF d[p] = Null THEN NoIndex ELSE p

(* After it the indexed positions are numbered 0, 1, 2 ... in their order, *)
(* and the array has exactly the entries of those numbers.                 *)
Dense(idx, d) ==
  /\ \A p \in Indexed(idx) : idx[p] = Rank(Indexed(idx), p)
  /\ \A p \in Positions : d[p] # Null <=> p < Cardinality(Indexed(idx))

(* Index and array always agree: every indexed position leads to its own   *)
(* object and every object is indexed, whatever the order of filling,      *)
(* compressing and reading; what was streamed to the tree is compressed.   *)
IndexMatchesData ==
  /\ IF compressed THEN Dense(idxmap, data) ELSE Direct(idxmap, data)
  /\ \A k \in DOMAIN tree : Dense(tree[k].idxmap, tree[k].data)

(* "Create a new slot at the end of the array" (SCategory.cc:140): the     *)
(* slot getNewSlot gives was free, so no object is replaced.               *)
NewSlotIsFree ==
  [][\A o \in Objects : GetNewSlot(o) => \A p \in Positions : data[p] = Null \/ data'[p] = data[p]]_vars

(* The promise holds as long as the entries have no holes, as when         *)
(* getNewSlot is the only call that adds objects.                          *)
NewSlotIsFreeWithoutHoles ==
  [][\A o \in Objects :
       GetNewSlot(o) /\ Occupied(data) = 0 .. GetEntries - 1
         => \A p \in Positions : data[p] = Null \/ data'[p] = data[p]]_vars

(* The category keeps the promise of EventStore: an object is found under  *)
(* the locator it was put at, before and after compression and when the    *)
(* event is read back from the tree, and under no other locator.           *)
Archive ==
  [k \in 1 .. Len(tree) |-> ObjectsIn(sizes, tree[k].idxmap, tree[k].data)]

Store == INSTANCE EventStore WITH
           None <- Null,
           objects <- ObjectsIn(sizes, idxmap, data),
           sealed <- compressed,
           archive <- Archive

ImplementsStore == Store!StoreSpec
=============================================================================

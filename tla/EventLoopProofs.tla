-------------------------- MODULE EventLoopProofs --------------------------
(***************************************************************************)
(* For every number of sources and fibres, every lookup table and files of *)
(* every length: the types of EventLoop, that an entry of the tree is made *)
(* of one record of every source, that the loop ends where it should, that *)
(* no category is written after it was read, and that every category is an *)
(* EventStore.                                                             *)
(***************************************************************************)
EXTENDS EventLoop, FunctionTheorems, FiniteSetTheorems, SequenceTheorems, TLAPS

-----------------------------------------------------------------------------
(* Part 1: the numbers of the objects of a category.                       *)
Before(S, f) == Cardinality({g \in S : g < f})

LEMMA BeforeBelow ==
  ASSUME NEW S \in SUBSET Nat, IsFiniteSet(S), NEW f \in S
  PROVE  Before(S, f) \in 0 .. Cardinality(S) - 1
<1> DEFINE A == {g \in S : g < f}
<1>1. A \in SUBSET S /\ f \notin A
  OBVIOUS
<1>2. /\ IsFiniteSet(A) /\ Cardinality(A) <= Cardinality(S) /\ Cardinality(A) # Cardinality(S)
  BY <1>1, FS_Subset
<1>3. Cardinality(A) \in Nat /\ Cardinality(S) \in Nat
  BY <1>2, FS_CardinalityType
<1> QED BY <1>2, <1>3 DEF Before

LEMMA BeforeGrows ==
  ASSUME NEW S \in SUBSET Nat, IsFiniteSet(S), NEW f \in S, NEW h \in S, f < h
  PROVE  Before(S, f) < Before(S, h)
<1> DEFINE A == {g \in S : g < f}
           B == {g \in S : g < h}
<1>1. A \in SUBSET B /\ f \in B /\ f \notin A /\ B \in SUBSET S
  <2>1. f \in Int /\ h \in Int /\ \A g \in S : g \in Int
    OBVIOUS
  <2>2. \A g \in A : g \in S /\ g < h
    BY <2>1
  <2>3. ~(f < f)
    BY <2>1
  <2> QED BY <2>2, <2>3
<1>2. IsFiniteSet(B)
  BY <1>1, FS_Subset
<1>3. IsFiniteSet(A) /\ Cardinality(A) <= Cardinality(B) /\ Cardinality(A) # Cardinality(B)
  BY <1>1, <1>2, FS_Subset
<1>4. Cardinality(A) \in Nat /\ Cardinality(B) \in Nat
  BY <1>2, <1>3, FS_CardinalityType
<1> QED BY <1>3, <1>4 DEF Before

LEMMA BeforeInjective ==
  ASSUME NEW S \in SUBSET Nat, IsFiniteSet(S), NEW f \in S, NEW h \in S,
         Before(S, f) = Before(S, h)
  PROVE  f = h
<1>1. Before(S, f) \in Int /\ Before(S, h) \in Int
  BY BeforeBelow
<1>2. ~(f < h) /\ ~(h < f)
  BY <1>1, BeforeGrows
<1> QED BY <1>2

LEMMA BeforeOnto ==
  ASSUME NEW S \in SUBSET Nat, IsFiniteSet(S), NEW k \in 0 .. Cardinality(S) - 1
  PROVE  \E f \in S : Before(S, f) = k
<1> DEFINE n == Cardinality(S)
           T == 0 .. n - 1
           F == [f \in S |-> Before(S, f)]
<1>1. n \in Nat
  BY FS_CardinalityType
<1>2. IsFiniteSet(T) /\ Cardinality(T) = n
  <2>1. 0 \in Int /\ n - 1 \in Int
    BY <1>1
  <2> QED BY <1>1, <2>1, FS_Interval
<1>3. F \in Injection(S, T)
  <2>1. F \in [S -> T]
    BY BeforeBelow
  <2>2. \A f, h \in S : F[f] = F[h] => f = h
    BY BeforeInjective
  <2> QED BY <2>1, <2>2, Fun_IsInj
<1>4. F \in Surjection(S, T)
  <2>1. Cardinality(S) = Cardinality(T)
    BY <1>2
  <2> HIDE DEF T, F, n
  <2> QED BY <1>2, <1>3, <2>1, FS_Injection
<1>5. \A t \in T : \E f \in S : F[f] = t
  BY <1>4 DEF Surjection
<1> QED BY <1>5

LEMMA PresentFinite ==
  ASSUME NEW objects
  PROVE  /\ Present(objects) \in SUBSET Nat /\ IsFiniteSet(Present(objects))
         /\ Present(objects) \in SUBSET Fibers
         /\ Cardinality(Present(objects)) \in Nat
         /\ Cardinality(Present(objects)) <= Cardinality(Fibers)
<1>1. Present(objects) \in SUBSET Fibers
  BY DEF Present
<1> QED BY <1>1, FibersAssumption, FS_Subset, FS_CardinalityType

(* getObject(k) for a k below the number of objects.                       *)
LEMMA NumberedIs ==
  ASSUME NEW objects, NEW k \in 0 .. Cardinality(Present(objects)) - 1
  PROVE  /\ Numbered(objects, k) \in Present(objects)
         /\ \A f \in Present(objects) :
              Before(Present(objects), f) = k <=> f = Numbered(objects, k)
<1> DEFINE S == Present(objects)
           n == Numbered(objects, k)
<1>1. S \in SUBSET Nat /\ IsFiniteSet(S)
  BY PresentFinite
<1>2. n = CHOOSE f \in S : Before(S, f) = k
  BY DEF Numbered, Before
<1>3. \E f \in S : Before(S, f) = k
  <2> HIDE DEF S
  <2>1. k \in 0 .. Cardinality(S) - 1
    BY DEF S
  <2> QED BY <1>1, <2>1, BeforeOnto
<1> HIDE DEF S, n
<1>4. n \in S /\ Before(S, n) = k
  BY <1>2, <1>3
<1>5. \A f \in S : Before(S, f) = k => f = n
  BY <1>1, <1>4, BeforeInjective
<1> QED BY <1>4, <1>5 DEF S, n
-----------------------------------------------------------------------------
(* Part 2: the raw objects of an event while its sources are read.         *)
WiredUpTo(f, side, s) == \E r \in 1 .. s : Channel[r] = <<f, side>>
RawUpTo(f, n, s) ==
  IF \E side \in Sides : WiredUpTo(f, side, s)
    THEN [side \in Sides |-> IF WiredUpTo(f, side, s) THEN n ELSE NoRecord]
    ELSE NoObject

LEMMA RawUpToIsObject ==
  ASSUME NEW f, NEW n \in 0 .. MaxRecords, NEW s
  PROVE  RawUpTo(f, n, s) \in Objects \cup {NoObject}
BY MaxRecordsAssumption DEF RawUpTo, Objects, NoRecord

LEMMA RawOfIsUpTo ==
  ASSUME NEW f, NEW n
  PROVE  RawOf(f, n) = RawUpTo(f, n, NumSources)
BY DEF RawOf, RawUpTo, Wired, WiredUpTo, Sources

LEMMA NothingRead == \A f, n : RawUpTo(f, n, 0) = NoObject
<1>1. \A f, side : ~WiredUpTo(f, side, 0)
  BY DEF WiredUpTo
<1> QED BY <1>1 DEF RawUpTo

(* The fibre of the source read last has an object.                        *)
LEMMA NextIsObject ==
  ASSUME NEW s \in Nat, NEW f, NEW side \in Sides, Channel[s + 1] = <<f, side>>,
         NEW n \in 0 .. MaxRecords
  PROVE  RawUpTo(f, n, s + 1) # NoObject
<1>1. s + 1 \in 1 .. s + 1
  OBVIOUS
<1>2. WiredUpTo(f, side, s + 1)
  BY <1>1 DEF WiredUpTo
<1>3. RawUpTo(f, n, s + 1) = [d \in Sides |-> IF WiredUpTo(f, d, s + 1) THEN n ELSE NoRecord]
  BY <1>2 DEF RawUpTo
<1>4. RawUpTo(f, n, s + 1) \in Objects
  BY <1>3, MaxRecordsAssumption DEF Objects, NoRecord
<1> QED BY <1>4, NoObjectAssumption

(* The unpacker of the next source adds its side to the fibre's object.    *)
LEMMA NextSource ==
  ASSUME NEW s \in Nat, s + 1 \in Sources, NEW n \in 1 .. MaxRecords,
         NEW f0, NEW side0, Channel[s + 1] = <<f0, side0>>
  PROVE  /\ f0 \in Fibers /\ side0 \in Sides
         /\ \A f \in Fibers \ {f0} : RawUpTo(f, n, s + 1) = RawUpTo(f, n, s)
         /\ RawUpTo(f0, n, s + 1) =
              [IF RawUpTo(f0, n, s) = NoObject THEN [side \in Sides |-> NoRecord]
                                               ELSE RawUpTo(f0, n, s) EXCEPT ![side0] = n]
<1> DEFINE old == RawUpTo(f0, n, s)
<1>1. f0 \in Fibers /\ side0 \in Sides
  BY ChannelAssumption
<1>2. ASSUME NEW f, NEW side
      PROVE  WiredUpTo(f, side, s + 1) <=> WiredUpTo(f, side, s) \/ (f = f0 /\ side = side0)
  <2>1. 1 .. s + 1 = 1 .. s \cup {s + 1}
    OBVIOUS
  <2>2. WiredUpTo(f, side, s + 1) <=> WiredUpTo(f, side, s) \/ Channel[s + 1] = <<f, side>>
    BY <2>1 DEF WiredUpTo
  <2> QED BY <2>2
<1>3. \A f \in Fibers \ {f0} : RawUpTo(f, n, s + 1) = RawUpTo(f, n, s)
  BY <1>2 DEF RawUpTo
<1> DEFINE new == [side \in Sides |-> IF WiredUpTo(f0, side, s + 1) THEN n ELSE NoRecord]
<1>4. RawUpTo(f0, n, s + 1) = new
  BY <1>1, <1>2 DEF RawUpTo
<1>5. CASE \E side \in Sides : WiredUpTo(f0, side, s)
  <2>1. old = [side \in Sides |-> IF WiredUpTo(f0, side, s) THEN n ELSE NoRecord]
    BY <1>5 DEF RawUpTo
  <2>2. n \in 0 .. MaxRecords
    BY MaxRecordsAssumption
  <2>3. old \in Objects
    BY <2>1, <2>2, MaxRecordsAssumption DEF Objects, NoRecord
  <2>4. [old EXCEPT ![side0] = n] = new
    BY <1>1, <1>2, <2>1
  <2> QED BY <1>1, <1>3, <1>4, <2>3, <2>4, NoObjectAssumption
<1>6. CASE ~\E side \in Sides : WiredUpTo(f0, side, s)
  <2>1. old = NoObject
    BY <1>6 DEF RawUpTo
  <2>2. [[side \in Sides |-> NoRecord] EXCEPT ![side0] = n] = new
    BY <1>1, <1>2, <1>6
  <2> QED BY <1>1, <1>3, <1>4, <2>1, <2>2
<1> QED BY <1>5, <1>6
-----------------------------------------------------------------------------
(* Part 3: the objects a task has made of the first k of its input.        *)
RawAll(n) == [f \in Fibers |-> RawOf(f, n)]

(* The hit of a fibre: read on both sides, and no time cut off to 0.       *)
HitOf(z, f, n) ==
  IF BothSides(f) /\ ~\E side \in Sides : <<f, side, n>> \in z THEN RawOf(f, n) ELSE NoObject
HitAll(z, n) == [f \in Fibers |-> HitOf(z, f, n)]

Made(from, to, k) ==
  [f \in Fibers |->
     IF f \in Present(from) /\ Before(Present(from), f) < k THEN to[f] ELSE NoObject]

LEMMA NothingMade == ASSUME NEW from, NEW to PROVE Made(from, to, 0) = NoObjects
<1>1. \A f \in Present(from) : ~(Before(Present(from), f) < 0)
  BY BeforeBelow, PresentFinite
<1> QED BY <1>1 DEF Made, NoObjects

LEMMA AllMade ==
  ASSUME NEW from, NEW to, NEW k, k = Cardinality(Present(from)),
         to = [f \in Fibers |-> to[f]], \A f \in Fibers \ Present(from) : to[f] = NoObject
  PROVE  Made(from, to, k) = to
<1>1. \A f \in Present(from) : Before(Present(from), f) < k
  <2>1. k \in Nat
    BY PresentFinite
  <2>2. \A f \in Present(from) : Before(Present(from), f) \in 0 .. k - 1
    BY BeforeBelow, PresentFinite
  <2> QED BY <2>1, <2>2
<1>2. \A f \in Fibers : (IF f \in Present(from) /\ Before(Present(from), f) < k
                           THEN to[f] ELSE NoObject) = to[f]
  BY <1>1
<1> QED BY <1>2 DEF Made

(* A fibre without raw data has no hit.                                    *)
LEMMA HitsOfNothing ==
  ASSUME NEW z, NEW n, NEW f \in Fibers \ Present(RawAll(n))
  PROVE  HitAll(z, n)[f] = NoObject
BY DEF HitAll, RawAll, HitOf, Present

LEMMA OneMore ==
  ASSUME NEW from, NEW to, NEW k \in 0 .. Cardinality(Present(from)) - 1,
         NEW g, g = Numbered(from, k)
  PROVE  /\ g \in Fibers /\ g \in Present(from)
         /\ Made(from, to, k)[g] = NoObject
         /\ Made(from, to, k + 1) = [Made(from, to, k) EXCEPT ![g] = to[g]]
<1>1. g \in Present(from) /\ g \in Fibers
  BY NumberedIs DEF Present
<1>2. k \in Nat /\ \A f \in Present(from) : Before(Present(from), f) \in Nat
  BY BeforeBelow, PresentFinite
<1>3. ASSUME NEW f \in Present(from)
      PROVE  Before(Present(from), f) < k + 1 <=> (f = g \/ Before(Present(from), f) < k)
  BY <1>2, NumberedIs
<1>4. ~(Before(Present(from), g) < k)
  BY <1>1, <1>2, NumberedIs
<1> QED BY <1>1, <1>3, <1>4 DEF Made
-----------------------------------------------------------------------------
(* Part 4: the inductive invariant.  In each phase it says which record    *)
(* every source is at and what has been made of the event so far.          *)
Ordered == <<"Calibrator", "HitFinder">>

TasksInOrder ==
  IF pc = "setup" THEN tasks \in {<<>>, <<"Calibrator">>, <<"HitFinder">>, Ordered}
  ELSE tasks = Ordered

(* The events that were written, and those that every source still had.    *)
Counted ==
  /\ Len(tree) = i /\ (NumSources = 0 => i = 0)
  /\ pc \in {"setup", "open"} => i = 0
  /\ pc = "event" => (entries >= 0 => i <= entries)
  /\ pc \in {"read", "tasks", "execute"} => BelowLimit

AtRecord ==
  /\ \A s \in Sources : i <= record[s] /\ record[s] <= length[s]
  /\ pc \in {"setup", "open", "event"} => \A s \in Sources : record[s] = i
  /\ pc = "read" =>
       /\ flag = (source > 1)
       /\ \A s \in Sources : record[s] = IF s < source THEN i + 1 ELSE i
  /\ pc \in {"tasks", "execute"} => NumSources # 0 /\ \A s \in Sources : record[s] = i + 1

WhileRead ==
  pc = "read" =>
    /\ cats["Raw"].objects = [f \in Fibers |-> RawUpTo(f, i + 1, source - 1)]
    /\ cats["Cal"].objects = NoObjects /\ cats["Hit"].objects = NoObjects
    /\ \A c \in CatNames : ~cats[c].sealed

(* The calibrator has finished from task 2 on, the hit finder at task 3.   *)
CalSoFar ==
  IF task = 1 THEN IF pc = "execute" THEN Made(RawAll(i + 1), RawAll(i + 1), obj) ELSE NoObjects
  ELSE RawAll(i + 1)
HitSoFar ==
  CASE task = 1 -> NoObjects
    [] task = 2 -> IF pc = "execute" THEN Made(RawAll(i + 1), HitAll(zeros, i + 1), obj) ELSE NoObjects
    [] OTHER -> HitAll(zeros, i + 1)

WhileProcessed ==
  pc \in {"tasks", "execute"} =>
    /\ cats["Raw"].objects = RawAll(i + 1)
    /\ cats["Cal"].objects = CalSoFar /\ cats["Hit"].objects = HitSoFar
    /\ task = 1 => ~cats["Cal"].sealed
    /\ task # 3 => ~cats["Hit"].sealed
    /\ pc = "execute" => task # 3 /\ size = Cardinality(Present(RawAll(i + 1))) /\ obj <= size

(* The events of the tree, with exactly the hits the program finds.        *)
EventsExact ==
  \A n \in DOMAIN tree : \A f \in Fibers :
    /\ tree[n]["Raw"][f] = RawOf(f, n)
    /\ tree[n]["Cal"][f] = RawOf(f, n)
    /\ tree[n]["Hit"][f] = HitOf(zeros, f, n)

Inv ==
  /\ TypeOK /\ TasksInOrder /\ Counted /\ AtRecord /\ WhileRead /\ WhileProcessed
  /\ EventsExact /\ AllEventsWritten /\ NeverWritesCompressed

LEMMA TasksFacts ==
  /\ Cardinality(Tasks) = 2 /\ Ordered \in Seq(Tasks) /\ Len(Ordered) = 2
  /\ Ordered[1] = "Calibrator" /\ Ordered[2] = "HitFinder"
<1>1. Cardinality({"Calibrator"}) = 1 /\ IsFiniteSet({"Calibrator"})
  BY FS_Singleton
<1>2. Tasks = {"Calibrator"} \cup {"HitFinder"}
  BY DEF Tasks
<1>3. Cardinality(Tasks) = 2
  BY <1>1, <1>2, FS_AddElement
<1> QED BY <1>3 DEF Tasks, Ordered

LEMMA FibresCounted == Cardinality(Fibers) \in Nat
BY FibersAssumption, FS_CardinalityType

LEMMA NoObjectsTyped == NoObjects \in [Fibers -> Objects \cup {NoObject}]
BY DEF NoObjects

LEMMA InitInv == Init => Inv
<1> SUFFICES ASSUME Init PROVE Inv
  OBVIOUS
<1> USE DEF Init
<1>1. TypeOK
  <2>1. cats \in [CatNames -> [objects : [Fibers -> Objects \cup {NoObject}], sealed : BOOLEAN]]
    BY NoObjectsTyped
  <2>2. record \in [Sources -> 0 .. MaxRecords] /\ i \in 0 .. MaxRecords
    BY MaxRecordsAssumption
  <2>3. tasks \in Seq(Tasks) /\ tree \in Seq([CatNames -> [Fibers -> Objects \cup {NoObject}]])
    OBVIOUS
  <2>4. /\ size \in 0 .. Cardinality(Fibers) /\ obj \in 0 .. Cardinality(Fibers)
        /\ task \in 1 .. Cardinality(Tasks) + 1 /\ source \in 1 .. NumSources + 1
    BY TasksFacts, FibresCounted, NumSourcesAssumption
  <2> QED BY <2>1, <2>2, <2>3, <2>4 DEF TypeOK
<1>2. TasksInOrder
  BY DEF TasksInOrder
<1>3. Counted
  BY DEF Counted
<1>4. AtRecord
  BY <1>1, MaxRecordsAssumption DEF AtRecord, TypeOK
<1>5. EventsExact /\ AllEventsWritten /\ NeverWritesCompressed
  BY DEF EventsExact, AllEventsWritten, NeverWritesCompressed
<1> QED BY <1>1, <1>2, <1>3, <1>4, <1>5 DEF Inv, WhileRead, WhileProcessed

(* One element put into a sequence of at most one.                         *)
LEMMA Insertions ==
  ASSUME NEW a, NEW b
  PROVE  /\ SubSeq(<<>>, 1, 0) \o <<a>> \o SubSeq(<<>>, 1, 0) = <<a>>
         /\ SubSeq(<<a>>, 1, 1) \o <<b>> \o SubSeq(<<a>>, 2, 1) = <<a, b>>
         /\ SubSeq(<<b>>, 1, 0) \o <<a>> \o SubSeq(<<b>>, 1, 1) = <<a, b>>
<1> DEFINE S == {a, b}
<1>1. <<>> \in Seq(S) /\ <<a>> \in Seq(S) /\ <<b>> \in Seq(S) /\ <<a, b>> \in Seq(S)
  OBVIOUS
<1>2. Len(<<a>>) = 1 /\ Len(<<b>>) = 1 /\ Len(<<a, b>>) = 2
      /\ <<a, b>>[1] = a /\ <<a, b>>[2] = b /\ <<a>>[1] = a /\ <<b>>[1] = b
  OBVIOUS
<1> HIDE DEF S
<1>3. SubSeq(<<>>, 1, 0) = <<>> /\ SubSeq(<<a>>, 2, 1) = <<>> /\ SubSeq(<<b>>, 1, 0) = <<>>
  BY SubSeqEmpty
<1>4. SubSeq(<<a>>, 1, 1) = <<a>> /\ SubSeq(<<b>>, 1, 1) = <<b>>
  BY <1>1, <1>2, SubSeqFull
<1>5. <<a>> \o <<b>> = <<a, b>>
  <2>1. PICK u : u = <<a>> \o <<b>>
    OBVIOUS
  <2>2. u \in Seq(S) /\ Len(u) = 2 /\ u[1] = a /\ u[2] = b
    BY <1>1, <1>2, <2>1, ConcatProperties
  <2>3. PICK v : v = <<a, b>>
    OBVIOUS
  <2>4. v \in Seq(S) /\ Len(v) = 2 /\ v[1] = a /\ v[2] = b
    BY <1>1, <1>2, <2>3
  <2>5. u = v
    BY <2>2, <2>4, SeqEqual
  <2> QED BY <2>1, <2>3, <2>5
<1>6. <<>> \o <<a>> = <<a>> /\ <<a>> \o <<>> = <<a>> /\ <<a, b>> \o <<>> = <<a, b>>
  BY <1>1, ConcatEmptySeq
<1> QED BY <1>3, <1>4, <1>5, <1>6

(* addTask keeps the tasks in the order of their steps.                    *)
LEMMA AddTaskOrdered ==
  ASSUME Inv, NEW t \in Tasks, AddTask(t)
  PROVE  tasks' \in {<<"Calibrator">>, <<"HitFinder">>, Ordered}
<1> DEFINE before == {k \in DOMAIN tasks : Step[tasks[k]] <= Step[t]}
<1>1. PICK n : n = Cardinality(before)
  OBVIOUS
<1>2. /\ tasks \in {<<>>, <<"Calibrator">>, <<"HitFinder">>, Ordered}
      /\ \A k \in DOMAIN tasks : tasks[k] # t
      /\ tasks' = SubSeq(tasks, 1, n) \o <<t>> \o SubSeq(tasks, n + 1, Len(tasks))
  BY <1>1 DEF Inv, TasksInOrder, AddTask
<1>3. Step["Calibrator"] = 1 /\ Step["HitFinder"] = 2 /\ t \in {"Calibrator", "HitFinder"}
  BY DEF Step, Tasks
<1>4. Cardinality({}) = 0 /\ Cardinality({1}) = 1
  BY FS_EmptySet, FS_Singleton
<1>5. CASE tasks = <<>>
  <2>1. before = {}
    BY <1>5
  <2>2. n = 0 /\ Len(tasks) = 0
    BY <1>1, <1>4, <1>5, <2>1
  <2>3. tasks' = SubSeq(<<>>, 1, 0) \o <<t>> \o SubSeq(<<>>, 1, 0)
    BY <1>2, <1>5, <2>2
  <2>4. tasks' = <<t>>
    BY <2>3, Insertions
  <2> QED BY <1>3, <2>4
<1>6. CASE tasks = <<"Calibrator">>
  <2>1. DOMAIN tasks = {1} /\ tasks[1] = "Calibrator" /\ Len(tasks) = 1
    BY <1>6
  <2>2. t = "HitFinder"
    BY <1>2, <1>3, <2>1
  <2>3. before = {1}
    BY <1>3, <2>1, <2>2
  <2>4. n = 1
    BY <1>1, <1>4, <2>3
  <2>5. tasks' = SubSeq(<<"Calibrator">>, 1, 1) \o <<"HitFinder">> \o SubSeq(<<"Calibrator">>, 2, 1)
    BY <1>2, <1>6, <2>1, <2>2, <2>4
  <2>6. tasks' = <<"Calibrator", "HitFinder">>
    BY <2>5, Insertions
  <2> QED BY <2>6 DEF Ordered
<1>7. CASE tasks = <<"HitFinder">>
  <2>1. DOMAIN tasks = {1} /\ tasks[1] = "HitFinder" /\ Len(tasks) = 1
    BY <1>7
  <2>2. t = "Calibrator"
    BY <1>2, <1>3, <2>1
  <2>3. before = {}
    BY <1>3, <2>1, <2>2
  <2>4. n = 0
    BY <1>1, <1>4, <2>3
  <2>5. tasks' = SubSeq(<<"HitFinder">>, 1, 0) \o <<"Calibrator">> \o SubSeq(<<"HitFinder">>, 1, 1)
    BY <1>2, <1>7, <2>1, <2>2, <2>4
  <2>6. tasks' = <<"Calibrator", "HitFinder">>
    BY <2>5, Insertions
  <2> QED BY <2>6 DEF Ordered
<1>8. CASE tasks = Ordered
  <2>1. DOMAIN tasks = 1 .. 2 /\ tasks[1] = "Calibrator" /\ tasks[2] = "HitFinder"
    BY <1>8, TasksFacts DEF Ordered
  <2> QED BY <1>2, <1>3, <2>1
<1> QED BY <1>2, <1>5, <1>6, <1>7, <1>8
-----------------------------------------------------------------------------
(* Part 5: the invariant under each action.                                *)
LEMMA AddTaskInv ==
  ASSUME Inv, NEW t \in Tasks, AddTask(t)
  PROVE  Inv'
<1>1. /\ pc = "setup" /\ tasks' \in {<<"Calibrator">>, <<"HitFinder">>, Ordered}
      /\ UNCHANGED <<pc, entries, length, zeros, record, i, source, flag, taskVars, cats, tree>>
  BY AddTaskOrdered DEF AddTask
<1> USE DEF Inv
<1>2. tasks' \in Seq(Tasks)
  BY <1>1, TasksFacts DEF Tasks
<1>3. TypeOK' /\ TasksInOrder'
  BY <1>1, <1>2 DEF TypeOK, TasksInOrder, taskVars
<1>4. Counted' /\ AtRecord'
  BY <1>1 DEF Counted, AtRecord, BelowLimit
<1>5. WhileRead' /\ WhileProcessed'
  BY <1>1 DEF WhileRead, WhileProcessed
<1>6. EventsExact' /\ AllEventsWritten' /\ NeverWritesCompressed'
  BY <1>1 DEF EventsExact, AllEventsWritten, NeverWritesCompressed
<1> QED BY <1>3, <1>4, <1>5, <1>6

LEMMA StartLoopInv ==
  ASSUME Inv, StartLoop
  PROVE  Inv'
<1> USE DEF Inv, StartLoop
<1>1. TypeOK'
  BY DEF TypeOK, taskVars
<1>2. TasksInOrder'
  <2>1. Len(<<>>) = 0 /\ Len(<<"Calibrator">>) = 1 /\ Len(<<"HitFinder">>) = 1
    OBVIOUS
  <2>2. Len(tasks) = 2
    BY TasksFacts
  <2> QED BY <2>1, <2>2 DEF TasksInOrder
<1>3. Counted'
  BY DEF Counted, BelowLimit
<1>4. AtRecord'
  BY DEF AtRecord
<1>5. WhileRead'
  BY DEF WhileRead
<1>6. WhileProcessed'
  BY DEF WhileProcessed, CalSoFar, HitSoFar
<1>7. EventsExact'
  BY DEF EventsExact
<1>8. AllEventsWritten'
  BY DEF AllEventsWritten
<1>9. NeverWritesCompressed'
  BY DEF NeverWritesCompressed
<1> QED BY <1>1, <1>2, <1>3, <1>4, <1>5, <1>6, <1>7, <1>8, <1>9

LEMMA OpenSourceInv ==
  ASSUME Inv, OpenSource
  PROVE  Inv'
<1> USE DEF Inv, OpenSource
<1>1. TypeOK'
  BY NumSourcesAssumption DEF TypeOK, taskVars
<1>2. TasksInOrder'
  BY DEF TasksInOrder
<1>3. Counted'
  BY DEF Counted, BelowLimit
<1>4. AtRecord'
  BY DEF AtRecord
<1>5. WhileRead'
  BY DEF WhileRead
<1>6. WhileProcessed'
  BY DEF WhileProcessed, CalSoFar, HitSoFar
<1>7. EventsExact'
  BY DEF EventsExact
<1>8. AllEventsWritten'
  BY DEF AllEventsWritten
<1>9. NeverWritesCompressed'
  BY DEF NeverWritesCompressed
<1> QED BY <1>1, <1>2, <1>3, <1>4, <1>5, <1>6, <1>7, <1>8, <1>9

LEMMA OpenFailsInv ==
  ASSUME Inv, OpenFails
  PROVE  Inv'
<1> USE DEF Inv, OpenFails
<1>1. TypeOK'
  BY DEF TypeOK, Outcomes, taskVars
<1>2. TasksInOrder'
  BY DEF TasksInOrder
<1>3. Counted'
  BY DEF Counted, BelowLimit
<1>4. AtRecord'
  BY DEF AtRecord
<1>5. WhileRead'
  BY DEF WhileRead
<1>6. WhileProcessed'
  BY DEF WhileProcessed, CalSoFar, HitSoFar
<1>7. EventsExact'
  BY DEF EventsExact
<1>8. AllEventsWritten'
  BY DEF AllEventsWritten
<1>9. NeverWritesCompressed'
  BY DEF NeverWritesCompressed
<1> QED BY <1>1, <1>2, <1>3, <1>4, <1>5, <1>6, <1>7, <1>8, <1>9

LEMMA AllOpenedInv ==
  ASSUME Inv, AllOpened
  PROVE  Inv'
<1> USE DEF Inv, AllOpened
<1>1. TypeOK'
  BY DEF TypeOK, taskVars
<1>2. TasksInOrder'
  BY DEF TasksInOrder
<1>3. Counted'
  BY LimitsAssumption DEF Counted, BelowLimit, TypeOK
<1>4. AtRecord'
  BY DEF AtRecord
<1>5. WhileRead'
  BY DEF WhileRead
<1>6. WhileProcessed'
  BY DEF WhileProcessed, CalSoFar, HitSoFar
<1>7. EventsExact'
  BY DEF EventsExact
<1>8. AllEventsWritten'
  BY DEF AllEventsWritten
<1>9. NeverWritesCompressed'
  BY DEF NeverWritesCompressed
<1> QED BY <1>1, <1>2, <1>3, <1>4, <1>5, <1>6, <1>7, <1>8, <1>9

LEMMA LimitReachedInv ==
  ASSUME Inv, LimitReached
  PROVE  Inv'
<1> USE DEF Inv, LimitReached
<1>1. TypeOK'
  BY DEF TypeOK, taskVars
<1>2. TasksInOrder'
  BY DEF TasksInOrder
<1>3. Counted'
  BY DEF Counted, BelowLimit
<1>4. AtRecord'
  BY DEF AtRecord
<1>5. WhileRead'
  BY DEF WhileRead
<1>6. WhileProcessed'
  BY DEF WhileProcessed, CalSoFar, HitSoFar
<1>7. EventsExact'
  BY DEF EventsExact
<1>8. AllEventsWritten'
  BY LimitsAssumption DEF AllEventsWritten, AtRecord, Counted, TypeOK, BelowLimit
<1>9. NeverWritesCompressed'
  BY DEF NeverWritesCompressed
<1> QED BY <1>1, <1>2, <1>3, <1>4, <1>5, <1>6, <1>7, <1>8, <1>9

LEMMA SourceEndsInv ==
  ASSUME Inv, SourceEnds
  PROVE  Inv'
<1> USE DEF Inv, SourceEnds
<1>1. TypeOK'
  BY DEF TypeOK, taskVars
<1>2. TasksInOrder'
  BY DEF TasksInOrder
<1>3. Counted'
  BY DEF Counted, BelowLimit
<1>4. AtRecord'
  BY DEF AtRecord
<1>5. WhileRead'
  BY DEF WhileRead
<1>6. WhileProcessed'
  BY DEF WhileProcessed, CalSoFar, HitSoFar
<1>7. EventsExact'
  BY DEF EventsExact
<1>8. AllEventsWritten'
  <2>1. source \in Sources /\ record[source] = i /\ record[source] >= length[source]
    BY DEF AtRecord, TypeOK, Sources
  <2>2. /\ i \in Nat /\ entries \in Int /\ Len(tree) = i
        /\ \A s \in Sources : record[s] \in Nat /\ length[s] \in Nat /\ i <= record[s] /\ record[s] <= length[s]
    BY LimitsAssumption DEF AtRecord, Counted, TypeOK
  <2>3. i = length[source] /\ \A s \in Sources : i <= length[s]
    BY <2>1, <2>2
  <2>4. entries >= 0 => i <= entries
    BY <2>2 DEF Counted, BelowLimit
  <2> QED BY <2>1, <2>2, <2>3, <2>4 DEF AllEventsWritten
<1>9. NeverWritesCompressed'
  BY DEF NeverWritesCompressed
<1> QED BY <1>1, <1>2, <1>3, <1>4, <1>5, <1>6, <1>7, <1>8, <1>9

LEMMA EventReadInv ==
  ASSUME Inv, EventRead
  PROVE  Inv'
<1> USE DEF Inv, EventRead
<1>0. /\ source = NumSources + 1 /\ flag = (NumSources # 0)
      /\ i \in Nat /\ entries \in Int /\ Len(tree) = i
  BY NumSourcesAssumption, LimitsAssumption DEF TypeOK, AtRecord, Counted
<1>1. TypeOK'
  BY TasksFacts DEF TypeOK
<1>2. TasksInOrder'
  BY DEF TasksInOrder
<1>3. Counted'
  BY DEF Counted, BelowLimit
<1>4. AtRecord'
  <2>1. \A s \in Sources : s < source
    BY <1>0, NumSourcesAssumption DEF Sources
  <2>2. \A s \in Sources : record[s] = i + 1
    BY <2>1 DEF AtRecord
  <2> QED BY <1>0, <2>2 DEF AtRecord
<1>5. WhileRead'
  BY DEF WhileRead
<1>6. WhileProcessed'
  <2>1. source - 1 = NumSources
    BY <1>0, NumSourcesAssumption
  <2>2. cats["Raw"].objects = RawAll(i + 1)
    BY <2>1, RawOfIsUpTo DEF WhileRead, RawAll
  <2>3. ~cats["Cal"].sealed /\ ~cats["Hit"].sealed
        /\ cats["Cal"].objects = NoObjects /\ cats["Hit"].objects = NoObjects
    BY DEF WhileRead, CatNames
  <2>4. task' = 1 /\ cats' = cats /\ i' = i /\ pc' # "execute"
    OBVIOUS
  <2> QED BY <2>2, <2>3, <2>4 DEF WhileProcessed, CalSoFar, HitSoFar
<1>7. EventsExact'
  BY DEF EventsExact
<1>8. AllEventsWritten'
  <2>1. CASE flag
    BY <2>1 DEF AllEventsWritten
  <2>2. CASE ~flag
    <3>1. NumSources = 0 /\ i = 0
      BY <1>0, <2>2 DEF Counted
    <3> QED BY <1>0, <3>1 DEF AllEventsWritten, Sources
  <2> QED BY <2>1, <2>2
<1>9. NeverWritesCompressed'
  BY DEF NeverWritesCompressed
<1> QED BY <1>1, <1>2, <1>3, <1>4, <1>5, <1>6, <1>7, <1>8, <1>9

LEMMA TaskFailsInv ==
  ASSUME Inv, TaskFails
  PROVE  Inv'
<1> USE DEF Inv, TaskFails
<1>1. TypeOK'
  BY DEF TypeOK, Outcomes, taskVars
<1>2. TasksInOrder'
  BY DEF TasksInOrder
<1>3. Counted'
  BY DEF Counted, BelowLimit
<1>4. AtRecord'
  BY DEF AtRecord
<1>5. WhileRead'
  BY DEF WhileRead
<1>6. WhileProcessed'
  BY DEF WhileProcessed, CalSoFar, HitSoFar
<1>7. EventsExact'
  BY DEF EventsExact
<1>8. AllEventsWritten'
  BY DEF AllEventsWritten
<1>9. NeverWritesCompressed'
  BY DEF NeverWritesCompressed
<1> QED BY <1>1, <1>2, <1>3, <1>4, <1>5, <1>6, <1>7, <1>8, <1>9

LEMMA SaveInv ==
  ASSUME Inv, Save
  PROVE  Inv'
<1> USE DEF Inv, Save
<1>1. TypeOK'
  BY DEF TypeOK, Outcomes, taskVars
<1>2. TasksInOrder'
  BY DEF TasksInOrder
<1>3. Counted'
  BY DEF Counted, BelowLimit
<1>4. AtRecord'
  BY DEF AtRecord
<1>5. WhileRead'
  BY DEF WhileRead
<1>6. WhileProcessed'
  BY DEF WhileProcessed, CalSoFar, HitSoFar
<1>7. EventsExact'
  BY DEF EventsExact
<1>8. AllEventsWritten'
  BY DEF AllEventsWritten
<1>9. NeverWritesCompressed'
  BY DEF NeverWritesCompressed
<1> QED BY <1>1, <1>2, <1>3, <1>4, <1>5, <1>6, <1>7, <1>8, <1>9

LEMMA StartEventInv ==
  ASSUME Inv, StartEvent
  PROVE  Inv'
<1> USE DEF Inv, StartEvent
<1>1. TypeOK'
  <2>1. cats' \in [CatNames -> [objects : [Fibers -> Objects \cup {NoObject}], sealed : BOOLEAN]]
    <3>1. PICK X : X = [Fibers -> Objects \cup {NoObject}]
      OBVIOUS
    <3>2. PICK z : z = NoObjects
      OBVIOUS
    <3>5. z \in X
      BY <3>1, <3>2, NoObjectsTyped
    <3>3. cats' = [c \in CatNames |-> [objects |-> z, sealed |-> FALSE]]
      BY <3>2 DEF Clear
    <3>4. cats' \in [CatNames -> [objects : X, sealed : BOOLEAN]]
      BY <3>3, <3>5
    <3> QED BY <3>1, <3>4
  <2>2. pc' = "read" /\ flag' = FALSE /\ source' = 1 /\ 1 \in 1 .. NumSources + 1
    BY NumSourcesAssumption
  <2>3. UNCHANGED <<entries, length, zeros, record, tasks, i, task, size, obj, tree>>
    BY DEF taskVars
  <2> HIDE DEF StartEvent
  <2> QED BY <2>1, <2>2, <2>3 DEF TypeOK
<1>2. TasksInOrder'
  BY DEF TasksInOrder
<1>3. Counted'
  BY DEF Counted, BelowLimit
<1>4. AtRecord'
  <2>1. /\ source' = 1 /\ record' = record /\ i' = i /\ flag' = FALSE
        /\ length' = length /\ pc' = "read" /\ pc = "event"
    OBVIOUS
  <2>2. \A s \in Sources : ~(s < 1) /\ record[s] = i
    BY <2>1 DEF AtRecord, Sources
  <2>3. \A s \in Sources : i <= record[s] /\ record[s] <= length[s]
    BY DEF AtRecord
  <2>4. FALSE = (1 > 1)
    OBVIOUS
  <2> QED BY <2>1, <2>2, <2>3, <2>4 DEF AtRecord
<1>5. WhileRead'
  <2>1. cats' = [c \in CatNames |-> [objects |-> NoObjects, sealed |-> FALSE]] /\ source' = 1 /\ i' = i
    BY DEF Clear
  <2>2. NoObjects = [f \in Fibers |-> RawUpTo(f, i + 1, 0)]
    BY NothingRead DEF NoObjects
  <2>3. 1 - 1 = 0
    OBVIOUS
  <2> QED BY <2>1, <2>2, <2>3 DEF WhileRead, CatNames
<1>6. WhileProcessed'
  BY DEF WhileProcessed, CalSoFar, HitSoFar
<1>7. EventsExact'
  BY DEF EventsExact
<1>8. AllEventsWritten'
  BY DEF AllEventsWritten
<1>9. NeverWritesCompressed'
  BY DEF NeverWritesCompressed
<1> QED BY <1>1, <1>2, <1>3, <1>4, <1>5, <1>6, <1>7, <1>8, <1>9

LEMMA StartTaskInv ==
  ASSUME Inv, StartTask
  PROVE  Inv'
<1> USE DEF Inv, StartTask
<1>1. TypeOK'
  <2>1. size' \in 0 .. Cardinality(Fibers)
    BY PresentFinite, FibresCounted
  <2> QED BY <2>1, FibresCounted DEF TypeOK
<1>2. TasksInOrder'
  BY DEF TasksInOrder
<1>3. Counted'
  BY DEF Counted, BelowLimit
<1>4. AtRecord'
  BY DEF AtRecord
<1>5. WhileRead'
  BY DEF WhileRead
<1>6. WhileProcessed'
  <2>1. task \in {1, 2} /\ tasks = Ordered
    <3>1. tasks = Ordered
      BY DEF TasksInOrder
    <3>2. task \in 1 .. 3 /\ Len(tasks) = 2
      BY <3>1, TasksFacts DEF TypeOK
    <3> QED BY <3>1, <3>2
  <2>2. cats[Input[tasks[task]]].objects = RawAll(i + 1)
    <3>1. CASE task = 1
      BY <2>1, <3>1, TasksFacts DEF WhileProcessed, Input
    <3>2. CASE task = 2
      BY <2>1, <3>2, TasksFacts DEF WhileProcessed, Input, CalSoFar
    <3> QED BY <2>1, <3>1, <3>2
  <2>3. size' = Cardinality(Present(RawAll(i + 1))) /\ size' \in Nat
    BY <2>2, PresentFinite
  <2>4. /\ pc = "tasks" /\ pc' = "execute" /\ obj' = 0 /\ i' = i /\ task' = task /\ cats' = cats
    OBVIOUS
  <2>5. CalSoFar' = CalSoFar
    BY <2>1, <2>4, NothingMade DEF CalSoFar
  <2>6. HitSoFar' = HitSoFar
    <3>1. CASE task = 1
      BY <2>4, <3>1 DEF HitSoFar
    <3>2. CASE task = 2
      <4>1. HitSoFar = NoObjects
        BY <2>4, <3>2 DEF HitSoFar
      <4>2. HitSoFar' = Made(RawAll(i + 1), HitAll(zeros, i + 1), 0)
        BY <2>4, <3>2 DEF HitSoFar
      <4> QED BY <4>1, <4>2, NothingMade
    <3> QED BY <2>1, <3>1, <3>2
  <2>7. /\ cats["Raw"].objects = RawAll(i + 1)
        /\ cats["Cal"].objects = CalSoFar /\ cats["Hit"].objects = HitSoFar
        /\ task = 1 => ~cats["Cal"].sealed
        /\ task # 3 => ~cats["Hit"].sealed
    BY <2>4 DEF WhileProcessed
  <2>8. task # 3 /\ obj' <= size'
    BY <2>1, <2>3, <2>4
  <2> QED BY <2>3, <2>4, <2>5, <2>6, <2>7, <2>8 DEF WhileProcessed
<1>7. EventsExact'
  BY DEF EventsExact
<1>8. AllEventsWritten'
  BY DEF AllEventsWritten
<1>9. NeverWritesCompressed'
  BY DEF NeverWritesCompressed
<1> QED BY <1>1, <1>2, <1>3, <1>4, <1>5, <1>6, <1>7, <1>8, <1>9

LEMMA TaskDoneInv ==
  ASSUME Inv, TaskDone
  PROVE  Inv'
<1> USE DEF Inv, TaskDone
<1>1. TypeOK'
  <2>1. task' \in 1 .. Cardinality(Tasks) + 1
    BY TasksFacts DEF TypeOK, WhileProcessed
  <2> QED BY <2>1 DEF TypeOK
<1>2. TasksInOrder'
  BY DEF TasksInOrder
<1>3. Counted'
  BY DEF Counted, BelowLimit
<1>4. AtRecord'
  BY DEF AtRecord
<1>5. WhileRead'
  BY DEF WhileRead
<1>6. WhileProcessed'
  <2>1. task \in {1, 2} /\ pc = "execute" /\ obj = Cardinality(Present(RawAll(i + 1)))
    <3>1. size = Cardinality(Present(RawAll(i + 1))) /\ obj <= size /\ obj >= size /\ task # 3
      BY DEF WhileProcessed
    <3>2. size \in Nat /\ obj \in Nat
      BY FibresCounted DEF TypeOK
    <3> QED BY <3>1, <3>2, TasksFacts DEF TypeOK
  <2>2. task' = task + 1 /\ pc' = "tasks" /\ cats' = cats /\ i' = i
    OBVIOUS
  <2>3. /\ cats["Raw"].objects = RawAll(i + 1)
        /\ cats["Cal"].objects = CalSoFar /\ cats["Hit"].objects = HitSoFar
        /\ ~cats["Hit"].sealed
    BY <2>1 DEF WhileProcessed
  <2>4. CASE task = 1
    <3>1. Made(RawAll(i + 1), RawAll(i + 1), obj) = RawAll(i + 1)
      BY <2>1, AllMade DEF RawAll, Present
    <3>2. CalSoFar = RawAll(i + 1) /\ CalSoFar' = RawAll(i + 1)
      BY <2>1, <2>2, <2>4, <3>1 DEF CalSoFar
    <3>3. HitSoFar = NoObjects /\ HitSoFar' = NoObjects
      BY <2>1, <2>2, <2>4 DEF HitSoFar
    <3> QED BY <2>2, <2>3, <2>4, <3>2, <3>3 DEF WhileProcessed
  <2>5. CASE task = 2
    <3>1. Made(RawAll(i + 1), HitAll(zeros, i + 1), obj) = HitAll(zeros, i + 1)
      BY <2>1, HitsOfNothing, AllMade DEF HitAll
    <3>2. CalSoFar = RawAll(i + 1) /\ CalSoFar' = RawAll(i + 1)
      BY <2>1, <2>2, <2>5 DEF CalSoFar
    <3>3. HitSoFar = HitAll(zeros, i + 1) /\ HitSoFar' = HitAll(zeros, i + 1)
      BY <2>1, <2>2, <2>5, <3>1 DEF HitSoFar
    <3> QED BY <2>2, <2>3, <2>5, <3>2, <3>3 DEF WhileProcessed
  <2> QED BY <2>1, <2>4, <2>5
<1>7. EventsExact'
  BY DEF EventsExact
<1>8. AllEventsWritten'
  BY DEF AllEventsWritten
<1>9. NeverWritesCompressed'
  BY DEF NeverWritesCompressed
<1> QED BY <1>1, <1>2, <1>3, <1>4, <1>5, <1>6, <1>7, <1>8, <1>9
-----------------------------------------------------------------------------
(* Part 6: the actions that write the categories.                          *)
CatsType == [CatNames -> [objects : [Fibers -> Objects \cup {NoObject}], sealed : BOOLEAN]]

Write(cs, c, f, o) == [cs EXCEPT ![c].objects[f] = o]
Compress(cs, c) == [cs EXCEPT ![c].sealed = TRUE]

(* One object of one category is written.                                  *)
LEMMA Written ==
  ASSUME NEW cs \in CatsType, NEW c \in CatNames, NEW f \in Fibers,
         NEW o \in Objects \cup {NoObject}, NEW new, new = Write(cs, c, f, o)
  PROVE  /\ new \in CatsType
         /\ new[c].objects = [cs[c].objects EXCEPT ![f] = o]
         /\ new[c].sealed = cs[c].sealed
         /\ \A d \in CatNames \ {c} : new[d] = cs[d]
<1>1. PICK X : X = Objects \cup {NoObject}
  OBVIOUS
<1>2. cs \in [CatNames -> [objects : [Fibers -> X], sealed : BOOLEAN]] /\ o \in X
  BY <1>1 DEF CatsType
<1>3. PICK os : os = [cs[c].objects EXCEPT ![f] = o]
  OBVIOUS
<1>4. os \in [Fibers -> X]
  BY <1>2, <1>3
<1>5. PICK e : e = [cs[c] EXCEPT !.objects = os]
  OBVIOUS
<1>6. e \in [objects : [Fibers -> X], sealed : BOOLEAN] /\ e.objects = os /\ e.sealed = cs[c].sealed
  BY <1>2, <1>4, <1>5
<1>7. new = [cs EXCEPT ![c] = e]
  BY <1>3, <1>5 DEF Write
<1>8. new \in [CatNames -> [objects : [Fibers -> X], sealed : BOOLEAN]]
  BY <1>2, <1>6, <1>7
<1>9. new[c] = e /\ \A d \in CatNames \ {c} : new[d] = cs[d]
  BY <1>2, <1>7
<1> QED BY <1>1, <1>3, <1>6, <1>8, <1>9 DEF CatsType

(* One category is compressed.                                             *)
LEMMA Compressed ==
  ASSUME NEW cs \in CatsType, NEW c \in CatNames, NEW new, new = Compress(cs, c)
  PROVE  /\ new \in CatsType
         /\ new[c] = [objects |-> cs[c].objects, sealed |-> TRUE]
         /\ \A d \in CatNames \ {c} : new[d] = cs[d]
<1>1. PICK X : X = [Fibers -> Objects \cup {NoObject}]
  OBVIOUS
<1>2. cs \in [CatNames -> [objects : X, sealed : BOOLEAN]]
  BY <1>1 DEF CatsType
<1>3. PICK e : e = [cs[c] EXCEPT !.sealed = TRUE]
  OBVIOUS
<1>4. e \in [objects : X, sealed : BOOLEAN] /\ e = [objects |-> cs[c].objects, sealed |-> TRUE]
  BY <1>2, <1>3
<1>5. new = [cs EXCEPT ![c] = e]
  BY <1>3 DEF Compress
<1>6. new \in [CatNames -> [objects : X, sealed : BOOLEAN]]
  BY <1>2, <1>4, <1>5
<1>7. new[c] = e /\ \A d \in CatNames \ {c} : new[d] = cs[d]
  BY <1>2, <1>5
<1> QED BY <1>1, <1>4, <1>6, <1>7 DEF CatsType

(* One category is left alone, compressed, or given one object before it   *)
(* was compressed.                                                         *)
CategoryStep(c) ==
  \/ cats'[c] = cats[c]
  \/ cats'[c].objects = cats[c].objects /\ cats'[c].sealed = TRUE
  \/ /\ ~cats[c].sealed /\ cats'[c].sealed = cats[c].sealed
     /\ \E f \in Fibers, o \in Objects : cats'[c].objects = [cats[c].objects EXCEPT ![f] = o]

(* The calibrator has looked at an object, and the program ends.           *)
LEMMA CalibrationMissingInv ==
  ASSUME Inv, CalibrationMissing
  PROVE  Inv' /\ UNCHANGED tree /\ \A c \in CatNames : CategoryStep(c)
<1> USE DEF Inv
<1>1. /\ pc = "execute" /\ pc' = "aborted" /\ cats' = Compress(cats, "Raw")
      /\ UNCHANGED <<entries, length, zeros, record, tasks, i, source, flag, task, size, obj, tree>>
  BY DEF CalibrationMissing, Compress, taskVars
<1>2. cats \in CatsType /\ "Raw" \in CatNames
  BY DEF TypeOK, CatsType, CatNames
<1>3. PICK new : new = Compress(cats, "Raw")
  OBVIOUS
<1>4. /\ new \in CatsType /\ new["Raw"] = [objects |-> cats["Raw"].objects, sealed |-> TRUE]
      /\ \A d \in CatNames \ {"Raw"} : new[d] = cats[d]
  <2> HIDE DEF Inv
  <2> QED BY <1>2, <1>3, Compressed
<1>5. TypeOK'
  BY <1>1, <1>3, <1>4 DEF TypeOK, CatsType, Outcomes
<1>6. TasksInOrder' /\ Counted' /\ AtRecord' /\ WhileRead' /\ WhileProcessed'
  BY <1>1 DEF TasksInOrder, Counted, AtRecord, WhileRead, WhileProcessed
<1>7. EventsExact' /\ AllEventsWritten' /\ NeverWritesCompressed'
  BY <1>1 DEF EventsExact, AllEventsWritten, NeverWritesCompressed
<1>8. \A c \in CatNames : CategoryStep(c)
  BY <1>1, <1>3, <1>4 DEF CategoryStep
<1> QED BY <1>1, <1>5, <1>6, <1>7, <1>8

(* Reading is the only action between two events that can write a category *)
(* again, and none has been read by a task since they were cleared.        *)
LEMMA ReadSourceInv ==
  ASSUME Inv, ReadSource
  PROVE  Inv' /\ UNCHANGED tree /\ \A c \in CatNames : CategoryStep(c)
<1> USE DEF Inv
<1>1. PICK s : s = source - 1
  OBVIOUS
<1>2. /\ pc = "read" /\ s \in Nat /\ source = s + 1 /\ s + 1 \in Sources
      /\ i \in Nat /\ record[source] = i /\ i < length[source]
  <2>1. source \in 1 .. NumSources /\ pc = "read" /\ record[source] < length[source]
    BY NumSourcesAssumption DEF TypeOK, ReadSource
  <2>2. record[source] = i /\ i \in Nat
    BY <2>1 DEF AtRecord, TypeOK, Sources
  <2> QED BY <1>1, <2>1, <2>2 DEF Sources
<1>3. PICK f \in Fibers, side \in Sides : Channel[s + 1] = <<f, side>>
  BY <1>2, ChannelAssumption
<1>4. PICK n : n = i + 1
  OBVIOUS
<1>5. n \in 1 .. MaxRecords /\ n <= length[source]
  BY <1>2, <1>4, MaxRecordsAssumption DEF TypeOK, Sources
<1>5a. /\ \A g \in Fibers \ {f} : RawUpTo(g, n, s + 1) = RawUpTo(g, n, s)
       /\ RawUpTo(f, n, s + 1) =
            [IF RawUpTo(f, n, s) = NoObject THEN [d \in Sides |-> NoRecord]
                                            ELSE RawUpTo(f, n, s) EXCEPT ![side] = n]
  BY <1>2, <1>3, <1>5, NextSource
<1>6. cats \in CatsType /\ cats["Raw"].objects = [g \in Fibers |-> RawUpTo(g, n, s)] /\ ~cats["Raw"].sealed
  BY <1>1, <1>2, <1>4 DEF TypeOK, CatsType, WhileRead, CatNames
<1>7. PICK old : old = RawUpTo(f, n, s)
  OBVIOUS
<1>8. CurrentObject("Raw", f) = IF old = NoObject THEN [d \in Sides |-> NoRecord] ELSE old
  BY <1>3, <1>6, <1>7 DEF CurrentObject
<1>9. PICK o : o = RawUpTo(f, n, s + 1)
  OBVIOUS
<1>10. o = [CurrentObject("Raw", f) EXCEPT ![side] = n]
  BY <1>7, <1>8, <1>9, <1>5a
<1>11. /\ cats' = [cats EXCEPT !["Raw"].objects[f] = o]
       /\ record' = [record EXCEPT ![source] = @ + 1]
       /\ flag' = TRUE /\ source' = source + 1
       /\ UNCHANGED <<pc, entries, length, zeros, tasks, i, task, size, obj, tree>>
  BY <1>2, <1>3, <1>4, <1>6, <1>10 DEF ReadSource, HasSlot, taskVars
<1>12. o \in Objects \cup {NoObject}
  BY <1>5, <1>9, RawUpToIsObject
<1>13. /\ cats' \in CatsType
       /\ cats'["Raw"].objects = [cats["Raw"].objects EXCEPT ![f] = o]
       /\ cats'["Raw"].sealed = cats["Raw"].sealed
       /\ \A d \in CatNames \ {"Raw"} : cats'[d] = cats[d]
  <2>1. "Raw" \in CatNames
    BY DEF CatNames
  <2>2. PICK new : new = cats'
    OBVIOUS
  <2>3. new = Write(cats, "Raw", f, o)
    BY <1>11, <2>2 DEF Write
  <2> HIDE DEF Inv
  <2>4. /\ new \in CatsType
        /\ new["Raw"].objects = [cats["Raw"].objects EXCEPT ![f] = o]
        /\ new["Raw"].sealed = cats["Raw"].sealed
        /\ \A d \in CatNames \ {"Raw"} : new[d] = cats[d]
    BY <1>3, <1>6, <1>12, <2>1, <2>3, Written
  <2> QED BY <2>2, <2>4
<1>14. record' = [record EXCEPT ![source] = n] /\ record'[source] = n
       /\ \A r \in Sources : r # source => record'[r] = record[r]
  BY <1>2, <1>4, <1>11 DEF TypeOK
<1>15. TypeOK'
  <2>1. record' \in [Sources -> 0 .. MaxRecords]
    <3>1. n \in 0 .. MaxRecords /\ record \in [Sources -> 0 .. MaxRecords]
      BY <1>5, MaxRecordsAssumption DEF TypeOK
    <3> QED BY <1>14, <3>1
  <2>2. source' \in 1 .. NumSources + 1
    BY <1>2, <1>11, NumSourcesAssumption DEF Sources
  <2> QED BY <1>11, <1>13, <2>1, <2>2 DEF TypeOK, CatsType
<1>16. TasksInOrder' /\ Counted'
  BY <1>11 DEF TasksInOrder, Counted, BelowLimit
<1>17. AtRecord'
  <2>1. \A r \in Sources : i <= record'[r] /\ record'[r] <= length[r]
    BY <1>2, <1>4, <1>5, <1>14 DEF AtRecord
  <2>2. \A r \in Sources : record'[r] = IF r < source' THEN i + 1 ELSE i
    <3>1. \A r \in Sources : record[r] = IF r < source THEN i + 1 ELSE i
      BY <1>2 DEF AtRecord
    <3>2. \A r \in Sources : r < source' <=> r = source \/ r < source
      BY <1>2, <1>11 DEF Sources
    <3> QED BY <1>2, <1>4, <1>14, <3>1, <3>2
  <2>3. flag' = (source' > 1)
    <3>1. source' = s + 2 /\ s \in Nat
      BY <1>2, <1>11
    <3>2. source' > 1
      BY <3>1
    <3>3. flag' = TRUE
      BY <1>11
    <3> QED BY <3>2, <3>3
  <2> QED BY <1>2, <1>11, <2>1, <2>2, <2>3 DEF AtRecord
<1>18. WhileRead'
  <2>1. cats'["Raw"].objects = [g \in Fibers |-> RawUpTo(g, n, s + 1)]
    BY <1>3, <1>6, <1>9, <1>13, <1>5a
  <2>2. source' - 1 = s + 1 /\ i' + 1 = n
    BY <1>2, <1>4, <1>11
  <2>3. \A c \in CatNames : ~cats[c].sealed
    BY <1>2 DEF WhileRead
  <2>4. cats["Cal"].objects = NoObjects /\ cats["Hit"].objects = NoObjects
    BY <1>2 DEF WhileRead
  <2> QED BY <1>13, <2>1, <2>2, <2>3, <2>4 DEF WhileRead, CatNames
<1>19. WhileProcessed'
  BY <1>2, <1>11 DEF WhileProcessed
<1>20. EventsExact' /\ AllEventsWritten' /\ NeverWritesCompressed'
  BY <1>2, <1>11 DEF EventsExact, AllEventsWritten, NeverWritesCompressed
<1>21. \A c \in CatNames : CategoryStep(c)
  <2>1. o # NoObject
    BY <1>2, <1>3, <1>5, <1>9, MaxRecordsAssumption, NextIsObject
  <2>2. o \in Objects
    BY <1>12, <2>1
  <2> QED BY <1>3, <1>6, <1>13, <2>2 DEF CategoryStep
<1> QED BY <1>11, <1>15, <1>16, <1>17, <1>18, <1>19, <1>20, <1>21

(* fill: an event is written when both tasks are done with it.             *)
LEMMA FillInv ==
  ASSUME Inv, Fill
  PROVE  Inv'
<1> USE DEF Inv
<1>1. /\ pc = "tasks" /\ pc' = "event" /\ i' = i + 1
      /\ cats' = [c \in CatNames |-> [cats[c] EXCEPT !.sealed = TRUE]]
      /\ tree' = Append(tree, [c \in CatNames |-> cats[c].objects])
      /\ UNCHANGED <<entries, length, zeros, record, tasks, source, flag, task, size, obj>>
  BY DEF Fill, taskVars
<1>2. task = 3
  <2>1. Len(tasks) = 2 /\ task > Len(tasks)
    BY <1>1, TasksFacts DEF TasksInOrder, Fill
  <2>2. task \in 1 .. 3
    BY TasksFacts DEF TypeOK
  <2> QED BY <2>1, <2>2
<1>3. PICK e : e = [c \in CatNames |-> cats[c].objects]
  OBVIOUS
<1>4. e["Raw"] = RawAll(i + 1) /\ e["Cal"] = RawAll(i + 1) /\ e["Hit"] = HitAll(zeros, i + 1)
  BY <1>1, <1>2, <1>3 DEF WhileProcessed, CalSoFar, HitSoFar, CatNames
<1>5. NumSources # 0 /\ i \in Nat /\ Len(tree) = i /\ \A s \in Sources : record[s] = i + 1
  BY <1>1 DEF AtRecord, Counted, TypeOK
<1>6. i + 1 \in 0 .. MaxRecords
  <2>1. 1 \in Sources
    BY <1>5, NumSourcesAssumption DEF Sources
  <2> QED BY <1>5, <2>1 DEF TypeOK
<1> DEFINE Entries == [CatNames -> [Fibers -> Objects \cup {NoObject}]]
<1>7. tree \in Seq(Entries) /\ e \in Entries
  BY <1>3 DEF TypeOK
<1> HIDE DEF Entries
<1>8. PICK new : new = Append(tree, e)
  OBVIOUS
<1>9. /\ new \in Seq(Entries) /\ Len(new) = i + 1 /\ new[i + 1] = e
      /\ \A n \in 1 .. i : new[n] = tree[n]
  BY <1>5, <1>7, <1>8, AppendProperties
<1>10. tree' = new
  BY <1>1, <1>3, <1>8
<1>11. TypeOK'
  <2>1. cats' \in CatsType
    <3>1. PICK X : X = [Fibers -> Objects \cup {NoObject}]
      OBVIOUS
    <3>2. cats \in [CatNames -> [objects : X, sealed : BOOLEAN]]
      BY <3>1 DEF TypeOK
    <3>3. cats' \in [CatNames -> [objects : X, sealed : BOOLEAN]]
      BY <1>1, <3>2
    <3> QED BY <3>1, <3>3 DEF CatsType
  <2>2. tree' \in Seq([CatNames -> [Fibers -> Objects \cup {NoObject}]])
    BY <1>9, <1>10 DEF Entries
  <2> QED BY <1>1, <1>6, <2>1, <2>2 DEF TypeOK, CatsType
<1>12. TasksInOrder'
  BY <1>1 DEF TasksInOrder
<1>13. Counted'
  <2>1. entries \in Int /\ (entries >= 0 => i < entries)
    BY <1>1, LimitsAssumption DEF Counted, BelowLimit, TypeOK
  <2>2. Len(tree') = i'
    BY <1>1, <1>9, <1>10
  <2>3. entries' >= 0 => i' <= entries'
    BY <1>1, <1>5, <2>1
  <2> QED BY <1>1, <1>5, <2>2, <2>3 DEF Counted
<1>14. AtRecord'
  <2>1. \A s \in Sources : i' <= record'[s] /\ record'[s] <= length'[s] /\ record'[s] = i'
    BY <1>1, <1>5 DEF AtRecord
  <2> QED BY <1>1, <2>1 DEF AtRecord
<1>15. WhileRead' /\ WhileProcessed'
  BY <1>1 DEF WhileRead, WhileProcessed
<1>16. EventsExact'
  <2>1. \A n \in DOMAIN new : n = i + 1 \/ (n \in 1 .. i /\ n \in DOMAIN tree)
    BY <1>5, <1>7, <1>9
  <2>2. \A f \in Fibers : RawAll(i + 1)[f] = RawOf(f, i + 1) /\ HitAll(zeros, i + 1)[f] = HitOf(zeros, f, i + 1)
    BY DEF RawAll, HitAll
  <2>3. ASSUME NEW n \in DOMAIN new, NEW f \in Fibers
        PROVE  new[n]["Raw"][f] = RawOf(f, n) /\ new[n]["Cal"][f] = RawOf(f, n)
               /\ new[n]["Hit"][f] = HitOf(zeros, f, n)
    <3>1. CASE n = i + 1
      BY <1>4, <1>9, <2>2, <2>3, <3>1
    <3>2. CASE n \in 1 .. i /\ n \in DOMAIN tree
      BY <1>9, <2>3, <3>2 DEF EventsExact
    <3> QED BY <2>1, <2>3, <3>1, <3>2
  <2> QED BY <1>1, <1>10, <2>3 DEF EventsExact
<1>17. AllEventsWritten' /\ NeverWritesCompressed'
  BY <1>1 DEF AllEventsWritten, NeverWritesCompressed
<1> QED BY <1>11, <1>12, <1>13, <1>14, <1>15, <1>16, <1>17

(* What a task does with the next object of its input.                     *)
LEMMA ProcessFacts ==
  ASSUME Inv, ProcessObject
  PROVE  /\ pc = "execute" /\ pc' = pc /\ obj' = obj + 1 /\ task \in {1, 2} /\ obj \in Nat
         /\ obj + 1 <= size /\ size = Cardinality(Present(RawAll(i + 1)))
         /\ UNCHANGED <<entries, length, zeros, record, tasks, i, source, flag, task, size, tree>>
         /\ cats' \in CatsType
         /\ cats'["Raw"].objects = RawAll(i + 1)
         /\ cats'["Cal"].objects = CalSoFar' /\ cats'["Hit"].objects = HitSoFar'
         /\ task = 1 => ~cats'["Cal"].sealed
         /\ ~cats'["Hit"].sealed
         /\ \A c \in CatNames : CategoryStep(c)
<1> USE DEF Inv
<1>1. /\ pc = "execute" /\ obj < size /\ task # 3
      /\ size = Cardinality(Present(RawAll(i + 1)))
      /\ cats["Raw"].objects = RawAll(i + 1)
      /\ cats["Cal"].objects = CalSoFar /\ cats["Hit"].objects = HitSoFar
      /\ task = 1 => ~cats["Cal"].sealed
      /\ ~cats["Hit"].sealed
  BY DEF ProcessObject, WhileProcessed
<1>2. /\ obj \in Nat /\ size \in Nat /\ task \in 1 .. 3 /\ i \in Nat /\ cats \in CatsType
  BY FibresCounted, TasksFacts DEF TypeOK, CatsType
<1>3. task \in {1, 2} /\ obj + 1 <= size /\ obj \in 0 .. Cardinality(Present(RawAll(i + 1))) - 1
  BY <1>1, <1>2
<1>4. /\ tasks = Ordered /\ tasks[1] = "Calibrator" /\ tasks[2] = "HitFinder"
  BY <1>1, TasksFacts DEF TasksInOrder
<1>5. PICK t, from, to : t = tasks[task] /\ from = Input[t] /\ to = Output[t]
  OBVIOUS
<1>6. \/ task = 1 /\ t = "Calibrator" /\ from = "Raw" /\ to = "Cal"
      \/ task = 2 /\ t = "HitFinder" /\ from = "Cal" /\ to = "Hit"
  BY <1>3, <1>4, <1>5 DEF Input, Output
<1>7. cats[from].objects = RawAll(i + 1) /\ ~cats[to].sealed
  BY <1>1, <1>6 DEF CalSoFar
<1>8. PICK f : f = Numbered(RawAll(i + 1), obj)
  OBVIOUS
<1>9. f \in Fibers /\ f \in Present(RawAll(i + 1))
  BY <1>3, <1>8, OneMore
<1>10. PICK o : o = RawOf(f, i + 1)
  OBVIOUS
<1>11. PICK n : n = i + 1
  OBVIOUS
<1>12. n \in 1 .. MaxRecords
  <2>1. NumSources # 0 /\ \A s \in Sources : record[s] = n
    BY <1>1, <1>11 DEF AtRecord
  <2>2. 1 \in Sources
    BY <2>1, NumSourcesAssumption DEF Sources
  <2> QED BY <1>2, <1>11, <2>1, <2>2 DEF TypeOK
<1>13. o # NoObject /\ o \in Objects
  <2>1. o # NoObject
    BY <1>9, <1>10 DEF Present, RawAll
  <2>2. o \in Objects \cup {NoObject}
    <3>1. n \in 0 .. MaxRecords
      BY <1>12, MaxRecordsAssumption
    <3> QED BY <1>10, <1>11, <3>1, RawOfIsUpTo, RawUpToIsObject
  <2> QED BY <2>1, <2>2
<1>14. o = [side \in Sides |-> IF Wired(f, side) THEN n ELSE NoRecord]
  BY <1>10, <1>11, <1>13 DEF RawOf
<1>15. Accepts("HitFinder", f, o) <=>
         BothSides(f) /\ ~\E side \in Sides : <<f, side, n>> \in zeros
  <2>1. n # NoRecord /\ \A side \in Sides : o[side] = IF Wired(f, side) THEN n ELSE NoRecord
    BY <1>12, <1>14 DEF NoRecord
  <2>2. CASE BothSides(f)
    <3>1. \A side \in Sides : o[side] = n /\ o[side] # NoRecord
      BY <2>1, <2>2 DEF BothSides
    <3>2. Accepts("HitFinder", f, o) <=> \A side \in Sides : <<f, side, n>> \notin zeros
      BY <3>1 DEF Accepts
    <3> QED BY <2>2, <3>2
  <2>3. CASE ~BothSides(f)
    BY <2>1, <2>3 DEF Accepts, BothSides
  <2> QED BY <2>2, <2>3
<1>16. PICK read : read = Compress(cats, from)
  OBVIOUS
<1>17. /\ obj' = obj + 1
       /\ cats' = IF Accepts(t, f, o) THEN Write(read, to, f, o) ELSE read
       /\ UNCHANGED <<pc, entries, length, zeros, record, tasks, i, source, flag, task, size, tree>>
  <2>1. cats[Input[tasks[task]]].objects[Numbered(cats[Input[tasks[task]]].objects, obj)] = o
    BY <1>5, <1>7, <1>8, <1>9, <1>10 DEF RawAll
  <2>2. HasSlot(Output[tasks[task]], f)
    BY <1>5, <1>7 DEF HasSlot
  <2>3. Numbered(cats[Input[tasks[task]]].objects, obj) = f
    BY <1>5, <1>7, <1>8
  <2>4. [cats EXCEPT ![Input[tasks[task]]].sealed = TRUE] = read
    BY <1>5, <1>16 DEF Compress
  <2> QED BY <1>5, <2>1, <2>2, <2>3, <2>4 DEF ProcessObject, Write
<1>18. from \in CatNames /\ to \in CatNames /\ from # to
  BY <1>6 DEF CatNames
<1>19. /\ read \in CatsType /\ read[from] = [objects |-> cats[from].objects, sealed |-> TRUE]
       /\ \A d \in CatNames \ {from} : read[d] = cats[d]
  <2> HIDE DEF Inv
  <2> QED BY <1>2, <1>16, <1>18, Compressed
<1>20. PICK new : new = Write(read, to, f, o)
  OBVIOUS
<1>21. /\ new \in CatsType /\ new[to].objects = [read[to].objects EXCEPT ![f] = o]
       /\ new[to].sealed = read[to].sealed
       /\ \A d \in CatNames \ {to} : new[d] = read[d]
  <2> HIDE DEF Inv
  <2>1. o \in Objects \cup {NoObject}
    BY <1>13
  <2> QED BY <1>9, <1>18, <1>19, <1>20, <2>1, Written
<1>22. ASSUME NEW c \in CatNames
       PROVE  CategoryStep(c)
  <2>1. read[to] = cats[to]
    BY <1>18, <1>19
  <2>2. CASE c = to /\ Accepts(t, f, o)
    <3>1. cats'[c].objects = [cats[c].objects EXCEPT ![f] = o] /\ cats'[c].sealed = cats[c].sealed
      BY <1>17, <1>20, <1>21, <2>1, <2>2
    <3> QED BY <1>7, <1>9, <1>13, <2>2, <3>1 DEF CategoryStep
  <2>3. CASE ~(c = to /\ Accepts(t, f, o))
    <3>1. cats'[c] = read[c]
      BY <1>17, <1>20, <1>21, <1>22, <2>3
    <3>2. c = from => cats'[c].objects = cats[c].objects /\ cats'[c].sealed = TRUE
      BY <1>19, <3>1
    <3>3. c # from => cats'[c] = cats[c]
      BY <1>19, <1>22, <3>1
    <3> QED BY <3>2, <3>3 DEF CategoryStep
  <2> QED BY <2>2, <2>3
<1>23. CASE task = 1
  <2>1. cats' = new /\ from = "Raw" /\ to = "Cal"
    BY <1>6, <1>17, <1>20, <1>23 DEF Accepts
  <2>2. cats["Cal"].objects = Made(RawAll(n), RawAll(n), obj) /\ cats["Hit"].objects = NoObjects
    BY <1>1, <1>11, <1>23 DEF CalSoFar, HitSoFar
  <2>3. Made(RawAll(n), RawAll(n), obj + 1) = [Made(RawAll(n), RawAll(n), obj) EXCEPT ![f] = o]
    <3>1. Made(RawAll(n), RawAll(n), obj + 1) = [Made(RawAll(n), RawAll(n), obj) EXCEPT ![f] = RawAll(n)[f]]
      BY <1>3, <1>8, <1>11, OneMore
    <3> QED BY <1>9, <1>10, <1>11, <3>1 DEF RawAll
  <2>4. CalSoFar' = Made(RawAll(n), RawAll(n), obj + 1) /\ HitSoFar' = NoObjects
    BY <1>1, <1>11, <1>17, <1>23 DEF CalSoFar, HitSoFar
  <2>5. /\ cats'["Raw"].objects = RawAll(n) /\ cats'["Cal"].objects = CalSoFar'
        /\ cats'["Hit"].objects = HitSoFar'
        /\ ~cats'["Cal"].sealed /\ ~cats'["Hit"].sealed
    BY <1>1, <1>7, <1>11, <1>19, <1>21, <2>1, <2>2, <2>3, <2>4 DEF CatNames
  <2> QED BY <1>1, <1>2, <1>3, <1>11, <1>17, <1>21, <1>22, <2>1, <2>5
<1>24. CASE task = 2
  <2>1. t = "HitFinder" /\ from = "Cal" /\ to = "Hit"
    BY <1>6, <1>24
  <2>2. cats["Cal"].objects = RawAll(n) /\ cats["Hit"].objects = Made(RawAll(n), HitAll(zeros, n), obj)
    BY <1>1, <1>11, <1>24 DEF CalSoFar, HitSoFar
  <2>3. /\ Made(RawAll(n), HitAll(zeros, n), obj)[f] = NoObject
        /\ Made(RawAll(n), HitAll(zeros, n), obj + 1) = [Made(RawAll(n), HitAll(zeros, n), obj) EXCEPT ![f] = HitAll(zeros, n)[f]]
    BY <1>3, <1>8, <1>11, OneMore
  <2>4. CalSoFar' = RawAll(n) /\ HitSoFar' = Made(RawAll(n), HitAll(zeros, n), obj + 1)
    BY <1>1, <1>11, <1>17, <1>24 DEF CalSoFar, HitSoFar
  <2>5. read["Raw"] = cats["Raw"] /\ read["Hit"] = cats["Hit"]
        /\ read["Cal"].objects = cats["Cal"].objects
    BY <1>19, <2>1 DEF CatNames
  <2>6. CASE Accepts(t, f, o)
    <3>1. HitAll(zeros, n)[f] = o
      BY <1>9, <1>10, <1>11, <1>15, <2>1, <2>6 DEF HitAll, HitOf
    <3>2. cats' = new
      BY <1>17, <1>20, <2>6
    <3>3. /\ cats'["Raw"].objects = RawAll(n) /\ cats'["Cal"].objects = CalSoFar'
          /\ cats'["Hit"].objects = HitSoFar' /\ ~cats'["Hit"].sealed
      BY <1>1, <1>11, <1>21, <2>1, <2>2, <2>3, <2>4, <2>5, <3>1, <3>2 DEF CatNames
    <3> QED BY <1>1, <1>2, <1>3, <1>11, <1>17, <1>21, <1>22, <1>24, <3>2, <3>3
  <2>7. CASE ~Accepts(t, f, o)
    <3>1. HitAll(zeros, n)[f] = NoObject
      BY <1>9, <1>15, <2>1, <2>7 DEF HitAll, HitOf
    <3>2. Made(RawAll(n), HitAll(zeros, n), obj + 1) = Made(RawAll(n), HitAll(zeros, n), obj)
      BY <1>9, <2>3, <3>1 DEF Made
    <3>3. cats' = read
      BY <1>17, <2>7
    <3>4. /\ cats'["Raw"].objects = RawAll(n) /\ cats'["Cal"].objects = CalSoFar'
          /\ cats'["Hit"].objects = HitSoFar' /\ ~cats'["Hit"].sealed
      BY <1>1, <1>11, <2>2, <2>4, <2>5, <3>2, <3>3
    <3> QED BY <1>1, <1>2, <1>3, <1>11, <1>17, <1>19, <1>22, <1>24, <3>3, <3>4
  <2> QED BY <2>6, <2>7
<1> QED BY <1>3, <1>23, <1>24

LEMMA ProcessObjectInv ==
  ASSUME Inv, ProcessObject
  PROVE  Inv'
<1>1. /\ pc = "execute" /\ pc' = pc /\ obj' = obj + 1 /\ task \in {1, 2} /\ obj \in Nat
      /\ obj + 1 <= size /\ size = Cardinality(Present(RawAll(i + 1)))
      /\ UNCHANGED <<entries, length, zeros, record, tasks, i, source, flag, task, size, tree>>
      /\ cats' \in CatsType
  BY ProcessFacts
<1>2. /\ cats'["Raw"].objects = RawAll(i + 1)
      /\ cats'["Cal"].objects = CalSoFar' /\ cats'["Hit"].objects = HitSoFar'
      /\ task = 1 => ~cats'["Cal"].sealed
      /\ ~cats'["Hit"].sealed
  BY ProcessFacts
<1> USE DEF Inv
<1>3. TypeOK'
  <2>1. obj' \in 0 .. Cardinality(Fibers)
    BY <1>1, FibresCounted DEF TypeOK
  <2> QED BY <1>1, <2>1 DEF TypeOK, CatsType
<1>4. TasksInOrder' /\ Counted' /\ AtRecord'
  BY <1>1 DEF TasksInOrder, Counted, BelowLimit, AtRecord
<1>5. WhileRead'
  BY <1>1 DEF WhileRead
<1>6. WhileProcessed'
  BY <1>1, <1>2 DEF WhileProcessed
<1>7. EventsExact' /\ AllEventsWritten' /\ NeverWritesCompressed'
  BY <1>1 DEF EventsExact, AllEventsWritten, NeverWritesCompressed
<1> QED BY <1>3, <1>4, <1>5, <1>6, <1>7
-----------------------------------------------------------------------------
(* Part 7: the theorems.                                                   *)
LEMMA NextInv == Inv /\ [Next]_vars => Inv'
<1> SUFFICES ASSUME Inv, [Next]_vars PROVE Inv'
  OBVIOUS
<1>1. ASSUME NEW t \in Tasks, AddTask(t) PROVE Inv'
  BY <1>1, AddTaskInv
<1>2. CASE StartLoop     BY <1>2, StartLoopInv
<1>3. CASE OpenSource    BY <1>3, OpenSourceInv
<1>4. CASE OpenFails     BY <1>4, OpenFailsInv
<1>5. CASE AllOpened     BY <1>5, AllOpenedInv
<1>6. CASE StartEvent    BY <1>6, StartEventInv
<1>7. CASE LimitReached  BY <1>7, LimitReachedInv
<1>8. CASE ReadSource    BY <1>8, ReadSourceInv
<1>9. CASE SourceEnds    BY <1>9, SourceEndsInv
<1>10. CASE EventRead     BY <1>10, EventReadInv
<1>11. CASE StartTask     BY <1>11, StartTaskInv
<1>12. CASE ProcessObject BY <1>12, ProcessObjectInv
<1>13. CASE TaskDone      BY <1>13, TaskDoneInv
<1>14. CASE TaskFails     BY <1>14, TaskFailsInv
<1>15. CASE Fill          BY <1>15, FillInv
<1>16. CASE Save          BY <1>16, SaveInv
<1>17. CASE CalibrationMissing BY <1>17, CalibrationMissingInv
<1>18. CASE UNCHANGED vars
  <2> USE <1>18 DEF Inv, vars, taskVars
  <2>1. TypeOK' /\ TasksInOrder' /\ Counted' /\ AtRecord' /\ WhileRead'
    BY DEF TypeOK, TasksInOrder, Counted, BelowLimit, AtRecord, WhileRead
  <2>2. WhileProcessed' /\ EventsExact' /\ AllEventsWritten' /\ NeverWritesCompressed'
    BY DEF WhileProcessed, CalSoFar, HitSoFar, EventsExact, AllEventsWritten,
           NeverWritesCompressed
  <2> QED BY <2>1, <2>2
<1> QED BY <1>1, <1>2, <1>3, <1>4, <1>5, <1>6, <1>7, <1>8, <1>9, <1>10, <1>11, <1>12, <1>13,
           <1>14, <1>15, <1>16, <1>17, <1>18 DEF Next

(* Between its actions the loop is always where its phase says it is.      *)
THEOREM InvCorrect == Spec => []Inv
<1>1. Init => Inv
  BY InitInv
<1>2. Inv /\ [Next]_vars => Inv'
  BY NextInv
<1> QED BY <1>1, <1>2, PTL DEF Spec

(* The variables of the loop keep their types, for files of any length.    *)
THEOREM TypeCorrect == Spec => []TypeOK
<1>1. Inv => TypeOK
  BY DEF Inv
<1> QED BY <1>1, InvCorrect, PTL

(* Entry n of the tree is record n of every source, calibrated, with a hit *)
(* for every fibre that is read on both sides with times that are not 0,   *)
(* and no hit for a fibre that is read on one.                             *)
THEOREM EventsCompleteCorrect == Spec => []EventsComplete
<1>1. Inv => EventsComplete
  BY DEF Inv, EventsExact, EventsComplete, HitOf, ZeroTime
<1> QED BY <1>1, InvCorrect, PTL

(* SiFi::loop ends at its limit or with the shortest source, not before.   *)
THEOREM AllWrittenCorrect == Spec => []AllEventsWritten
<1>1. Inv => AllEventsWritten
  BY DEF Inv
<1> QED BY <1>1, InvCorrect, PTL

(* No unpacker and no task writes a category that was compressed.          *)
THEOREM NeverCrashes == Spec => []NeverWritesCompressed
<1>1. Inv => NeverWritesCompressed
  BY DEF Inv
<1> QED BY <1>1, InvCorrect, PTL

(* A step that changes one category at most in one of the allowed ways.    *)
LEMMA CategoryStepIsStore ==
  ASSUME NEW c \in CatNames, CategoryStep(c), UNCHANGED tree
  PROVE  [Cat(c)!StoreNext]_(Cat(c)!storeVars)
<1>1. CASE cats'[c] = cats[c]
  BY <1>1 DEF Cat!storeVars
<1>2. CASE cats'[c].objects = cats[c].objects /\ cats'[c].sealed = TRUE
  <2>1. Cat(c)!Seal
    BY <1>2 DEF Cat!Seal
  <2> QED BY <2>1 DEF Cat!StoreNext
<1>3. CASE /\ ~cats[c].sealed /\ cats'[c].sealed = cats[c].sealed
           /\ \E f \in Fibers, o \in Objects : cats'[c].objects = [cats[c].objects EXCEPT ![f] = o]
  <2>1. PICK f \in Fibers, o \in Objects : cats'[c].objects = [cats[c].objects EXCEPT ![f] = o]
    BY <1>3
  <2>2. Cat(c)!Put(f, o)
    BY <1>3, <2>1 DEF Cat!Put
  <2> QED BY <2>1, <2>2 DEF Cat!StoreNext
<1> QED BY <1>1, <1>2, <1>3 DEF CategoryStep

(* fill: what is written of a category is what the program saw in it.      *)
LEMMA FillIsStore ==
  ASSUME NEW c \in CatNames, Inv, Fill
  PROVE  Cat(c)!StoreNext
<1> DEFINE Entries == [CatNames -> [Fibers -> Objects \cup {NoObject}]]
<1>1. /\ cats'[c].objects = cats[c].objects /\ cats'[c].sealed = TRUE
  <2>1. cats'[c] = [cats[c] EXCEPT !.sealed = TRUE] /\ cats \in CatsType
    BY DEF Fill, Inv, TypeOK, CatsType
  <2> QED BY <2>1 DEF CatsType
<1>2. PICK e : e = [d \in CatNames |-> cats[d].objects]
  OBVIOUS
<1>3. tree \in Seq(Entries) /\ e \in Entries /\ tree' = Append(tree, e) /\ e[c] = cats[c].objects
  BY <1>2 DEF Inv, TypeOK, Fill
<1>4. PICK n \in Nat : n = Len(tree)
  BY <1>3
<1> HIDE DEF Entries
<1>5. PICK new : new = tree'
  OBVIOUS
<1>6. /\ Len(new) = n + 1 /\ new[n + 1] = e /\ \A k \in 1 .. n : new[k] = tree[k]
  BY <1>3, <1>4, <1>5, AppendProperties
<1>7. PICK old, more : /\ old = [k \in 1 .. n |-> tree[k][c]]
                       /\ more = [k \in 1 .. n + 1 |-> new[k][c]]
  OBVIOUS
<1>8. more = Append(old, cats[c].objects)
  <2>1. PICK S : S = {old[k] : k \in 1 .. n} \cup {cats[c].objects}
    OBVIOUS
  <2>2. old \in Seq(S) /\ Len(old) = n /\ cats[c].objects \in S
    BY <1>7, <2>1
  <2>3. PICK app : app = Append(old, cats[c].objects)
    OBVIOUS
  <2>4. /\ app \in Seq(S) /\ Len(app) = n + 1 /\ app[n + 1] = cats[c].objects
        /\ \A k \in 1 .. n : app[k] = old[k]
    BY <2>2, <2>3, AppendProperties
  <2>5. \A k \in 1 .. n + 1 : app[k] = new[k][c]
    <3>1. \A k \in 1 .. n + 1 : k \in 1 .. n \/ k = n + 1
      OBVIOUS
    <3>2. \A k \in 1 .. n : app[k] = new[k][c]
      BY <1>6, <1>7, <2>4
    <3>3. app[n + 1] = new[n + 1][c]
      BY <1>3, <1>6, <2>4
    <3> QED BY <3>1, <3>2, <3>3
  <2>6. app = [k \in 1 .. n + 1 |-> app[k]]
    BY <2>4
  <2> QED BY <1>7, <2>3, <2>5, <2>6
<1>9. Cat(c)!Write
  BY <1>1, <1>4, <1>5, <1>6, <1>7, <1>8 DEF Cat!Write
<1> QED BY <1>9 DEF Cat!StoreNext

(* To the program every category is an EventStore.                         *)
THEOREM EveryCategoryIsStore == Spec => CategoriesAreStores
<1>1. Init => \A c \in CatNames : Cat(c)!StoreInit
  BY DEF Init, Cat!StoreInit, Cat!Empty, NoObjects
<1>2. Inv /\ [Next]_vars => \A c \in CatNames : [Cat(c)!StoreNext]_(Cat(c)!storeVars)
  <2> SUFFICES ASSUME Inv, [Next]_vars, NEW c \in CatNames
               PROVE  [Cat(c)!StoreNext]_(Cat(c)!storeVars)
    OBVIOUS
  <2>1. CASE StartEvent
    <3>1. Cat(c)!Reset
      BY <2>1 DEF StartEvent, Clear, NoObjects, Cat!Reset, Cat!Empty
    <3> QED BY <3>1 DEF Cat!StoreNext
  <2>2. CASE ReadSource
    BY <2>2, ReadSourceInv, CategoryStepIsStore
  <2>3. CASE ProcessObject
    BY <2>3, ProcessFacts, CategoryStepIsStore
  <2>4. CASE Fill
    BY <2>4, FillIsStore
  <2>5. CASE UNCHANGED <<cats, tree>>
    BY <2>5 DEF Cat!storeVars
  <2>6. ASSUME NEW t \in Tasks, AddTask(t) PROVE UNCHANGED <<cats, tree>>
    BY <2>6 DEF AddTask
  <2>7. \/ StartLoop \/ OpenSource \/ OpenFails \/ AllOpened \/ LimitReached \/ SourceEnds
        \/ EventRead \/ StartTask \/ TaskDone \/ TaskFails \/ Save \/ UNCHANGED vars
        => UNCHANGED <<cats, tree>>
    BY DEF StartLoop, OpenSource, OpenFails, AllOpened, LimitReached, SourceEnds, EventRead,
           StartTask, TaskDone, TaskFails, Save, vars
  <2>8. CASE CalibrationMissing
    BY <2>8, CalibrationMissingInv, CategoryStepIsStore
  <2> QED BY <2>1, <2>2, <2>3, <2>4, <2>5, <2>6, <2>7, <2>8 DEF Next
<1> QED BY <1>1, <1>2, InvCorrect, PTL DEF Spec, CategoriesAreStores
=============================================================================

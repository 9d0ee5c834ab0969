--------------------------- MODULE ProgramsProofs ---------------------------
(***************************************************************************)
(* For inputs of every size, any requests, files and presses: the programs *)
(* start up, an entry is made of its own event, and the loops of macros    *)
(* and event display read it as it was written.                            *)
(***************************************************************************)
EXTENDS Programs, SequenceTheorems, FiniteSetTheorems, WellFoundedInduction, TLAPS

-----------------------------------------------------------------------------
(* Part 1: the tasks of the detector, one after the other.                 *)
Unpacker == Task(0, "Unpacker")
Calibrator == Task(1, "Calibrator")
HitFinder == Task(2, "HitFinder")
ClusterFinder == Task(3, "ClusterFinder")
AllTasks == {Unpacker, Calibrator, HitFinder, ClusterFinder}

(* What the tasks of ts have made, up to each of them.                     *)
RanUnpacker(cont, ts) == IF Unpacker \in ts THEN RunTask(cont, Unpacker) ELSE cont
RanCalibrator(cont, ts) ==
  LET made == RanUnpacker(cont, ts)
  IN IF Calibrator \in ts THEN RunTask(made, Calibrator) ELSE made
RanHitFinder(cont, ts) ==
  LET made == RanCalibrator(cont, ts)
  IN IF HitFinder \in ts THEN RunTask(made, HitFinder) ELSE made
RanAll(cont, ts) ==
  LET made == RanHitFinder(cont, ts)
  IN IF ClusterFinder \in ts THEN RunTask(made, ClusterFinder) ELSE made

LEMMA Steps ==
  /\ Unpacker.step = 0 /\ Calibrator.step = 1 /\ HitFinder.step = 2 /\ ClusterFinder.step = 3
  /\ Unpacker.name = "Unpacker" /\ Calibrator.name = "Calibrator"
  /\ HitFinder.name = "HitFinder" /\ ClusterFinder.name = "ClusterFinder"
BY DEF Unpacker, Calibrator, HitFinder, ClusterFinder, Task

LEMMA LastTaskIs ==
  ASSUME NEW ts, ts \subseteq AllTasks, NEW t \in ts, \A u \in ts : u.step <= t.step
  PROVE  LastTask(ts) = t
<1>1. \A u \in ts : (\A v \in ts : v.step <= u.step) => u = t
  BY Steps DEF AllTasks
<1> QED BY <1>1 DEF LastTask

(* The fold over the tasks by their steps runs each on what those before   *)
(* it have made.                                                           *)
LEMMA TasksRunInOrder ==
  ASSUME NEW cont, tasks \subseteq AllTasks
  PROVE  RunTasks(cont) = RanAll(cont, tasks)
<1> DEFINE Body(f, s) ==
             IF s = {} THEN cont ELSE RunTask(f[s \ {LastTask(s)}], LastTask(s))
           iter == CHOOSE f : f = [s \in SUBSET tasks |-> Body(f, s)]
           g == [s \in SUBSET tasks |-> RanAll(cont, s)]
<1>1. RunTasks(cont) = iter[tasks]
  BY Zenon DEF RunTasks, MapThenFoldSet
<1>2. ASSUME NEW s \in SUBSET tasks PROVE RanAll(cont, s) = Body(g, s)
  <2>1. CASE s = {}
    BY <2>1 DEF RanAll, RanHitFinder, RanCalibrator, RanUnpacker
  <2> DEFINE x == LastTask(s)
             r == s \ {x}
  <2>2. ASSUME s # {} PROVE r \in SUBSET tasks
    OBVIOUS
  <2>3. CASE ClusterFinder \in s
    <3>1. x = ClusterFinder
      BY <2>3, LastTaskIs, Steps DEF AllTasks
    <3>2. RanAll(cont, r) = RanHitFinder(cont, s)
      BY <3>1, Steps DEF RanAll, RanHitFinder, RanCalibrator, RanUnpacker
    <3> QED BY <2>2, <2>3, <3>1, <3>2 DEF RanAll
  <2>4. CASE ClusterFinder \notin s /\ HitFinder \in s
    <3>1. x = HitFinder
      BY <2>4, LastTaskIs, Steps DEF AllTasks
    <3>2. RanAll(cont, r) = RanCalibrator(cont, s)
      BY <2>4, <3>1, Steps DEF RanAll, RanHitFinder, RanCalibrator, RanUnpacker
    <3> QED BY <2>2, <2>4, <3>1, <3>2 DEF RanAll, RanHitFinder
  <2>5. CASE ClusterFinder \notin s /\ HitFinder \notin s /\ Calibrator \in s
    <3>1. x = Calibrator
      BY <2>5, LastTaskIs, Steps DEF AllTasks
    <3>2. RanAll(cont, r) = RanUnpacker(cont, s)
      BY <2>5, <3>1, Steps DEF RanAll, RanHitFinder, RanCalibrator, RanUnpacker
    <3> QED BY <2>2, <2>5, <3>1, <3>2 DEF RanAll, RanHitFinder, RanCalibrator
  <2>6. CASE s = {Unpacker}
    <3>1. x = Unpacker
      BY <2>6, LastTaskIs, Steps DEF AllTasks
    <3>2. RanAll(cont, r) = cont
      BY <2>6, <3>1 DEF RanAll, RanHitFinder, RanCalibrator, RanUnpacker
    <3>3. RanAll(cont, s) = RunTask(cont, Unpacker)
      BY <2>6, Steps DEF RanAll, RanHitFinder, RanCalibrator, RanUnpacker
    <3> QED BY <2>2, <2>6, <3>1, <3>2, <3>3
  <2> QED BY <2>1, <2>3, <2>4, <2>5, <2>6 DEF AllTasks
<1> HIDE DEF Body
<1>3. g = [s \in SUBSET tasks |-> Body(g, s)]
  BY <1>2
<1>4. iter = [s \in SUBSET tasks |-> Body(iter, s)]
  BY <1>3
<1> HIDE DEF iter, g
<1>5. \A s \in SUBSET tasks : iter[s] = Body(iter, s)
  BY <1>4
<1> DEFINE Same(s) == iter[s] = g[s]
<1>6. \A s \in SUBSET tasks : g[s] = Body(g, s)
  BY <1>3
<1>7. Same({})
  BY <1>5, <1>6 DEF Body
<1>8. ASSUME NEW s \in SUBSET tasks, s # {}, Same(s \ {LastTask(s)}) PROVE Same(s)
  BY <1>5, <1>6, <1>8 DEF Body
<1> HIDE DEF Same
<1>9. \A s \in SUBSET tasks : s \subseteq {Unpacker} => Same(s)
  <2> SUFFICES ASSUME NEW s \in SUBSET tasks, s = {Unpacker} PROVE Same(s)
    BY <1>7
  <2> QED BY <1>7, <1>8, LastTaskIs, Steps DEF AllTasks
<1>10. \A s \in SUBSET tasks : s \subseteq {Unpacker, Calibrator} => Same(s)
  <2> SUFFICES ASSUME NEW s \in SUBSET tasks, s \subseteq {Unpacker, Calibrator}, Calibrator \in s
               PROVE Same(s)
    BY <1>9
  <2>1. LastTask(s) = Calibrator
    BY LastTaskIs, Steps DEF AllTasks
  <2> QED BY <1>8, <1>9, <2>1
<1>11. \A s \in SUBSET tasks : s \subseteq {Unpacker, Calibrator, HitFinder} => Same(s)
  <2> SUFFICES ASSUME NEW s \in SUBSET tasks, s \subseteq {Unpacker, Calibrator, HitFinder},
                      HitFinder \in s
               PROVE Same(s)
    BY <1>10
  <2>1. LastTask(s) = HitFinder
    BY LastTaskIs, Steps DEF AllTasks
  <2> QED BY <1>8, <1>10, <2>1
<1>12. \A s \in SUBSET tasks : Same(s)
  <2> SUFFICES ASSUME NEW s \in SUBSET tasks, ClusterFinder \in s
               PROVE Same(s)
    BY <1>11 DEF AllTasks
  <2>1. LastTask(s) = ClusterFinder
    BY LastTaskIs, Steps DEF AllTasks
  <2> QED BY <1>8, <1>11, <2>1 DEF AllTasks
<1> QED BY <1>1, <1>12 DEF Same, g
-----------------------------------------------------------------------------
(* Part 2: the inductive invariant of the writing programs.  The calls of  *)
(* main that are past tell what is registered, built and inited.           *)
Place(i, name) ==
  CASE name = "setSimulation" -> 10
    [] name = "book" -> IF i = "DR" THEN 9 ELSE 8
    [] name = "initCategories" -> IF i = "DR" THEN 8 ELSE 6
    [] name = "buildCal" -> 7
    [] name = "initTasks" -> IF i = "DR" THEN 6 ELSE 7
    [] name = "init" -> 5
    [] name = "open" -> 4
    [] name = "initBranches" -> 3
    [] name = "loop" -> 2
    [] name = "save" -> 1
Past(name) == Len(main) < Place(input, name)

MainIsSuffix ==
  /\ input \in {"DD", "Board", "DR"}
  /\ Len(main) \in 1 .. Len(MainOf(input))
  /\ main = [j \in 1 .. Len(main) |-> MainOf(input)[Len(MainOf(input)) - Len(main) + j]]

(* The categories that have been built when n calls of main i are left:    *)
(* none without an output tree.                                            *)
BuiltAt(i, n, out, ini) ==
  IF ~out THEN {}
  ELSE (IF i = "DR" /\ n < 7 THEN {"FibersCal"} ELSE {})
         \cup {OutputOf(t.name) : t \in ini}
         \cup (IF n < 4 THEN ToSet(WrittenBy(i)) ELSE {})
BuiltSoFar == BuiltAt(input, Len(main), outputTree, inited)

RegisteredAt(i, n) ==
  IF i = "DR"
    THEN (IF n < 10 THEN {"GeantTrack"} ELSE {})
           \cup (IF n < 8 THEN {"FibersCal", "FibersHit", "FibersClus", "GeantFibersRaw"} ELSE {})
    ELSE (IF n < 6 THEN {"FibersCal", "FibersHit", "FibersClus", "FibersRaw"} ELSE {})
           \cup (IF n < 4 THEN RegisteredBy(i) ELSE {})
RegisteredSoFar == RegisteredAt(input, Len(main))

CategoriesOf(built) == [c \in Cats |-> IF c \in built THEN "built" ELSE "absent"]

Registry ==
  /\ sim = (input = "DR" /\ Past("setSimulation"))
  /\ outputTree \in BOOLEAN /\ (outputTree => Past("book"))
  /\ registered = RegisteredSoFar
  /\ categories = CategoriesOf(BuiltSoFar)
  /\ branches = IF Past("initBranches") THEN BuiltSoFar ELSE {}

(* Tasks are inited by their steps, and only with an output tree.          *)
Inited ==
  /\ tasks = IF Past("initTasks") THEN DetectorTasks ELSE {}
  /\ inited \subseteq tasks
  /\ inited # {} => outputTree /\ Len(main) <= 5
  /\ Past("init") => inited = tasks
  /\ \A t \in inited, u \in tasks \ inited : t.step < u.step

Entry == UNION {[b -> Nat] : b \in SUBSET Cats}

(* The events so far; a category that is not built stays empty.            *)
Filled ==
  /\ content \in [Cats -> Nat] /\ \A c \in Cats \ BuiltSoFar : content[c] = 0
  /\ events \in Seq(BOOLEAN) /\ tree \in Seq(Entry) /\ Len(tree) = Len(events)
  /\ \A e \in DOMAIN tree : tree[e] = [c \in branches |-> IF events[e] THEN Id(e) ELSE 0]
  /\ events # <<>> => Past("initBranches")

Running == MainIsSuffix /\ Registry /\ Inited /\ Filled

Idle ==
  /\ sim = FALSE /\ outputTree = FALSE /\ registered = {} /\ branches = {}
  /\ categories = [c \in Cats |-> "absent"]
  /\ tasks = {} /\ inited = {} /\ content = NoContent /\ tree = <<>> /\ events = <<>>

File ==
  [how : {"tasks", "file", "unpacker", "branches", "null", "exit", "saved"},
   booked : BOOLEAN, program : {"DD", "Board", "DR"}, header : SUBSET Cats, branches : SUBSET Cats,
   entries : Seq(Entry), events : Seq(BOOLEAN)]

WritingInv ==
  /\ files \in Seq(File)
  /\ status \in {"idle", "running"}
  /\ status = "idle" => Idle
  /\ status = "running" => Running
  /\ ProgramsStartUp /\ EntriesAreOwnEvents

(* The call that is made tells how many are left.                          *)
LEMMA CallAt ==
  ASSUME MainIsSuffix
  PROVE  /\ main # <<>> /\ Head(main) = MainOf(input)[Len(MainOf(input)) - Len(main) + 1]
         /\ Len(main) = Place(input, Head(main))
         /\ Head(main) \in {"setSimulation", "book", "initCategories", "buildCal", "initTasks",
                            "init", "open", "initBranches", "loop", "save"}
<1> DEFINE n == Len(main)
<1>1. main # <<>> /\ Head(main) = MainOf(input)[Len(MainOf(input)) - n + 1]
  <2>1. n \in Nat /\ n >= 1 /\ 1 \in 1 .. n
    BY DEF MainIsSuffix, MainOf
  <2>2. main[1] = MainOf(input)[Len(MainOf(input)) - n + 1]
    BY <2>1 DEF MainIsSuffix
  <2>3. main # <<>>
    BY <2>1
  <2> QED BY <2>2, <2>3
<1>2. CASE input = "DR"
  <2>1. n \in 1 .. 10
    BY <1>2 DEF MainIsSuffix, MainOf
  <2>2. Head(main) = MainOf("DR")[11 - n]
    BY <1>1, <1>2, <2>1 DEF MainOf
  <2> HIDE DEF n
  <2>3. \/ n = 10 /\ Head(main) = "setSimulation"
        \/ n = 9 /\ Head(main) = "book"
        \/ n = 8 /\ Head(main) = "initCategories"
        \/ n = 7 /\ Head(main) = "buildCal"
        \/ n = 6 /\ Head(main) = "initTasks"
        \/ n = 5 /\ Head(main) = "init"
        \/ n = 4 /\ Head(main) = "open"
        \/ n = 3 /\ Head(main) = "initBranches"
        \/ n = 2 /\ Head(main) = "loop"
        \/ n = 1 /\ Head(main) = "save"
    BY <2>1, <2>2 DEF MainOf
  <2> QED BY <1>1, <1>2, <2>3 DEF Place, n
<1>3. CASE input \in {"DD", "Board"}
  <2>1. n \in 1 .. 8
    BY <1>3 DEF MainIsSuffix, MainOf
  <2>2. Head(main) = MainOf("DD")[9 - n]
    BY <1>1, <1>3, <2>1 DEF MainOf
  <2> HIDE DEF n
  <2>3. \/ n = 8 /\ Head(main) = "book"
        \/ n = 7 /\ Head(main) = "initTasks"
        \/ n = 6 /\ Head(main) = "initCategories"
        \/ n = 5 /\ Head(main) = "init"
        \/ n = 4 /\ Head(main) = "open"
        \/ n = 3 /\ Head(main) = "initBranches"
        \/ n = 2 /\ Head(main) = "loop"
        \/ n = 1 /\ Head(main) = "save"
    BY <2>1, <2>2 DEF MainOf
  <2> QED BY <1>1, <1>3, <2>3 DEF Place, n
<1> QED BY <1>2, <1>3 DEF MainIsSuffix

(* A call that returns leaves one call less.                               *)
LEMMA ReturnLeaves ==
  ASSUME MainIsSuffix, Return, Len(main) # 1, input' = input
  PROVE  MainIsSuffix' /\ Len(main') = Len(main) - 1
<1> DEFINE n == Len(main)
           whole == MainOf(input)
<1>1. n \in Nat /\ n >= 2 /\ n <= Len(whole) /\ Len(whole) \in {8, 10}
  BY DEF MainIsSuffix, MainOf
<1>2. main = [j \in 1 .. n |-> whole[Len(whole) - n + j]]
  BY DEF MainIsSuffix
<1> HIDE DEF n, whole
<1>3. main' = [j \in 1 .. n - 1 |-> main[j + 1]]
  <2> DEFINE T == {whole[j] : j \in 1 .. Len(whole)}
  <2>1. main \in [1 .. n -> T]
    BY <1>1, <1>2
  <2> HIDE DEF T
  <2>2. main \in Seq(T) /\ main # <<>> /\ Len(main) = n
    <3>1. Len(main) = n
      BY DEF n
    <3>2. main \in Seq(T)
      BY <1>1, <2>1
    <3> QED BY <1>1, <3>1, <3>2
  <2>3. main' = Tail(main)
    BY DEF Return
  <2>4. Len(Tail(main)) = n - 1 /\ \A j \in 1 .. n - 1 : Tail(main)[j] = main[j + 1]
    BY <2>2, HeadTailProperties
  <2>5. Tail(main) = [j \in 1 .. n - 1 |-> Tail(main)[j]]
    <3>1. Tail(main) \in Seq(T)
      BY <2>2, HeadTailProperties
    <3>2. Tail(main) \in [1 .. n - 1 -> T]
      BY <2>4, <3>1, LenProperties
    <3> QED BY <3>2
  <2> QED BY <2>3, <2>4, <2>5
<1>4. Len(main') = n - 1
  BY <1>1, <1>3
<1>5. ASSUME NEW j \in 1 .. n - 1 PROVE main[j + 1] = whole[Len(whole) - (n - 1) + j]
  <2>1. j + 1 \in 1 .. n /\ Len(whole) - n + (j + 1) = Len(whole) - (n - 1) + j
    BY <1>1
  <2> QED BY <1>2, <2>1
<1>6. main' = [j \in 1 .. n - 1 |-> whole[Len(whole) - (n - 1) + j]]
  BY <1>3, <1>5
<1>7. whole' = whole
  BY DEF whole, MainOf
<1> QED BY <1>1, <1>4, <1>6, <1>7 DEF MainIsSuffix, Place, n, whole

LEMMA Places ==
  \A i :
    /\ Place(i, "setSimulation") = 10 /\ Place(i, "book") = (IF i = "DR" THEN 9 ELSE 8)
    /\ Place(i, "initCategories") = (IF i = "DR" THEN 8 ELSE 6) /\ Place(i, "buildCal") = 7
    /\ Place(i, "initTasks") = (IF i = "DR" THEN 6 ELSE 7) /\ Place(i, "init") = 5
    /\ Place(i, "open") = 4 /\ Place(i, "initBranches") = 3 /\ Place(i, "loop") = 2
    /\ Place(i, "save") = 1
BY DEF Place

(* A call other than the last one returns.                                 *)
LEMMA Returned ==
  ASSUME Running, NEW name, Calling(name), name # "save", Return, call' = call
  PROVE  /\ MainIsSuffix' /\ input' = input
         /\ Len(main) \in Nat /\ Len(main) = Place(input, name) /\ Len(main') = Len(main) - 1
<1>1. Len(main) = Place(input, name) /\ Len(main) \in Nat /\ input' = input
  BY CallAt DEF Running, MainIsSuffix, Calling, call
<1>2. Len(main) # 1
  BY <1>1, CallAt, Places DEF Running, Calling, Place
<1> QED BY <1>1, <1>2, ReturnLeaves DEF Running

LEMMA BuiltAre ==
  ASSUME NEW cs \in Seq(Cats), NEW regs, Builds(cs, regs), outputTree \in BOOLEAN
  PROVE  Built(cs, regs) = [c \in Cats |-> IF c \in ToSet(cs) THEN "built" ELSE categories[c]]
<1> DEFINE good == {k \in DOMAIN cs : \A j \in 1 .. k : cs[j] \in regs}
<1>1. outputTree /\ \A k \in DOMAIN cs : cs[k] \in regs
  BY DEF Builds, ToSet
<1>2. DOMAIN cs = 1 .. Len(cs) /\ Len(cs) \in Nat
  OBVIOUS
<1>3. \A k \in DOMAIN cs : \A j \in 1 .. k : cs[j] \in regs
  BY <1>1, <1>2
<1> QED BY <1>1, <1>3 DEF Built, ToSet

(* The calls that neither build nor register anything.                     *)
LEMMA BuiltStays ==
  ASSUME NEW i, NEW n \in Nat, NEW out, NEW ini, n # 4, n = 7 => i # "DR"
  PROVE  BuiltAt(i, n - 1, out, ini) = BuiltAt(i, n, out, ini)
BY DEF BuiltAt

LEMMA RegisteredStays ==
  ASSUME NEW i, NEW n \in Nat, n \notin (IF i = "DR" THEN {10, 8} ELSE {6, 4})
  PROVE  RegisteredAt(i, n - 1) = RegisteredAt(i, n)
BY DEF RegisteredAt

LEMMA RegistryStays ==
  ASSUME Registry, input' = input, Len(main) \in Nat, Len(main') = Len(main) - 1,
         registry' = registry, inited' = inited, Len(main) \notin {3, 4, 8, 10},
         Len(main) = 6 => input = "DR", Len(main) = 7 => input # "DR"
  PROVE  Registry' /\ BuiltSoFar' = BuiltSoFar
<1>1. BuiltSoFar' = BuiltSoFar
  <2>1. BuiltAt(input, Len(main) - 1, outputTree, inited) = BuiltAt(input, Len(main), outputTree, inited)
    BY BuiltStays
  <2>2. outputTree' = outputTree
    BY DEF registry
  <2> QED BY <2>1, <2>2 DEF BuiltSoFar
<1>2. RegisteredSoFar' = RegisteredSoFar
  BY RegisteredStays DEF RegisteredSoFar
<1>3. sim' = (input' = "DR" /\ Past("setSimulation")')
  <2>1. Past("setSimulation")' <=> Past("setSimulation")
    <3>1. Past("setSimulation")' <=> Len(main) - 1 < 10
      BY Places DEF Past
    <3>2. Past("setSimulation") <=> Len(main) < 10
      BY Places DEF Past
    <3>3. \A n \in Nat : n # 10 => (n - 1 < 10 <=> n < 10)
      OBVIOUS
    <3>4. Len(main) # 10
      OBVIOUS
    <3> QED BY <3>1, <3>2, <3>3, <3>4, Zenon
  <2>2. sim' = sim
    BY DEF registry
  <2> QED BY <2>1, <2>2, Zenon DEF Registry
<1>4. outputTree' \in BOOLEAN /\ (outputTree' => Past("book")')
  <2>1. outputTree' = outputTree
    BY DEF registry
  <2>2. outputTree \in BOOLEAN /\ (outputTree => Past("book"))
    BY Zenon DEF Registry
  <2>3. Past("book") => Past("book")'
    BY Places DEF Past
  <2> QED BY <2>1, <2>2, <2>3
<1>5. branches' = IF Past("initBranches")' THEN BuiltSoFar' ELSE {}
  <2>1. branches' = branches
    BY DEF registry
  <2>2. Past("initBranches") <=> Len(main) < 3
    BY Places DEF Past
  <2>3. Past("initBranches")' <=> Len(main) - 1 < 3
    BY Places DEF Past
  <2>4. Past("initBranches")' <=> Past("initBranches")
    <3>1. \A n \in Nat : n # 3 => (n - 1 < 3 <=> n < 3)
      OBVIOUS
    <3>2. Len(main) # 3
      OBVIOUS
    <3> QED BY <2>2, <2>3, <3>1, <3>2, Zenon
  <2>5. branches = IF Past("initBranches") THEN BuiltSoFar ELSE {}
    BY Zenon DEF Registry
  <2> QED BY <1>1, <2>1, <2>4, <2>5, Zenon
<1>6. categories' = CategoriesOf(BuiltSoFar') /\ registered' = RegisteredSoFar'
  BY <1>1, <1>2 DEF Registry, registry
<1> QED BY <1>1, <1>3, <1>4, <1>5, <1>6 DEF Registry

LEMMA FilledStays ==
  ASSUME Filled, input' = input, Len(main) \in Nat, Len(main') = Len(main) - 1,
         BuiltSoFar \subseteq BuiltSoFar', branches' = branches \/ Len(main) = 3,
         files' = files, UNCHANGED <<content, tree, events>>
  PROVE  Filled'
<1>1. content' \in [Cats -> Nat] /\ \A c \in Cats \ BuiltSoFar' : content'[c] = 0
  BY DEF Filled
<1>2. events' \in Seq(BOOLEAN) /\ tree' \in Seq(Entry) /\ Len(tree') = Len(events')
  BY DEF Filled
<1>3. events' # <<>> => Past("initBranches")'
  BY Places DEF Filled, Past
<1>4. \A e \in DOMAIN tree' : tree'[e] = [c \in branches' |-> IF events'[e] THEN Id(e)' ELSE 0]
  <2>1. CASE branches' = branches
    BY <2>1 DEF Filled, Id
  <2>2. CASE Len(main) = 3
    <3>1. events = <<>> /\ Len(tree) = 0 /\ tree \in Seq(Entry)
      BY <2>2, Places DEF Filled, Past
    <3>2. DOMAIN tree' = {}
      BY <3>1
    <3> QED BY <3>2
  <2> QED BY <2>1, <2>2
<1> QED BY <1>1, <1>2, <1>3, <1>4 DEF Filled

LEMMA InitedStays ==
  ASSUME Inited, input' = input, Len(main) \in Nat, Len(main') = Len(main) - 1,
         UNCHANGED <<tasks, inited>>, Len(main) \notin {5, Place(input, "initTasks")},
         tasks # {} => sim' = sim, inited # {} => outputTree' = outputTree
  PROVE  Inited'
<1>1. Past("initTasks")' = Past("initTasks") /\ Past("init")' = Past("init")
  BY Places DEF Past
<1>2. tasks' = IF Past("initTasks")' THEN DetectorTasks' ELSE {}
  <2>1. CASE Past("initTasks")
    <3>1. tasks = DetectorTasks /\ HitFinder \in DetectorTasks
      BY <2>1 DEF Inited, DetectorTasks, HitFinder
    <3>2. DetectorTasks' = DetectorTasks
      BY <3>1 DEF DetectorTasks
    <3> QED BY <1>1, <2>1, <3>1, <3>2
  <2>2. CASE ~Past("initTasks")
    BY <1>1, <2>2 DEF Inited
  <2> QED BY <2>1, <2>2
<1>3. inited' # {} => outputTree' /\ Len(main') <= 5
  BY DEF Inited
<1> QED BY <1>1, <1>2, <1>3 DEF Inited

LEMMA SetSimulationRuns == ASSUME Running, SetSimulation PROVE Running'
<1>1. /\ MainIsSuffix' /\ Len(main) = 10 /\ Len(main') = 9 /\ input' = input
      /\ Len(main) \in Nat
  <2>1. Calling("setSimulation") /\ Return /\ call' = call
    BY DEF SetSimulation
  <2>2. /\ MainIsSuffix' /\ Len(main) = Place(input, "setSimulation")
        /\ Len(main') = Len(main) - 1 /\ input' = input
    BY <2>1, Returned
  <2> QED BY <2>2, Places
<1>2. input = "DR"
  BY <1>1 DEF Running, MainIsSuffix, MainOf
<1>3. BuiltSoFar' = BuiltSoFar
  BY <1>1, BuiltStays DEF BuiltSoFar, SetSimulation
<1>4. registered' = RegisteredSoFar'
  BY <1>1, <1>2 DEF Running, Registry, RegisteredSoFar, RegisteredAt, SetSimulation, Register
<1>5. Registry'
  <2>1. sim' = (input' = "DR" /\ Past("setSimulation")')
    <3>1. input' = "DR" /\ Past("setSimulation")' /\ sim' = TRUE
      BY <1>1, <1>2, Places DEF Past, SetSimulation
    <3> QED BY <3>1
  <2>2. outputTree' \in BOOLEAN /\ (outputTree' => Past("book")')
    BY <1>1, <1>2, Places DEF Running, Registry, Past, SetSimulation
  <2>3. categories' = CategoriesOf(BuiltSoFar')
    BY <1>3 DEF Running, Registry, SetSimulation
  <2>4. branches' = IF Past("initBranches")' THEN BuiltSoFar' ELSE {}
    BY <1>1, <1>3, Places DEF Running, Registry, Past, SetSimulation
  <2> QED BY <1>4, <2>1, <2>2, <2>3, <2>4 DEF Registry
<1>6. tasks = {} /\ inited = {}
  BY <1>1, <1>2, Places DEF Running, Inited, Past
<1>7. Inited'
  BY <1>1, <1>2, <1>6, Places, InitedStays DEF Running, SetSimulation
<1>8. Filled'
  BY <1>1, <1>3, FilledStays DEF Running, SetSimulation
<1> QED BY <1>1, <1>5, <1>7, <1>8 DEF Running

(* Without a call behind it that could have built or inited anything.      *)
LEMMA NothingBuilt ==
  ASSUME NEW i, NEW n \in Nat, n > 5, n < 7 => i # "DR", NEW out
  PROVE  BuiltAt(i, n, out, {}) = {}
BY DEF BuiltAt

LEMMA NothingYet ==
  ASSUME Running, Len(main) > 5, Len(main) < 7 => input # "DR"
  PROVE  inited = {} /\ BuiltSoFar = {}
<1>1. Len(main) \in Nat
  BY DEF Running, MainIsSuffix, MainOf
<1>2. inited = {}
  BY <1>1 DEF Running, Inited
<1> QED BY <1>1, <1>2, NothingBuilt DEF BuiltSoFar

LEMMA BookRuns == ASSUME Running, Book PROVE Running'
<1>1. /\ MainIsSuffix' /\ Len(main) = Place(input, "book") /\ Len(main') = Len(main) - 1
      /\ input' = input /\ Len(main) \in Nat
  <2>1. Calling("book") /\ Return /\ call' = call
    BY DEF Book
  <2> QED BY <2>1, Returned
<1>2. \/ input = "DR" /\ Len(main) = 9 /\ Len(main') = 8
      \/ input # "DR" /\ Len(main) = 8 /\ Len(main') = 7
  BY <1>1, Places
<1>3. inited = {} /\ BuiltSoFar = {} /\ BuiltSoFar' = {}
  <2>1. inited = {} /\ BuiltSoFar = {}
    BY <1>1, <1>2, NothingYet
  <2>2. inited' = {}
    BY <2>1 DEF Book
  <2>3. Len(main') \in Nat /\ Len(main') > 6
    <3> DEFINE n == Len(main')
    <3>1. n = 8 \/ n = 7
      BY <1>2
    <3> HIDE DEF n
    <3>2. n \in Nat /\ n > 6
      BY <3>1
    <3> QED BY <3>2 DEF n
  <2>4. BuiltAt(input, Len(main'), outputTree', {}) = {}
    BY <2>3, NothingBuilt
  <2> QED BY <1>1, <2>1, <2>2, <2>4 DEF BuiltSoFar
<1>4. RegisteredSoFar' = RegisteredSoFar
  <2>1. Len(main) \notin (IF input = "DR" THEN {10, 8} ELSE {6, 4})
    BY <1>2
  <2>2. RegisteredAt(input, Len(main) - 1) = RegisteredAt(input, Len(main))
    BY <1>1, <2>1, RegisteredStays
  <2> QED BY <1>1, <2>2 DEF RegisteredSoFar
<1>5. Registry'
  <2>1. sim' = (input' = "DR" /\ Past("setSimulation")')
    <3>1. Past("setSimulation") /\ Past("setSimulation")'
      BY <1>1, <1>2, Places DEF Past
    <3>2. sim' = sim
      BY DEF Book
    <3> QED BY <1>1, <3>1, <3>2, Zenon DEF Running, Registry
  <2>2. outputTree' \in BOOLEAN /\ Past("book")'
    BY <1>1, <1>2, Places DEF Past, Book
  <2>3. categories' = CategoriesOf(BuiltSoFar')
    BY <1>3 DEF Running, Registry, Book
  <2>4. branches' = {} /\ registered' = RegisteredSoFar'
    BY <1>1, <1>2, <1>3, <1>4, Places DEF Running, Registry, Past, Book
  <2> QED BY <1>3, <2>1, <2>2, <2>3, <2>4 DEF Registry
<1>6. Inited'
  BY <1>1, <1>2, <1>3, Places, InitedStays DEF Running, Book
<1>7. Filled'
  BY <1>1, <1>3, FilledStays DEF Running, Book
<1> QED BY <1>1, <1>5, <1>6, <1>7 DEF Running

LEMMA InitTasksRuns == ASSUME Running, InitTasks PROVE Running'
<1>1. /\ MainIsSuffix' /\ Len(main) = Place(input, "initTasks") /\ Len(main') = Len(main) - 1
      /\ input' = input /\ Len(main) \in Nat
  <2>1. Calling("initTasks") /\ Return /\ call' = call
    BY DEF InitTasks
  <2> QED BY <2>1, Returned
<1>2. \/ input = "DR" /\ Len(main) = 6 /\ Len(main') = 5
      \/ input # "DR" /\ Len(main) = 7 /\ Len(main') = 6
  BY <1>1, Places
<1>3. tasks = {} /\ inited = {}
  BY <1>1, <1>2, Places DEF Running, Inited, Past
<1>4. tasks' = DetectorTasks /\ inited' = {} /\ sim' = sim
  <2>1. \A t \in DetectorTasks : t.step < 8
    BY DEF DetectorTasks, Task
  <2> QED BY <1>3, <2>1 DEF InitTasks, registry
<1>5. Registry' /\ BuiltSoFar' = BuiltSoFar
  <2>1. registry' = registry /\ inited' = inited
    BY DEF InitTasks
  <2> QED BY <1>1, <1>2, <2>1, RegistryStays DEF Running
<1>6. Inited'
  <2>1. Past("initTasks")' /\ ~Past("init")'
    BY <1>1, <1>2, Places DEF Past
  <2>2. DetectorTasks' = DetectorTasks
    BY <1>4 DEF DetectorTasks
  <2> QED BY <1>4, <2>1, <2>2 DEF Inited
<1>7. Filled'
  BY <1>1, <1>5, FilledStays DEF Running, InitTasks, registry
<1> QED BY <1>1, <1>5, <1>6, <1>7 DEF Running

LEMMA InitCategoriesRuns == ASSUME Running, InitCategories PROVE Running'
<1>1. /\ MainIsSuffix' /\ Len(main) = Place(input, "initCategories")
      /\ Len(main') = Len(main) - 1 /\ input' = input /\ Len(main) \in Nat
  <2>1. Calling("initCategories") /\ Return /\ call' = call
    BY DEF InitCategories
  <2> QED BY <2>1, Returned
<1>2. \/ input = "DR" /\ Len(main) = 8 /\ Len(main') = 7
      \/ input # "DR" /\ Len(main) = 6 /\ Len(main') = 5
  BY <1>1, Places
<1>3. BuiltSoFar' = BuiltSoFar /\ inited = {}
  <2>1. BuiltAt(input, Len(main) - 1, outputTree, inited) = BuiltAt(input, Len(main), outputTree, inited)
    BY <1>1, <1>2, BuiltStays
  <2>2. outputTree' = outputTree /\ inited' = inited
    BY DEF InitCategories
  <2>3. inited = {}
    BY <1>1, <1>2, NothingYet
  <2> QED BY <1>1, <2>1, <2>2, <2>3 DEF BuiltSoFar
<1>4. (sim <=> input = "DR") /\ sim \in BOOLEAN /\ sim' = sim
  <2>1. Past("setSimulation") <=> Len(main) < 10
    BY Places DEF Past
  <2>2. sim = (input = "DR" /\ Past("setSimulation"))
    BY DEF Running, Registry
  <2>3. Past("setSimulation")
    BY <1>1, <1>2, <2>1
  <2> QED BY <2>2, <2>3 DEF InitCategories
<1>5. registered' = RegisteredSoFar'
  <2>1. registered = RegisteredAt(input, Len(main))
    BY DEF Running, Registry, RegisteredSoFar
  <2>2. registered' = registered \cup {"FibersCal", "FibersHit", "FibersClus"}
                                 \cup (IF input = "DR" THEN {"GeantFibersRaw"} ELSE {"FibersRaw"})
    BY <1>4 DEF InitCategories, Register
  <2>3. registered' = RegisteredAt(input, Len(main) - 1)
    BY <1>1, <1>2, <2>1, <2>2 DEF RegisteredAt
  <2> QED BY <1>1, <2>3 DEF RegisteredSoFar
<1>6. Registry'
  <2>1. sim' = (input' = "DR" /\ Past("setSimulation")')
    <3>1. Past("setSimulation")'
      BY <1>1, <1>2, Places DEF Past
    <3> QED BY <1>1, <1>4, <3>1
  <2>2. outputTree' \in BOOLEAN /\ (outputTree' => Past("book")')
    BY <1>1, <1>2, Places DEF Running, Registry, Past, InitCategories
  <2>3. categories' = CategoriesOf(BuiltSoFar')
    BY <1>3 DEF Running, Registry, InitCategories
  <2>4. branches' = IF Past("initBranches")' THEN BuiltSoFar' ELSE {}
    BY <1>1, <1>2, <1>3, Places DEF Running, Registry, Past, InitCategories
  <2> QED BY <1>5, <2>1, <2>2, <2>3, <2>4 DEF Registry
<1>7. Inited'
  BY <1>1, <1>2, <1>4, Places, InitedStays DEF Running, InitCategories
<1>8. Filled'
  BY <1>1, <1>3, FilledStays DEF Running, InitCategories
<1> QED BY <1>1, <1>6, <1>7, <1>8 DEF Running

(* Building what is registered.                                            *)
LEMMA BuildingExtends ==
  ASSUME NEW cs \in Seq(Cats), NEW regs, NEW B, Builds(cs, regs), outputTree \in BOOLEAN,
         categories = CategoriesOf(B)
  PROVE  Built(cs, regs) = CategoriesOf(B \cup ToSet(cs))
<1>1. Built(cs, regs) = [c \in Cats |-> IF c \in ToSet(cs) THEN "built" ELSE categories[c]]
  BY BuiltAre
<1>2. \A c \in Cats : categories[c] = IF c \in B THEN "built" ELSE "absent"
  BY DEF CategoriesOf
<1> HIDE DEF Built, ToSet
<1> QED BY <1>1, <1>2 DEF CategoriesOf

LEMMA CatsAre ==
  Cats = {"GeantTrack", "GeantFibersRaw", "DDSamples", "FibersRaw", "FibersCal", "FibersHit",
          "FibersClus"}
BY DEF Cats, Position

LEMMA ToSetOfOne == \A x : ToSet(<<x>>) = {x}
BY DEF ToSet

LEMMA WrittenByIs ==
  /\ WrittenBy("DD") = <<"DDSamples", "FibersRaw">>
  /\ WrittenBy("Board") = <<"FibersRaw", "FibersCal">>
  /\ WrittenBy("DR") = <<"GeantTrack", "GeantFibersRaw", "FibersCal">>
  /\ ToSet(WrittenBy("DD")) = {"DDSamples", "FibersRaw"}
  /\ ToSet(WrittenBy("Board")) = {"FibersRaw", "FibersCal"}
  /\ ToSet(WrittenBy("DR")) = {"GeantTrack", "GeantFibersRaw", "FibersCal"}
<1>1. /\ WrittenBy("DD") = <<"DDSamples", "FibersRaw">>
      /\ WrittenBy("Board") = <<"FibersRaw", "FibersCal">>
      /\ WrittenBy("DR") = <<"GeantTrack", "GeantFibersRaw", "FibersCal">>
  BY DEF WrittenBy
<1> QED BY <1>1 DEF ToSet

LEMMA BuildCalRuns == ASSUME Running, BuildCal PROVE Running'
<1>1. /\ MainIsSuffix' /\ Len(main) = 7 /\ Len(main') = 6 /\ input' = input
  <2>1. Calling("buildCal") /\ Return /\ call' = call
    BY DEF BuildCal
  <2>2. /\ MainIsSuffix' /\ Len(main) = Place(input, "buildCal")
        /\ Len(main') = Len(main) - 1 /\ input' = input
    BY <2>1, Returned
  <2> QED BY <2>2, Places
<1>2. input = "DR"
  <2>1. MainOf(input)[Len(MainOf(input)) - 6] = "buildCal"
    BY <1>1, CallAt DEF BuildCal, Calling, Running, MainIsSuffix, MainOf
  <2> QED BY <2>1 DEF Running, MainIsSuffix, MainOf
<1>3. inited = {} /\ inited' = {} /\ outputTree' = outputTree
  <2>1. inited = {}
    BY <1>1 DEF Running, Inited
  <2> QED BY <2>1 DEF BuildCal
<1>4. BuiltSoFar = {} /\ BuiltSoFar' = IF outputTree THEN {"FibersCal"} ELSE {}
  BY <1>1, <1>2, <1>3 DEF BuiltSoFar, BuiltAt
<1>5. "FibersCal" \in registered
  BY <1>1, <1>2 DEF Running, Registry, RegisteredSoFar, RegisteredAt
<1>6. categories' = CategoriesOf(BuiltSoFar')
  <2>1. categories = CategoriesOf({}) /\ outputTree \in BOOLEAN
    BY <1>4 DEF Running, Registry
  <2>2. categories' = Built(<<"FibersCal">>, registered) /\ <<"FibersCal">> \in Seq(Cats)
    BY CatsAre DEF BuildCal
  <2>3. CASE outputTree
    <3>1. Builds(<<"FibersCal">>, registered)
      BY <1>5, <2>3, ToSetOfOne DEF Builds
    <3>2. categories' = CategoriesOf({} \cup ToSet(<<"FibersCal">>))
      BY <2>1, <2>2, <3>1, BuildingExtends
    <3>3. {} \cup ToSet(<<"FibersCal">>) = BuiltSoFar'
      BY <1>4, <2>3, ToSetOfOne
    <3> QED BY <3>2, <3>3
  <2>4. CASE ~outputTree
    BY <1>4, <2>1, <2>2, <2>4 DEF Built
  <2> QED BY <2>3, <2>4
<1>7. Registry'
  <2>1. sim' = (input' = "DR" /\ Past("setSimulation")')
    <3>1. Past("setSimulation") /\ Past("setSimulation")'
      BY <1>1, <1>2, Places DEF Past
    <3>2. sim' = sim
      BY DEF BuildCal
    <3> QED BY <1>1, <3>1, <3>2, Zenon DEF Running, Registry
  <2>2. outputTree' \in BOOLEAN /\ Past("book")'
    BY <1>1, <1>2, Places DEF Running, Registry, Past, BuildCal
  <2>3. registered' = RegisteredSoFar'
    <3>1. registered' = RegisteredAt(input, 7) /\ RegisteredSoFar' = RegisteredAt(input, 6)
      BY <1>1 DEF Running, Registry, RegisteredSoFar, BuildCal
    <3> QED BY <1>2, <3>1 DEF RegisteredAt
  <2>4. branches' = {} /\ ~Past("initBranches")'
    BY <1>1, <1>2, Places DEF Running, Registry, Past, BuildCal
  <2> QED BY <1>6, <2>1, <2>2, <2>3, <2>4 DEF Registry
<1>8. Inited'
  BY <1>1, <1>2, Places, InitedStays DEF Running, BuildCal
<1>9. Filled'
  BY <1>1, <1>4, FilledStays DEF Running, BuildCal
<1> QED BY <1>1, <1>7, <1>8, <1>9 DEF Running

(* When the tasks are inited, everything they ask for is registered.       *)
LEMMA AtInit ==
  ASSUME Running, Len(main) <= 5
  PROVE  /\ input \in {"DD", "Board", "DR"} /\ (sim <=> input = "DR") /\ sim \in BOOLEAN
         /\ tasks = IF input = "DR" THEN {HitFinder, ClusterFinder} ELSE AllTasks
         /\ {"FibersCal", "FibersHit", "FibersClus"} \subseteq registered
         /\ input # "DR" => "FibersRaw" \in registered
         /\ input = "DR" => {"GeantTrack", "GeantFibersRaw"} \subseteq registered
<1> DEFINE n == Len(main)
<1>1. n \in Nat /\ n <= 5 /\ input \in {"DD", "Board", "DR"}
  BY DEF Running, MainIsSuffix, MainOf
<1>2. Past("setSimulation") /\ Past("initTasks")
  <2>1. (Past("setSimulation") <=> n < 10) /\ (n < 6 => Past("initTasks"))
    BY <1>1, Places DEF Past
  <2> QED BY <1>1, <2>1
<1>3. registered = RegisteredAt(input, n)
  BY DEF Running, Registry, RegisteredSoFar
<1> HIDE DEF n
<1>4. (sim <=> input = "DR") /\ sim \in BOOLEAN
  <2>1. sim = (input = "DR" /\ Past("setSimulation"))
    BY DEF Running, Registry
  <2> QED BY <1>2, <2>1
<1>5. tasks = IF input = "DR" THEN {HitFinder, ClusterFinder} ELSE AllTasks
  <2>1. tasks = DetectorTasks
    BY <1>2 DEF Running, Inited
  <2> QED BY <1>4, <2>1
       DEF DetectorTasks, AllTasks, Unpacker, Calibrator, HitFinder, ClusterFinder
<1>6. n < 10 /\ n < 8 /\ n < 6
  BY <1>1
<1> QED BY <1>1, <1>3, <1>4, <1>5, <1>6 DEF RegisteredAt

(* Those are what the tasks read and write.                                *)
LEMMA InputsAndOutputs ==
  /\ InputOf(Unpacker.name) = {} /\ OutputOf(Unpacker.name) = "FibersRaw"
  /\ InputOf(Calibrator.name) = {"FibersRaw"} /\ OutputOf(Calibrator.name) = "FibersCal"
  /\ InputOf(HitFinder.name) = {"FibersCal"} /\ OutputOf(HitFinder.name) = "FibersHit"
  /\ InputOf(ClusterFinder.name) = {"FibersHit"} /\ OutputOf(ClusterFinder.name) = "FibersClus"
BY Steps DEF InputOf, OutputOf

LEMMA OutputsAreCats ==
  \A t \in AllTasks : OutputOf(t.name) \in Cats /\ <<OutputOf(t.name)>> \in Seq(Cats)
BY InputsAndOutputs, CatsAre DEF AllTasks

(* A task finds what it asks for when those before it have been inited.    *)
LEMMA TaskIsReady ==
  ASSUME Running, Len(main) = 5, outputTree, NEW t, NextTask(t)
  PROVE  /\ \A c \in InputOf(t.name) : categories[c] = "built"
         /\ Builds(<<OutputOf(t.name)>>, registered)
<1>1. t \in tasks /\ t \in AllTasks
  BY AtInit DEF NextTask, AllTasks
<1>2. Builds(<<OutputOf(t.name)>>, registered)
  <2>1. OutputOf(t.name) \in registered
    BY <1>1, AtInit, InputsAndOutputs DEF AllTasks
  <2> QED BY <2>1, ToSetOfOne DEF Builds
<1>3. /\ input = "DR" => "FibersCal" \in BuiltSoFar
      /\ \A u \in inited : OutputOf(u.name) \in BuiltSoFar
  BY DEF BuiltSoFar, BuiltAt
<1>4. \A u \in tasks : u.step < t.step => u \in inited
  BY <1>1, Steps, AtInit DEF NextTask, AllTasks
<1>5. InputOf(t.name) \subseteq BuiltSoFar
  <2>1. CASE t = Unpacker
    BY <2>1, InputsAndOutputs
  <2>2. CASE t = Calibrator
    <3>1. Unpacker \in tasks
      BY <1>1, <2>2, AtInit, Steps DEF AllTasks
    <3> QED BY <1>3, <1>4, <2>2, <3>1, InputsAndOutputs, Steps
  <2>3. CASE t = HitFinder
    <3>1. input # "DR" => Calibrator \in tasks
      BY AtInit DEF AllTasks
    <3> QED BY <1>3, <1>4, <2>3, <3>1, InputsAndOutputs, Steps
  <2>4. CASE t = ClusterFinder
    <3>1. HitFinder \in tasks
      BY AtInit DEF AllTasks
    <3> QED BY <1>3, <1>4, <2>4, <3>1, InputsAndOutputs, Steps
  <2> QED BY <1>1, <2>1, <2>2, <2>3, <2>4 DEF AllTasks
<1>6. \A c \in InputOf(t.name) : c \in Cats
  BY <1>1, InputsAndOutputs, CatsAre DEF AllTasks
<1>7. \A c \in InputOf(t.name) : categories[c] = "built"
  BY <1>5, <1>6 DEF Running, Registry, CategoriesOf
<1> QED BY <1>2, <1>7

LEMMA InitTaskRuns == ASSUME Running, NEW t \in tasks, InitTask(t) PROVE Running'
<1>1. Len(main) = 5 /\ NextTask(t)
  <2>1. Calling("init") /\ NextTask(t)
    BY DEF InitTask
  <2> QED BY <2>1, CallAt, Places DEF Running, Calling
<1>2. /\ UNCHANGED <<input, main, status, sim, outputTree, registered, branches, tasks>>
      /\ UNCHANGED <<content, tree, events, files>>
      /\ inited' = inited \cup {t}
  BY DEF InitTask, call
<1>3. outputTree /\ Builds(<<OutputOf(t.name)>>, registered)
  BY DEF InitTask, Builds
<1>4. t \in AllTasks
  BY <1>1, AtInit DEF AllTasks
<1>5. BuiltSoFar' = BuiltSoFar \cup {OutputOf(t.name)}
  BY <1>2, <1>3 DEF BuiltSoFar, BuiltAt
<1>6. categories' = CategoriesOf(BuiltSoFar')
  <2>1. categories = CategoriesOf(BuiltSoFar) /\ outputTree \in BOOLEAN
    BY DEF Running, Registry
  <2>2. Built(<<OutputOf(t.name)>>, registered) = CategoriesOf(BuiltSoFar \cup ToSet(<<OutputOf(t.name)>>))
    BY <1>3, <1>4, <2>1, OutputsAreCats, BuildingExtends
  <2>3. categories' = Built(<<OutputOf(t.name)>>, registered)
    BY DEF InitTask
  <2>4. ToSet(<<OutputOf(t.name)>>) = {OutputOf(t.name)}
    BY ToSetOfOne
  <2> QED BY <1>5, <2>2, <2>3, <2>4
<1>7. MainIsSuffix'
  BY <1>2 DEF Running, MainIsSuffix
<1>8. Registry'
  <2>1. registered' = RegisteredSoFar'
    BY <1>2 DEF Running, Registry, RegisteredSoFar
  <2>2. sim' = (input' = "DR" /\ Past("setSimulation")')
    BY <1>2 DEF Running, Registry, Past
  <2>3. outputTree' \in BOOLEAN /\ (outputTree' => Past("book")')
    BY <1>2 DEF Running, Registry, Past
  <2>4. branches' = {} /\ ~Past("initBranches")'
    <3>1. ~Past("initBranches")
      BY <1>1, Places DEF Past
    <3> QED BY <1>2, <3>1 DEF Running, Registry, Past
  <2> QED BY <1>6, <2>1, <2>2, <2>3, <2>4 DEF Registry
<1>9. Inited'
  <2>1. tasks' = IF Past("initTasks")' THEN DetectorTasks' ELSE {}
    BY <1>2 DEF Running, Inited, Past, DetectorTasks
  <2>2. inited' \subseteq tasks' /\ outputTree' /\ Len(main') <= 5
    <3>1. inited' \subseteq tasks' /\ outputTree'
      BY <1>2, <1>3 DEF Running, Inited
    <3>2. Len(main') = 5
      BY <1>1, <1>2
    <3> QED BY <3>1, <3>2
  <2>3. ~Past("init")'
    <3>1. ~Past("init")
      BY <1>1, Places DEF Past
    <3> QED BY <1>2, <3>1 DEF Past
  <2>4. ASSUME NEW u \in inited', NEW v \in tasks' \ inited' PROVE u.step < v.step
    <3>1. CASE u \in inited
      BY <1>2, <2>4, <3>1 DEF Running, Inited
    <3>2. CASE u = t
      <4>1. t.step <= v.step /\ v # t
        BY <1>1, <1>2, <2>4 DEF NextTask
      <4>2. v \in AllTasks
        BY <1>1, <1>2, <2>4, AtInit DEF AllTasks
      <4> QED BY <1>4, <3>2, <4>1, <4>2, Steps DEF AllTasks
    <3> QED BY <1>2, <2>4, <3>1, <3>2
  <2> QED BY <2>1, <2>2, <2>3, <2>4 DEF Inited
<1>10. Filled'
  <2>1. /\ content' \in [Cats -> Nat] /\ \A c \in Cats \ BuiltSoFar' : content'[c] = 0
    BY <1>2, <1>5 DEF Running, Filled
  <2>2. \A e \in DOMAIN tree' : tree'[e] = [c \in branches' |-> IF events'[e] THEN Id(e)' ELSE 0]
    BY <1>2 DEF Running, Filled, Id
  <2> QED BY <1>2, <2>1, <2>2 DEF Running, Filled, Past
<1> QED BY <1>7, <1>8, <1>9, <1>10 DEF Running

LEMMA TasksInitedRuns == ASSUME Running, TasksInited PROVE Running'
<1>1. /\ MainIsSuffix' /\ Len(main) = 5 /\ Len(main') = 4 /\ input' = input
  <2>1. Calling("init") /\ Return /\ call' = call
    BY DEF TasksInited
  <2>2. /\ MainIsSuffix' /\ Len(main) = Place(input, "init")
        /\ Len(main') = Len(main) - 1 /\ input' = input
    BY <2>1, Returned
  <2> QED BY <2>2, Places
<1>2. /\ UNCHANGED <<registry, sim, outputTree, branches, tasks, inited>>
      /\ UNCHANGED <<content, tree, events, files>> /\ inited = tasks
  BY DEF TasksInited, registry
<1>3. Registry' /\ BuiltSoFar' = BuiltSoFar
  BY <1>1, <1>2, RegistryStays DEF Running
<1>4. Inited'
  <2>1. tasks = DetectorTasks /\ DetectorTasks' = DetectorTasks /\ Past("initTasks")'
    BY <1>1, <1>2, Places DEF Running, Inited, Past, DetectorTasks
  <2>2. inited # {} => outputTree
    BY DEF Running, Inited
  <2> QED BY <1>1, <1>2, <2>1, <2>2 DEF Inited
<1>5. Filled'
  BY <1>1, <1>2, <1>3, FilledStays DEF Running
<1> QED BY <1>1, <1>3, <1>4, <1>5 DEF Running

(* The unpackers' categories are registered when the sources are opened.   *)
LEMMA WrittenAreRegistered ==
  ASSUME Running, Len(main) = 4
  PROVE  /\ ToSet(WrittenBy(input)) \subseteq registered \cup RegisteredBy(input)
         /\ WrittenBy(input) \in Seq(Cats)
<1>1. WrittenBy(input) \in Seq(Cats)
  <2>1. \A a, b, c \in Cats : <<a, b>> \in Seq(Cats) /\ <<a, b, c>> \in Seq(Cats)
    OBVIOUS
  <2>2. WrittenBy("DD") \in Seq(Cats) /\ WrittenBy("Board") \in Seq(Cats) /\ WrittenBy("DR") \in Seq(Cats)
    BY <2>1, CatsAre DEF WrittenBy
  <2> QED BY <2>2, AtInit
<1>2. ToSet(WrittenBy(input)) \subseteq registered \cup RegisteredBy(input)
  BY AtInit, WrittenByIs DEF RegisteredBy
<1> QED BY <1>1, <1>2

LEMMA OpenRuns == ASSUME Running, Open PROVE Running'
<1>1. /\ MainIsSuffix' /\ Len(main) = 4 /\ Len(main') = 3 /\ input' = input
  <2>1. Calling("open") /\ Return /\ call' = call
    BY DEF Open
  <2>2. /\ MainIsSuffix' /\ Len(main) = Place(input, "open")
        /\ Len(main') = Len(main) - 1 /\ input' = input
    BY <2>1, Returned
  <2> QED BY <2>2, Places
<1>2. /\ UNCHANGED <<sim, outputTree, branches, tasks, inited, content, tree, events, files>>
      /\ registered' = registered \cup RegisteredBy(input)
      /\ Builds(WrittenBy(input), registered')
      /\ categories' = Built(WrittenBy(input), registered')
  BY DEF Open
<1>3. outputTree
  BY <1>2 DEF Builds
<1>4. BuiltSoFar' = BuiltSoFar \cup ToSet(WrittenBy(input))
  BY <1>1, <1>2, <1>3 DEF BuiltSoFar, BuiltAt
<1>5. categories' = CategoriesOf(BuiltSoFar')
  <2>1. categories = CategoriesOf(BuiltSoFar) /\ outputTree \in BOOLEAN
    BY DEF Running, Registry
  <2>2. WrittenBy(input) \in Seq(Cats)
    BY <1>1, WrittenAreRegistered
  <2> QED BY <1>2, <1>4, <2>1, <2>2, BuildingExtends
<1>6. Registry'
  <2>1. registered' = RegisteredSoFar'
    <3>1. registered = RegisteredAt(input, 4) /\ RegisteredSoFar' = RegisteredAt(input, 3)
      BY <1>1 DEF Running, Registry, RegisteredSoFar
    <3>2. registered' = RegisteredAt(input, 4) \cup RegisteredBy(input)
      BY <1>2, <3>1
    <3>3. RegisteredAt(input, 3) = RegisteredAt(input, 4) \cup RegisteredBy(input)
      BY DEF RegisteredAt, RegisteredBy
    <3> QED BY <3>1, <3>2, <3>3
  <2>2. sim' = (input' = "DR" /\ Past("setSimulation")')
    <3>1. Past("setSimulation") /\ Past("setSimulation")'
      BY <1>1, Places DEF Past
    <3> QED BY <1>1, <1>2, <3>1, Zenon DEF Running, Registry
  <2>3. outputTree' \in BOOLEAN /\ Past("book")'
    BY <1>1, <1>2, Places DEF Running, Registry, Past
  <2>4. branches' = {} /\ ~Past("initBranches")'
    BY <1>1, <1>2, Places DEF Running, Registry, Past
  <2>5. branches' = IF Past("initBranches")' THEN BuiltSoFar' ELSE {}
    BY <2>4, Zenon
  <2>6. outputTree' => Past("book")'
    BY <2>3
  <2>7. outputTree' \in BOOLEAN
    BY <2>3
  <2> QED BY <1>5, <2>1, <2>2, <2>5, <2>6, <2>7 DEF Registry
<1>7. Inited'
  BY <1>1, <1>2, Places, InitedStays DEF Running
<1>8. Filled'
  BY <1>1, <1>2, <1>4, FilledStays DEF Running
<1> QED BY <1>1, <1>6, <1>7, <1>8 DEF Running

LEMMA BuiltAreCats == ASSUME Running PROVE BuiltSoFar \subseteq Cats
<1>1. inited \subseteq AllTasks
  BY DEF Running, Inited, DetectorTasks, AllTasks, Unpacker, Calibrator, HitFinder, ClusterFinder
<1>2. \A t \in inited : OutputOf(t.name) \in Cats
  BY <1>1, OutputsAreCats
<1>3. ToSet(WrittenBy(input)) \subseteq Cats
  BY WrittenByIs, CatsAre DEF Running, MainIsSuffix
<1>4. "FibersCal" \in Cats
  BY CatsAre
<1> QED BY <1>2, <1>3, <1>4 DEF BuiltSoFar, BuiltAt

LEMMA InitBranchesRuns == ASSUME Running, InitBranches PROVE Running'
<1>1. /\ MainIsSuffix' /\ Len(main) = 3 /\ Len(main') = 2 /\ input' = input
  <2>1. Calling("initBranches") /\ Return /\ call' = call
    BY DEF InitBranches
  <2>2. /\ MainIsSuffix' /\ Len(main) = Place(input, "initBranches")
        /\ Len(main') = Len(main) - 1 /\ input' = input
    BY <2>1, Returned
  <2> QED BY <2>2, Places
<1>2. /\ UNCHANGED <<sim, outputTree, registered, categories, tasks, inited>>
      /\ UNCHANGED <<content, tree, events, files>>
      /\ branches' = {c \in Cats : categories[c] = "built"}
  BY DEF InitBranches
<1>3. BuiltSoFar' = BuiltSoFar
  <2>1. BuiltAt(input, 2, outputTree, inited) = BuiltAt(input, 3, outputTree, inited)
    BY DEF BuiltAt
  <2> QED BY <1>1, <1>2, <2>1 DEF BuiltSoFar
<1>4. branches' = BuiltSoFar
  BY <1>2, BuiltAreCats DEF Running, Registry, CategoriesOf
<1>5. Registry'
  <2>1. registered' = RegisteredSoFar'
    <3>1. registered = RegisteredAt(input, 3) /\ RegisteredSoFar' = RegisteredAt(input, 2)
      BY <1>1 DEF Running, Registry, RegisteredSoFar
    <3>2. RegisteredAt(input, 3) = RegisteredAt(input, 2)
      BY DEF RegisteredAt
    <3> QED BY <1>2, <3>1, <3>2
  <2>2. sim' = (input' = "DR" /\ Past("setSimulation")')
    <3>1. Past("setSimulation") /\ Past("setSimulation")'
      BY <1>1, Places DEF Past
    <3> QED BY <1>1, <1>2, <3>1, Zenon DEF Running, Registry
  <2>3. outputTree' \in BOOLEAN /\ Past("book")'
    BY <1>1, <1>2, Places DEF Running, Registry, Past
  <2>4. branches' = BuiltSoFar' /\ Past("initBranches")'
    BY <1>1, <1>3, <1>4, Places DEF Past
  <2>5. categories' = CategoriesOf(BuiltSoFar')
    BY <1>2, <1>3 DEF Running, Registry
  <2> QED BY <2>1, <2>2, <2>3, <2>4, <2>5 DEF Registry
<1>6. Inited'
  BY <1>1, <1>2, Places, InitedStays DEF Running
<1>7. Filled'
  BY <1>1, <1>2, <1>3, FilledStays DEF Running
<1> QED BY <1>1, <1>5, <1>6, <1>7 DEF Running

LEMMA LoopEndsRuns == ASSUME Running, LoopEnds PROVE Running'
<1>1. /\ MainIsSuffix' /\ Len(main) = 2 /\ Len(main') = 1 /\ input' = input
  <2>1. Calling("loop") /\ Return /\ call' = call
    BY DEF LoopEnds
  <2>2. /\ MainIsSuffix' /\ Len(main) = Place(input, "loop")
        /\ Len(main') = Len(main) - 1 /\ input' = input
    BY <2>1, Returned
  <2> QED BY <2>2, Places
<1>2. /\ UNCHANGED <<registry, sim, outputTree, branches, tasks, inited>>
      /\ UNCHANGED <<content, tree, events, files>>
  BY DEF LoopEnds, registry
<1>3. Registry' /\ BuiltSoFar' = BuiltSoFar
  BY <1>1, <1>2, RegistryStays DEF Running
<1>4. Inited'
  BY <1>1, <1>2, Places, InitedStays DEF Running
<1>5. Filled'
  BY <1>1, <1>2, <1>3, FilledStays DEF Running
<1> QED BY <1>1, <1>3, <1>4, <1>5 DEF Running

(* At the events: all tasks are inited, and all of it has been built.      *)
LEMMA AtLoop ==
  ASSUME Running, Len(main) < 4
  PROVE  /\ outputTree /\ inited = tasks
         /\ BuiltSoFar = {"FibersCal", "FibersHit", "FibersClus"} \cup ToSet(WrittenBy(input))
<1> DEFINE n == Len(main)
<1>1. n \in Nat /\ n < 4 /\ n < 7 /\ n <= 5
  BY DEF Running, MainIsSuffix, MainOf
<1>2. Past("init") <=> n < 5
  BY Places DEF Past
<1> HIDE DEF n
<1>3. inited = tasks /\ HitFinder \in tasks /\ ClusterFinder \in tasks
  <2>1. inited = tasks
    BY <1>1, <1>2 DEF Running, Inited
  <2> QED BY <1>1, <2>1, AtInit DEF n, AllTasks
<1>4. outputTree
  BY <1>3 DEF Running, Inited
<1>5. {OutputOf(t.name) : t \in tasks} =
        {"FibersHit", "FibersClus"} \cup (IF input = "DR" THEN {} ELSE {"FibersRaw", "FibersCal"})
  BY <1>1, AtInit, InputsAndOutputs DEF n, AllTasks
<1>6. BuiltSoFar = (IF input = "DR" THEN {"FibersCal"} ELSE {})
                     \cup {OutputOf(t.name) : t \in tasks} \cup ToSet(WrittenBy(input))
  BY <1>1, <1>3, <1>4 DEF BuiltSoFar, BuiltAt, n
<1>7. /\ input # "DR" => "FibersRaw" \in ToSet(WrittenBy(input))
      /\ input \in {"DD", "Board", "DR"}
  BY <1>1, AtInit, WrittenByIs DEF n
<1>8. CASE input = "DR"
  BY <1>3, <1>4, <1>5, <1>6, <1>8
<1>9. CASE input # "DR"
  BY <1>3, <1>4, <1>5, <1>6, <1>7, <1>9
<1> QED BY <1>3, <1>4, <1>8, <1>9

(* The categories of S hold the event id.                                  *)
Holding(S, id) == [c \in Cats |-> IF c \in S THEN id ELSE 0]

LEMMA TaskRun ==
  ASSUME NEW S, NEW id \in Nat \ {0}, NEW t, NEW from \in Cats, InputOf(t.name) = {from},
         OutputOf(t.name) \in Cats
  PROVE  RunTask(Holding(S, id), t) =
           Holding(IF from \in S THEN S \cup {OutputOf(t.name)} ELSE S, id)
<1> DEFINE h == Holding(S, id)
           found == {h[c] : c \in InputOf(t.name)} \ {0}
<1>1. found = IF from \in S THEN {id} ELSE {}
  BY DEF Holding
<1>2. RunTask(h, t) = IF found = {} THEN h
                      ELSE [h EXCEPT ![OutputOf(t.name)] = CHOOSE n \in found : TRUE]
  BY DEF RunTask
<1>3. CASE from \in S
  <2>1. (CHOOSE n \in found : TRUE) = id
    BY <1>1, <1>3
  <2>2. RunTask(h, t) = [h EXCEPT ![OutputOf(t.name)] = id]
    BY <1>1, <1>2, <1>3, <2>1
  <2> QED BY <1>3, <2>2 DEF Holding
<1>4. CASE from \notin S
  BY <1>1, <1>2, <1>4
<1> QED BY <1>3, <1>4

LEMMA UnpackerRun == \A cont : RunTask(cont, Unpacker) = cont
BY InputsAndOutputs DEF RunTask

(* What a record brings goes through all the tasks.                        *)
LEMMA DataGoesThrough ==
  ASSUME Running, Len(main) = 2, NEW id \in Nat \ {0}
  PROVE  RunTasks(Holding(ToSet(WrittenBy(input)), id)) = Holding(BuiltSoFar, id)
<1> DEFINE W == ToSet(WrittenBy(input))
           Cal == IF input = "DR" THEN W ELSE W \cup {"FibersCal"}
<1>1. BuiltSoFar = {"FibersCal", "FibersHit", "FibersClus"} \cup W
  BY AtLoop
<1>2. tasks = (IF input = "DR" THEN {HitFinder, ClusterFinder} ELSE AllTasks)
  BY AtInit
<1>3. /\ "FibersCal" \in Cal
      /\ input # "DR" => "FibersRaw" \in W
  BY AtInit, WrittenByIs
<1> HIDE DEF W
<1>4. RanCalibrator(Holding(W, id), tasks) = Holding(Cal, id)
  <2>1. RanUnpacker(Holding(W, id), tasks) = Holding(W, id)
    BY UnpackerRun DEF RanUnpacker
  <2>2. Calibrator \in tasks <=> input # "DR"
    BY <1>2, Steps DEF AllTasks
  <2>3. CASE input # "DR"
    <3>1. RunTask(Holding(W, id), Calibrator) = Holding(W \cup {"FibersCal"}, id)
      BY <1>3, <2>3, TaskRun, InputsAndOutputs, CatsAre
    <3> QED BY <2>1, <2>2, <2>3, <3>1 DEF RanCalibrator
  <2>4. CASE input = "DR"
    BY <2>1, <2>2, <2>4 DEF RanCalibrator
  <2> QED BY <2>3, <2>4
<1> HIDE DEF Cal
<1>5. RanHitFinder(Holding(W, id), tasks) = Holding(Cal \cup {"FibersHit"}, id)
  <2>1. RunTask(Holding(Cal, id), HitFinder) = Holding(Cal \cup {"FibersHit"}, id)
    BY <1>3, TaskRun, InputsAndOutputs, CatsAre
  <2> QED BY <1>2, <1>4, <2>1 DEF RanHitFinder, AllTasks
<1>6. RanAll(Holding(W, id), tasks) = Holding(Cal \cup {"FibersHit", "FibersClus"}, id)
  <2>1. RunTask(Holding(Cal \cup {"FibersHit"}, id), ClusterFinder) =
          Holding((Cal \cup {"FibersHit"}) \cup {"FibersClus"}, id)
    BY TaskRun, InputsAndOutputs, CatsAre
  <2>2. (Cal \cup {"FibersHit"}) \cup {"FibersClus"} = Cal \cup {"FibersHit", "FibersClus"}
    OBVIOUS
  <2> QED BY <1>2, <1>5, <2>1, <2>2 DEF RanAll, AllTasks
<1>7. Cal \cup {"FibersHit", "FibersClus"} = BuiltSoFar
  BY <1>1, <1>3 DEF Cal
<1>8. tasks \subseteq AllTasks
  BY <1>2 DEF AllTasks
<1> QED BY <1>6, <1>7, <1>8, TasksRunInOrder DEF W

LEMMA NothingGoesThrough ==
  ASSUME Running, Len(main) = 2
  PROVE  RunTasks(Holding({}, 1)) = Holding({}, 1)
<1> DEFINE h == Holding({}, 1)
<1>1. tasks \subseteq AllTasks
  BY AtInit DEF AllTasks
<1>2. RunTask(h, Calibrator) = h /\ RunTask(h, HitFinder) = h /\ RunTask(h, ClusterFinder) = h
  <2>1. ASSUME NEW t, NEW from \in Cats, InputOf(t.name) = {from}, OutputOf(t.name) \in Cats
        PROVE  RunTask(h, t) = h
    <3>1. RunTask(h, t) = Holding(IF from \in {} THEN {} \cup {OutputOf(t.name)} ELSE {}, 1)
      <4>1. 1 \in Nat \ {0}
        OBVIOUS
      <4> QED BY <2>1, <4>1, TaskRun, Zenon
    <3> QED BY <3>1
  <2> HIDE DEF h
  <2>2. {"FibersRaw", "FibersCal", "FibersHit", "FibersClus"} \subseteq Cats
    BY CatsAre
  <2> QED BY <2>1, <2>2, InputsAndOutputs
<1>3. RunTask(h, Unpacker) = h
  BY UnpackerRun
<1> HIDE DEF h
<1>4. RanAll(h, tasks) = h
  BY <1>2, <1>3 DEF RanAll, RanHitFinder, RanCalibrator, RanUnpacker
<1> QED BY <1>1, <1>4, TasksRunInOrder DEF h

LEMMA EventRuns ==
  ASSUME Running, files \in Seq(File), NEW data \in BOOLEAN, Event(data)
  PROVE  Running'
<1> DEFINE id == Id(Len(events) + 1)
           unpacked == [c \in Cats |-> IF data /\ c \in ToSet(WrittenBy(input)) THEN id
                                        ELSE Cleared[c]]
           made == IF data THEN Holding(BuiltSoFar, id) ELSE Holding({}, 1)
           filled == [c \in branches |-> IF data THEN id ELSE 0]
<1>1. Len(main) = 2
  <2>1. Calling("loop")
    BY DEF Event
  <2> QED BY <2>1, CallAt, Places DEF Running, Calling
<1>2. /\ UNCHANGED <<input, main, status, sim, outputTree, registered, categories, branches>>
      /\ UNCHANGED <<tasks, inited, files>>
      /\ content' = RunTasks(unpacked)
      /\ tree' = Append(tree, [c \in branches |-> RunTasks(unpacked)[c]])
      /\ events' = Append(events, data)
  <2>1. UNCHANGED call /\ UNCHANGED registry /\ UNCHANGED <<main, status, tasks, inited, files>>
    BY DEF Event
  <2>2. UNCHANGED input /\ UNCHANGED <<sim, outputTree, registered, categories, branches>>
    BY <2>1 DEF call, registry
  <2> QED BY <2>1, <2>2 DEF Event
<1>3. events \in Seq(BOOLEAN) /\ tree \in Seq(Entry) /\ Len(tree) = Len(events) /\ Len(tree) \in Nat
  BY DEF Running, Filled
<1>4. id \in Nat \ {0}
  <2>1. Len(files) \in Nat
    OBVIOUS
  <2> QED BY <1>3, <2>1 DEF Id
<1>5. branches = BuiltSoFar /\ BuiltSoFar \subseteq Cats
  BY <1>1, Places, BuiltAreCats DEF Running, Registry, Past
<1> HIDE DEF id
<1>6. \A c \in Cats : Cleared[c] = 0
  BY DEF Running, Registry, Filled, CategoriesOf, Cleared
<1>7. unpacked = IF data THEN Holding(ToSet(WrittenBy(input)), id) ELSE Holding({}, 1)
  BY <1>6, Zenon DEF Holding
<1>8. RunTasks(unpacked) = made
  <2>1. CASE data
    BY <1>1, <1>4, <1>7, <2>1, DataGoesThrough
  <2>2. CASE ~data
    BY <1>1, <1>7, <2>2, NothingGoesThrough
  <2> QED BY <2>1, <2>2
<1> HIDE DEF unpacked
<1>9. [c \in branches |-> RunTasks(unpacked)[c]] = filled
  <2>1. \A c \in branches : made[c] = IF data THEN id ELSE 0
    BY <1>5 DEF Holding
  <2> QED BY <1>8, <2>1
<1>10. BuiltSoFar' = BuiltSoFar
  BY <1>2 DEF BuiltSoFar
<1>11. content' \in [Cats -> Nat] /\ \A c \in Cats \ BuiltSoFar' : content'[c] = 0
  BY <1>2, <1>4, <1>8, <1>10 DEF Holding
<1>12. filled \in Entry
  <2>1. filled \in [branches -> Nat] /\ branches \in SUBSET Cats
    BY <1>4, <1>5
  <2> QED BY <2>1 DEF Entry
<1> HIDE DEF filled, made
<1>13. /\ events' \in Seq(BOOLEAN) /\ tree' \in Seq(Entry) /\ Len(tree') = Len(events')
       /\ DOMAIN tree' = 1 .. Len(tree) + 1
       /\ tree'[Len(tree) + 1] = filled /\ events'[Len(tree) + 1] = data
       /\ \A e \in 1 .. Len(tree) : tree'[e] = tree[e] /\ events'[e] = events[e]
  <2>1. tree' = Append(tree, filled) /\ events' = Append(events, data)
    BY <1>2, <1>9
  <2>2. /\ Append(tree, filled) \in Seq(Entry) /\ Len(Append(tree, filled)) = Len(tree) + 1
        /\ Append(tree, filled)[Len(tree) + 1] = filled
        /\ \A e \in 1 .. Len(tree) : Append(tree, filled)[e] = tree[e]
    BY <1>3, <1>12, AppendProperties
  <2>3. /\ Append(events, data) \in Seq(BOOLEAN) /\ Len(Append(events, data)) = Len(events) + 1
        /\ Append(events, data)[Len(events) + 1] = data
        /\ \A e \in 1 .. Len(events) : Append(events, data)[e] = events[e]
    BY <1>3, AppendProperties
  <2>4. DOMAIN tree' = 1 .. Len(tree) + 1
    BY <2>1, <2>2, LenProperties
  <2> QED BY <1>3, <2>1, <2>2, <2>3, <2>4
<1>14. \A e \in DOMAIN tree' : tree'[e] = [c \in branches' |-> IF events'[e] THEN Id(e)' ELSE 0]
  <2> SUFFICES ASSUME NEW e \in 1 .. Len(tree) + 1
               PROVE  tree'[e] = [c \in branches' |-> IF events'[e] THEN Id(e)' ELSE 0]
    BY <1>13
  <2>1. Id(e)' = Id(e) /\ branches' = branches
    BY <1>2 DEF Id
  <2>2. CASE e \in 1 .. Len(tree)
    <3>1. tree[e] = [c \in branches |-> IF events[e] THEN Id(e) ELSE 0]
      BY <1>3, <2>2, LenProperties DEF Running, Filled
    <3>2. tree'[e] = tree[e] /\ events'[e] = events[e]
      BY <1>13, <2>2
    <3> QED BY <2>1, <3>1, <3>2
  <2>3. CASE e = Len(tree) + 1
    <3>1. Id(e) = id
      BY <1>3, <2>3 DEF id
    <3>2. tree'[e] = filled /\ events'[e] = data
      BY <1>13, <2>3
    <3> QED BY <2>1, <3>1, <3>2 DEF filled
  <2> QED BY <1>3, <2>2, <2>3
<1>15. Past("initBranches")'
  <2>1. Past("initBranches")
    BY <1>1, Places DEF Past
  <2> QED BY <1>2, <2>1 DEF Past
<1>16. Filled'
  BY <1>11, <1>13, <1>14, <1>15 DEF Filled
<1>17. MainIsSuffix'
  BY <1>2 DEF Running, MainIsSuffix
<1>18. Registry'
  <2>1. RegisteredSoFar' = RegisteredSoFar
    BY <1>2 DEF RegisteredSoFar
  <2>2. sim' = (input' = "DR" /\ Past("setSimulation")')
    BY <1>2 DEF Running, Registry, Past
  <2>3. outputTree' \in BOOLEAN /\ (outputTree' => Past("book")')
    BY <1>2 DEF Running, Registry, Past
  <2>4. branches' = BuiltSoFar'
    BY <1>2, <1>5, <1>10
  <2>5. categories' = CategoriesOf(BuiltSoFar') /\ registered' = RegisteredSoFar'
    BY <1>2, <1>10, <2>1 DEF Running, Registry
  <2> QED BY <1>15, <2>2, <2>3, <2>4, <2>5 DEF Registry
<1>19. Inited'
  <2>1. DetectorTasks' = DetectorTasks
    BY <1>2 DEF DetectorTasks
  <2>2. (Past("initTasks")' <=> Past("initTasks")) /\ (Past("init")' <=> Past("init"))
    BY <1>2 DEF Past
  <2>3. /\ UNCHANGED <<main, tasks, inited, outputTree>> /\ Inited
    BY <1>2 DEF Running
  <2>4. tasks' = IF Past("initTasks")' THEN DetectorTasks' ELSE {}
    BY <2>1, <2>2, <2>3 DEF Inited
  <2> QED BY <2>2, <2>3, <2>4 DEF Inited
<1> QED BY <1>16, <1>17, <1>18, <1>19 DEF Running

-----------------------------------------------------------------------------
(* Files: what a program leaves is good, and the files before stay so.     *)
LEMMA OverLeaves ==
  ASSUME NEW how, how \in {"tasks", "file", "unpacker", "branches", "exit", "saved"}, Over(how),
         WritingInv, Running,
         how \in {"tasks", "unpacker"} => ~outputTree, how = "saved" => Len(main) = 1
  PROVE  WritingInv'
<1> DEFINE head == {c \in Cats : categories[c] = "built"}
           new == IF how = "saved"
                    THEN [how |-> how, booked |-> outputTree, program |-> input, header |-> head,
                          branches |-> branches, entries |-> tree, events |-> events]
                    ELSE [how |-> how, booked |-> outputTree, program |-> input,
                          header |-> {}, branches |-> {}, entries |-> <<>>, events |-> <<>>]
           n == Len(files)
<1>1. files' = Append(files, new)
  BY DEF Over
<1>2. head = BuiltSoFar /\ BuiltSoFar \subseteq Cats
  BY BuiltAreCats DEF Running, Registry, CategoriesOf
<1>3. /\ outputTree \in BOOLEAN /\ input \in {"DD", "Board", "DR"} /\ branches \subseteq Cats
      /\ tree \in Seq(Entry) /\ events \in Seq(BOOLEAN) /\ Len(tree) = Len(events)
      /\ \A e \in DOMAIN tree : tree[e] = [c \in branches |-> IF events[e] THEN Id(e) ELSE 0]
  BY <1>2 DEF Running, MainIsSuffix, Registry, Filled
<1>4. new \in File
  <2>1. <<>> \in Seq(Entry) /\ <<>> \in Seq(BOOLEAN)
    OBVIOUS
  <2>2. CASE how = "saved"
    BY <1>2, <1>3, <2>2 DEF File
  <2>3. CASE how # "saved"
    BY <1>2, <1>3, <2>1, <2>3 DEF File
  <2> QED BY <2>2, <2>3
<1>5. how = "saved" =>
        /\ new.header = new.branches
        /\ {"FibersCal", "FibersHit", "FibersClus"} \subseteq new.header
  <2> SUFFICES ASSUME how = "saved"
               PROVE  head = branches /\ {"FibersCal", "FibersHit", "FibersClus"} \subseteq head
    OBVIOUS
  <2>1. Len(main) = 1
    OBVIOUS
  <2>2. branches = BuiltSoFar
    <3>1. Past("initBranches")
      BY <2>1, Places DEF Past
    <3> QED BY <3>1 DEF Running, Registry
  <2>3. BuiltSoFar = {"FibersCal", "FibersHit", "FibersClus"} \cup ToSet(WrittenBy(input))
    BY <2>1, AtLoop
  <2> QED BY <1>2, <2>2, <2>3
<1>6. new.how = how /\ new.booked = outputTree
  OBVIOUS
<1>7. how = "saved" => new.branches = branches /\ new.entries = tree /\ new.events = events
  OBVIOUS
<1> HIDE DEF new
<1>8. /\ files' \in Seq(File) /\ Len(files') = n + 1 /\ n \in Nat
      /\ files'[n + 1] = new /\ \A k \in 1 .. n : files'[k] = files[k]
  BY <1>1, <1>4, AppendProperties DEF WritingInv
<1>9. DOMAIN files' = 1 .. n + 1 /\ DOMAIN files = 1 .. n
  BY <1>8, LenProperties DEF WritingInv
<1> HIDE DEF n
<1>10. ProgramsStartUp'
  <2> SUFFICES ASSUME NEW k \in 1 .. n + 1
               PROVE  /\ files'[k].how \in {"tasks", "unpacker"} => ~files'[k].booked
                      /\ files'[k].how # "null"
    BY <1>9 DEF ProgramsStartUp
  <2>1. CASE k \in 1 .. n
    BY <1>8, <1>9, <2>1 DEF WritingInv, ProgramsStartUp
  <2>2. CASE k = n + 1
    BY <1>6, <1>8, <2>2
  <2> QED BY <1>8, <2>1, <2>2
<1>11. EntriesAreOwnEvents'
  <2> SUFFICES ASSUME NEW k \in 1 .. n + 1, files'[k].how = "saved"
               PROVE  /\ files'[k].header = files'[k].branches
                      /\ {"FibersCal", "FibersHit", "FibersClus"} \subseteq files'[k].header
                      /\ Len(files'[k].entries) = Len(files'[k].events)
                      /\ \A e \in DOMAIN files'[k].entries : \A c \in files'[k].branches :
                           files'[k].entries[e][c] =
                             IF files'[k].events[e] THEN (k - 1) * 100 + e ELSE 0
    BY <1>9 DEF EntriesAreOwnEvents
  <2>1. CASE k \in 1 .. n
    BY <1>8, <1>9, <2>1 DEF WritingInv, EntriesAreOwnEvents
  <2>2. CASE k = n + 1
    <3>1. files'[k] = new /\ how = "saved"
      BY <1>6, <1>8, <2>2
    <3>2. ASSUME NEW e \in DOMAIN tree, NEW c \in branches
          PROVE  tree[e][c] = IF events[e] THEN (k - 1) * 100 + e ELSE 0
      <4>1. Id(e) = (k - 1) * 100 + e
        BY <1>8, <2>2 DEF Id, n
      <4> QED BY <1>3, <4>1
    <3>3. new.branches = branches /\ new.entries = tree /\ new.events = events
      BY <1>7, <3>1
    <3>4. Len(new.entries) = Len(new.events)
      BY <1>3, <3>3
    <3>5. \A e \in DOMAIN new.entries : \A c \in new.branches :
            new.entries[e][c] = IF new.events[e] THEN (k - 1) * 100 + e ELSE 0
      BY <3>2, <3>3
    <3> QED BY <1>5, <3>1, <3>4, <3>5
  <2> QED BY <1>8, <2>1, <2>2
<1>12. status' = "idle" /\ Idle'
  BY DEF Over, Idle
<1> QED BY <1>8, <1>10, <1>11, <1>12 DEF WritingInv

LEMMA StartRuns ==
  ASSUME WritingInv, NEW i \in Inputs, NEW m, NEW r, NEW b, Start(i, m, r, b)
  PROVE  WritingInv'
<1>1. /\ input' = i /\ main' = MainOf(i) /\ status = "idle" /\ status' = "running"
      /\ UNCHANGED <<sim, outputTree, registered, categories, branches>>
      /\ UNCHANGED <<tasks, inited, content, tree, events, files>>
  BY DEF Start, registry
<1>2. i \in {"DD", "Board", "DR"}
  BY InputsAssumption
<1> DEFINE n == Len(MainOf(i))
<1>3. /\ i = "DR" => n = 10
      /\ i # "DR" => n = 8
      /\ MainOf(i) = [j \in 1 .. n |-> MainOf(i)[j]]
  BY <1>2 DEF MainOf
<1>4. Len(main') = n
  BY <1>1
<1> HIDE DEF n
<1>5. n \in 8 .. 10
  BY <1>2, <1>3
<1>6. MainIsSuffix'
  <2>1. \A j \in 1 .. n : n - n + j = j
    BY <1>5
  <2>2. main' = [j \in 1 .. n |-> MainOf(i)[n - n + j]]
    BY <1>1, <1>3, <2>1
  <2>3. n \in 1 .. n
    BY <1>5
  <2> QED BY <1>1, <1>2, <1>4, <2>2, <2>3 DEF MainIsSuffix, n
<1>7. Idle
  BY <1>1 DEF WritingInv
<1>8. /\ ~(input' = "DR" /\ Past("setSimulation")') /\ ~Past("initBranches")'
      /\ ~Past("initTasks")' /\ ~Past("init")'
  BY <1>1, <1>3, <1>4, <1>5, Places DEF Past
<1>9. BuiltSoFar' = {} /\ RegisteredSoFar' = {}
  <2>1. RegisteredAt(i, n) = {}
    BY <1>2, <1>3 DEF RegisteredAt
  <2> QED BY <1>1, <1>4, <1>7, <2>1 DEF BuiltSoFar, BuiltAt, RegisteredSoFar, Idle
<1>10. Registry'
  <2>1. sim' = (input' = "DR" /\ Past("setSimulation")')
    BY <1>1, <1>7, <1>8 DEF Idle
  <2>2. categories' = CategoriesOf(BuiltSoFar')
    BY <1>1, <1>7, <1>9 DEF Idle, CategoriesOf
  <2> QED BY <1>1, <1>7, <1>8, <1>9, <2>1, <2>2 DEF Registry, Idle
<1>11. Inited'
  BY <1>1, <1>7, <1>8 DEF Inited, Idle
<1>12. Filled'
  <2>1. content' \in [Cats -> Nat] /\ \A c \in Cats : content'[c] = 0
    BY <1>1, <1>7 DEF Idle, NoContent
  <2> QED BY <1>1, <1>7, <2>1 DEF Filled, Idle
<1>13. UNCHANGED files /\ Running'
  BY <1>1, <1>6, <1>10, <1>11, <1>12 DEF Running
<1> QED BY <1>1, <1>13 DEF WritingInv, ProgramsStartUp, EntriesAreOwnEvents

LEMMA RunningStays ==
  ASSUME WritingInv, status = "running", status' = status, files' = files, Running'
  PROVE  WritingInv'
BY DEF WritingInv, ProgramsStartUp, EntriesAreOwnEvents

(* The programs keep the invariant, whatever goes wrong with them.         *)
LEMMA WritingStep == ASSUME WritingInv, Next PROVE WritingInv'
<1>1. ASSUME NEW i \in Inputs, NEW m \in Sizes, NEW r \in Requests, NEW b \in BOOLEAN,
             Start(i, m, r, b)
      PROVE  WritingInv'
  BY <1>1, StartRuns
<1>2. CASE \/ SetSimulation \/ Book \/ InitTasks \/ InitCategories \/ BuildCal
           \/ TasksInited \/ Open \/ InitBranches \/ LoopEnds
  <2>1. status = "running" /\ UNCHANGED <<status, files>>
    BY <1>2 DEF Calling, SetSimulation, Book, InitTasks, InitCategories, BuildCal, TasksInited,
                Open, InitBranches, LoopEnds
  <2>2. Running
    BY <2>1 DEF WritingInv
  <2>3. Running'
    BY <1>2, <2>2, SetSimulationRuns, BookRuns, InitTasksRuns, InitCategoriesRuns, BuildCalRuns,
       TasksInitedRuns, OpenRuns, InitBranchesRuns, LoopEndsRuns
  <2> QED BY <2>1, <2>3, RunningStays
<1>3. ASSUME NEW t \in tasks, InitTask(t) PROVE WritingInv'
  <2>1. status = "running" /\ UNCHANGED <<status, files>>
    BY <1>3 DEF Calling, InitTask
  <2>2. Running
    BY <2>1 DEF WritingInv
  <2> QED BY <1>3, <2>1, <2>2, InitTaskRuns, RunningStays
<1>4. ASSUME NEW t \in tasks, InitTaskFails(t) PROVE WritingInv'
  <2>1. Calling("init") /\ NextTask(t) /\ Over("tasks")
    BY <1>4 DEF InitTaskFails
  <2>2. Running
    BY <2>1 DEF WritingInv, Calling
  <2>3. Len(main) = 5
    BY <2>1, <2>2, CallAt, Places DEF Running, Calling
  <2>4. ~outputTree
    BY <1>4, <2>1, <2>2, <2>3, TaskIsReady DEF InitTaskFails
  <2> QED BY <2>1, <2>2, <2>4, OverLeaves
<1>5. CASE OpenAborts
  <2>1. Calling("open")
    BY <1>5 DEF OpenAborts
  <2>2. Running
    BY <2>1 DEF WritingInv, Calling
  <2>3. Len(main) = 4
    BY <2>1, <2>2, CallAt, Places DEF Running, Calling
  <2>4. Builds(WrittenBy(input), registered \cup RegisteredBy(input)) \/ ~outputTree
    BY <2>2, <2>3, WrittenAreRegistered DEF Builds
  <2>5. Over("file") \/ (Over("unpacker") /\ ~outputTree)
    BY <1>5, <2>4 DEF OpenAborts
  <2> QED BY <2>2, <2>5, OverLeaves
<1>6. CASE InitBranchesCrashes
  BY <1>6, OverLeaves DEF InitBranchesCrashes, WritingInv, Calling
<1>7. ASSUME NEW data \in BOOLEAN, Event(data) PROVE WritingInv'
  <2>1. status = "running" /\ UNCHANGED <<status, files>>
    BY <1>7 DEF Calling, Event
  <2>2. Running /\ files \in Seq(File)
    BY <2>1 DEF WritingInv
  <2> QED BY <1>7, <2>1, <2>2, EventRuns, RunningStays
<1>8. CASE EventStops
  <2>1. Running
    BY <1>8 DEF EventStops, WritingInv, Calling
  <2>2. \A c \in Cats : categories[c] # "null"
    BY <2>1 DEF Running, Registry, CategoriesOf
  <2>3. Over("exit")
    BY <1>8, <2>2 DEF EventStops
  <2> QED BY <2>1, <2>3, OverLeaves
<1>9. CASE Save
  <2>1. Calling("save") /\ Over("saved")
    BY <1>9 DEF Save
  <2>2. Running
    BY <2>1 DEF WritingInv, Calling
  <2>3. Len(main) = 1
    BY <2>1, <2>2, CallAt, Places DEF Running, Calling
  <2> QED BY <2>1, <2>2, <2>3, OverLeaves
<1> QED BY <1>1, <1>2, <1>3, <1>4, <1>5, <1>6, <1>7, <1>8, <1>9 DEF Next

-----------------------------------------------------------------------------
(* Part 3: reading.  The chain of the files has a length.                  *)
LEMMA NatInduction1 ==
  ASSUME NEW S, 0 \in S, \A n \in Nat : n \in S => n + 1 \in S
  PROVE  Nat \subseteq S
<1> SUFFICES ASSUME NEW bad \in Nat, bad \notin S PROVE FALSE
  OBVIOUS
<1>1. IsWellFoundedOn(OpToRel(<, Nat), Nat)
  BY NatLessThanWellFounded
<1> DEFINE T == Nat \ S
<1>2. T \subseteq Nat /\ T # {}
  OBVIOUS
<1>3. PICK x \in T : \A y \in T : ~(<<y, x>> \in OpToRel(<, Nat))
  <2> HIDE DEF T
  <2> QED BY <1>1, <1>2, WFMin
<1>4. x \in Nat /\ x # 0
  OBVIOUS
<1>5. x - 1 \in Nat /\ x - 1 < x /\ (x - 1) + 1 = x
  BY <1>4
<1>6. x - 1 \in T
  BY <1>4, <1>5
<1> QED BY <1>3, <1>5, <1>6 DEF OpToRel

LEMMA Flattened ==
  ASSUME NEW V, NEW seqs \in Seq(Seq(V))
  PROVE  FlattenSeq(seqs) \in Seq(V)
<1> DEFINE n == Len(seqs)
           Body(f, i) == IF i = 1 THEN seqs[i] ELSE f[i - 1] \o seqs[i]
           flat == CHOOSE f : f = [i \in 1 .. n |-> Body(f, i)]
           Good(f, m) == /\ f \in [1 .. m -> Seq(V)]
                         /\ \A i \in 1 .. m : f[i] = Body(f, i)
           S == {m \in Nat : m <= n => \E f : Good(f, m)}
<1>1. n \in Nat /\ \A i \in 1 .. n : seqs[i] \in Seq(V)
  OBVIOUS
<1>2. CASE n = 0
  BY <1>2 DEF FlattenSeq
<1>3. CASE n # 0
  <2>1. 0 \in S
    <3>1. 1 .. 0 = {}
      OBVIOUS
    <3>2. [i \in 1 .. 0 |-> <<>>] \in [1 .. 0 -> Seq(V)]
      BY <3>1
    <3>3. Good([i \in 1 .. 0 |-> <<>>], 0)
      BY <3>1, <3>2
    <3> HIDE DEF Good
    <3> QED BY <3>3
  <2>2. ASSUME NEW m \in Nat, m \in S PROVE m + 1 \in S
    <3> HIDE DEF Good, n
    <3> SUFFICES ASSUME m + 1 <= n PROVE \E f : Good(f, m + 1)
      OBVIOUS
    <3>0. m <= n
      BY <1>1
    <3>1. PICK f : Good(f, m)
      BY <2>2, <3>0
    <3> USE DEF Good, n
    <3> DEFINE g == [i \in 1 .. m + 1 |-> IF i = m + 1 THEN Body(f, i) ELSE f[i]]
    <3>2. seqs[m + 1] \in Seq(V)
      BY <1>1
    <3>3. Body(f, m + 1) \in Seq(V)
      <4>1. CASE m = 0
        BY <3>2, <4>1
      <4>2. CASE m # 0
        <5>1. m \in 1 .. m /\ (m + 1) - 1 = m /\ m + 1 # 1
          BY <4>2
        <5>2. f[m] \in Seq(V)
          BY <3>1, <5>1
        <5>3. f[m] \o seqs[m + 1] \in Seq(V)
          BY <3>2, <5>2
        <5> QED BY <5>1, <5>3
      <4> QED BY <4>1, <4>2
    <3> HIDE DEF Body
    <3>4. g \in [1 .. m + 1 -> Seq(V)]
      BY <3>1, <3>3
    <3>5. ASSUME NEW i \in 1 .. m + 1 PROVE g[i] = Body(g, i)
      <4>1. g[i] = Body(f, i)
        BY <3>1
      <4>2. i = 1 \/ (i - 1 \in 1 .. m + 1 /\ i - 1 # m + 1 /\ g[i - 1] = f[i - 1])
        OBVIOUS
      <4> HIDE DEF g
      <4> QED BY <4>1, <4>2 DEF Body
    <3> HIDE DEF g
    <3>6. Good(g, m + 1)
      BY <3>4, <3>5
    <3> HIDE DEF Good
    <3> QED BY <3>6
  <2> HIDE DEF S, Body
  <2>3. n \in S
    BY <1>1, <2>1, <2>2, NatInduction1
  <2>4. PICK f : Good(f, n)
    BY <1>1, <2>3 DEF S
  <2>5. f = [i \in 1 .. n |-> Body(f, i)]
    BY <2>4
  <2>6. flat = [i \in 1 .. n |-> Body(flat, i)]
    BY <2>5
  <2>7. FlattenSeq(seqs) = flat[n]
    BY <1>3 DEF FlattenSeq, Body
  <2> HIDE DEF flat
  <2> DEFINE T == {m \in Nat : m \in 1 .. n => flat[m] \in Seq(V)}
  <2>8. 0 \in T
    OBVIOUS
  <2>9. ASSUME NEW m \in Nat, m \in T PROVE m + 1 \in T
    <3> SUFFICES ASSUME m + 1 \in 1 .. n PROVE flat[m + 1] \in Seq(V)
      OBVIOUS
    <3>1. flat[m + 1] = Body(flat, m + 1) /\ seqs[m + 1] \in Seq(V)
      BY <1>1, <2>6
    <3>2. CASE m = 0
      BY <3>1, <3>2 DEF Body
    <3>3. CASE m # 0
      <4>1. m \in 1 .. n /\ (m + 1) - 1 = m /\ m + 1 # 1
        BY <1>1, <3>3
      <4>2. flat[m] \in Seq(V)
        BY <2>9, <4>1
      <4>3. flat[m] \o seqs[m + 1] \in Seq(V)
        BY <3>1, <4>2
      <4> QED BY <3>1, <4>1, <4>3 DEF Body
    <3> QED BY <3>2, <3>3
  <2> HIDE DEF T
  <2>10. n \in T /\ n \in 1 .. n
    <3>1. Nat \subseteq T
      BY <2>8, <2>9, NatInduction1
    <3> HIDE DEF n
    <3> QED BY <1>1, <1>3, <3>1
  <2> QED BY <2>7, <2>10 DEF T
<1> QED BY <1>2, <1>3

(* With the entries es of a chain of files fs, the memory m shows event e  *)
(* in the categories b.                                                    *)
ShowsAt(es, fs, b, e, m) ==
  e < Len(es) =>
    \A c \in b :
      /\ c \in fs[es[e + 1].file].branches => m[c] = fs[es[e + 1].file].entries[es[e + 1].entry][c]
      /\ c \notin fs[es[e + 1].file].branches /\ Position[c] < Cardinality(b) => m[c] = 0

ScanSeen(es, fs, b, sn, p) ==
  /\ Len(sn) = p
  /\ \A k \in DOMAIN sn : sn[k].event = k - 1 /\ ShowsAt(es, fs, b, sn[k].event, sn[k].mem)

(* The loop with nextEvent has in memory what its next pass finds.         *)
CalibrationSeen(es, fs, b, sn) ==
  \A k \in DOMAIN sn :
    IF k = 1 THEN \A c \in b : sn[k].mem[c] = 0
    ELSE k - 1 < Len(es) /\ ShowsAt(es, fs, b, k - 1, sn[k].mem)
CalibrationHas(es, fs, b, p, m) == IF p = 0 THEN \A c \in b : m[c] = 0 ELSE ShowsAt(es, fs, b, p, m)

DisplaySeen(es, fs, b, sn, p) ==
  /\ Len(es) > 0 => p < Len(es)
  /\ \A k \in DOMAIN sn : sn[k].event = p /\ ShowsAt(es, fs, b, sn[k].event, sn[k].mem)

ScanClients == {"scan", "residuals", "energy", "energy residuals"}

IsList(sn) == \E V : sn \in Seq(V)

ReadingInv ==
  /\ pc \in {"off", "add", "added", "aborted", "loop", "gui", "shown", "done"}
  /\ pc = "off" <=> client = "none"
  /\ client \in ScanClients \cup {"none", "calibrate", "display"}
  /\ chain \in Seq(DOMAIN files) /\ bound \subseteq Cats
  /\ pass \in Nat /\ IsList(seen)
  /\ pc \in {"off", "add", "added", "aborted", "gui"} => seen = <<>> /\ pass = 0
  /\ pc \in {"gui", "shown"} => client = "display"
  /\ pc = "off" => chain = <<>>
  /\ client \in ScanClients => ScanSeen(Reader!ChainEntries, files, bound, seen, pass)
  /\ client = "calibrate" =>
       /\ CalibrationSeen(Reader!ChainEntries, files, bound, seen)
       /\ pc \in {"add", "added", "aborted", "loop"}
       /\ pc = "loop" => /\ Len(seen) = pass /\ current_event = pass
                         /\ CalibrationHas(Reader!ChainEntries, files, bound, pass, mem)
  /\ client = "display" =>
       /\ DisplaySeen(Reader!ChainEntries, files, bound, seen, pass)
       /\ pc \in {"add", "added", "aborted", "gui", "shown"}

LEMMA AppendAny ==
  ASSUME NEW sn, NEW x, IsList(sn)
  PROVE  /\ IsList(Append(sn, x))
         /\ Len(sn) \in Nat /\ Len(Append(sn, x)) = Len(sn) + 1
         /\ DOMAIN sn = 1 .. Len(sn) /\ DOMAIN Append(sn, x) = 1 .. Len(sn) + 1
         /\ Append(sn, x)[Len(sn) + 1] = x
         /\ \A k \in 1 .. Len(sn) : Append(sn, x)[k] = sn[k]
<1>1. PICK V : sn \in Seq(V)
  BY DEF IsList
<1> DEFINE W == V \cup {x}
<1>2. sn \in Seq(W) /\ x \in W
  BY <1>1
<1> HIDE DEF W
<1>3. /\ Append(sn, x) \in Seq(W) /\ Len(Append(sn, x)) = Len(sn) + 1
      /\ Append(sn, x)[Len(sn) + 1] = x
      /\ \A k \in 1 .. Len(sn) : Append(sn, x)[k] = sn[k]
  BY <1>2, AppendProperties
<1> QED BY <1>2, <1>3, LenProperties DEF IsList

LEMMA ChainHasLength ==
  ASSUME files \in Seq(File), chain \in Seq(DOMAIN files)
  PROVE  /\ Reader!ChainEntries \in Seq([file : DOMAIN files, entry : Nat])
         /\ Reader!GetEntries \in Nat /\ Len(Reader!ChainEntries) = Reader!GetEntries
<1> DEFINE V == [file : DOMAIN files, entry : Nat]
           of(k) == [e \in DOMAIN files[chain[k]].entries |-> [file |-> chain[k], entry |-> e]]
           seqs == [k \in DOMAIN chain |-> of(k)]
<1>1. DOMAIN chain = 1 .. Len(chain) /\ Len(chain) \in Nat /\ DOMAIN files = 1 .. Len(files)
  OBVIOUS
<1>2. ASSUME NEW k \in DOMAIN chain PROVE of(k) \in Seq(V)
  <2>1. chain[k] \in DOMAIN files
    BY <1>1
  <2>2. chain[k] \in Nat
    BY <1>1, <2>1
  <2>3. files[chain[k]] \in File
    BY <1>1, <2>1
  <2>4. files[chain[k]].entries \in Seq(Entry)
    BY <2>3 DEF File
  <2> DEFINE m == Len(files[chain[k]].entries)
  <2>5. DOMAIN files[chain[k]].entries = 1 .. m /\ m \in Nat
    BY <2>4, LenProperties
  <2> HIDE DEF m
  <2>6. of(k) \in [1 .. m -> V]
    BY <2>1, <2>5
  <2> QED BY <2>5, <2>6
<1> HIDE DEF of
<1>3. seqs \in Seq(Seq(V))
  <2> HIDE DEF V
  <2>1. seqs \in [1 .. Len(chain) -> Seq(V)]
    BY <1>1, <1>2
  <2> QED BY <1>1, <2>1
<1>4. FlattenSeq(seqs) \in Seq(V)
  BY <1>3, Flattened
<1>5. Reader!ChainEntries = Reader!FlattenSeq(seqs)
  BY DEF Reader!ChainEntries, of
<1>6. Reader!FlattenSeq(seqs) = FlattenSeq(seqs)
  BY DEF Reader!FlattenSeq, FlattenSeq
<1> QED BY <1>4, <1>5, <1>6, LenProperties DEF Reader!GetEntries

LEMMA ChainStays ==
  ASSUME UNCHANGED <<files, chain>>
  PROVE  /\ Reader!ChainEntries' = Reader!ChainEntries
         /\ Reader!GetEntries' = Reader!GetEntries
<1>1. Reader!ChainEntries' = Reader!ChainEntries
  BY DEF Reader!ChainEntries
<1> QED BY <1>1 DEF Reader!GetEntries

(* After getEvent and nextEvent the categories show the event.             *)
LEMMA AfterEntryShows ==
  ASSUME NEW e, bound \subseteq Cats
  PROVE  ShowsAt(Reader!ChainEntries, files, bound, e, Reader!AfterEntry(e))
<1> DEFINE es == Reader!ChainEntries
           f == es[e + 1].file
<1>1. Reader!Position = Position /\ Reader!Cats = Cats
  BY DEF Reader!Cats, Cats, Reader!Position, Position
<1>2. ASSUME e < Len(es), NEW c \in bound
      PROVE  Reader!AfterEntry(e)[c] =
               IF c \in files[f].branches THEN files[f].entries[es[e + 1].entry][c]
               ELSE IF Position[c] < Cardinality(bound) THEN 0 ELSE mem[c]
  <2>1. c \in Cats /\ e < Reader!GetEntries
    BY <1>2 DEF Reader!GetEntries
  <2>2. Reader!IsCleared(c) <=> Position[c] < Cardinality(bound)
    <3>1. Reader!Cardinality(bound) = Cardinality(bound)
      BY DEF Reader!Cardinality, Cardinality
    <3> QED BY <1>1, <3>1 DEF Reader!IsCleared
  <2> HIDE DEF es
  <2> QED BY <1>1, <2>1, <2>2, Zenon DEF Reader!AfterEntry, es
<1> HIDE DEF es, f
<1> QED BY <1>2 DEF ShowsAt, es, f

(* The steps before the first event is read, and after the last one.       *)
LEMMA QuietSteps ==
  ASSUME files \in Seq(File), ReadingInv,
         \/ \E c \in Clients : Reader!NewLoop(c)
         \/ \E f \in 1 .. Len(files) + 1 : Reader!AddFile(f)
         \/ \E f, g \in 1 .. Len(files) + 1 : Reader!AddFiles(<<f, g>>)
         \/ Reader!Added \/ Reader!SetInput \/ Reader!SetInputAborts
  PROVE  ReadingInv' /\ files' = files
<1>1. /\ pc \in {"off", "add", "added"} /\ files' = files
      /\ pass' = pass /\ seen' = seen
      /\ pc' \in {"add", "added", "aborted", "loop", "gui"}
      /\ client' = client \/ (pc = "off" /\ client' \in Clients)
      /\ pc = "off" => client' \in Clients
      /\ pc' = "loop" => client # "display" /\ client' = client
      /\ pc' = "gui" => client = "display" /\ client' = client
      /\ pc' = "loop" => current_event' = 0 /\ mem' = Reader!Empty
  BY DEF Reader!NewLoop, Reader!AddFile, Reader!AddFiles, Reader!Added, Reader!SetInput,
         Reader!SetInputAborts
<1>2. seen' = <<>> /\ pass' = 0
  BY <1>1 DEF ReadingInv
<1>3. chain' \in Seq(DOMAIN files)
  <2>1. CASE \E f \in 1 .. Len(files) + 1 : Reader!AddFile(f)
    <3> DEFINE D == DOMAIN files
    <3>1. chain \in Seq(D)
      BY DEF ReadingInv
    <3>2. PICK f : chain' = IF f \in D THEN Append(chain, f) ELSE chain
      BY <2>1 DEF Reader!AddFile
    <3> HIDE DEF D
    <3>3. f \in D => Append(chain, f) \in Seq(D)
      BY <3>1, AppendProperties
    <3>4. chain' \in Seq(D)
      BY <3>1, <3>2, <3>3
    <3> QED BY <3>4 DEF D
  <2>2. ASSUME NEW f, NEW g, Reader!AddFiles(<<f, g>>) PROVE chain' \in Seq(DOMAIN files)
    <3> DEFINE list == <<f, g>>
               found == {k \in DOMAIN list : list[k] \in DOMAIN files}
               first == CHOOSE k \in found : \A j \in found : k <= j
    <3>1. chain' = IF found = {} THEN <<>> ELSE <<list[first]>>
      BY <2>2 DEF Reader!AddFiles
    <3>2. found \subseteq {1, 2}
      OBVIOUS
    <3>3. found # {} => first \in found
      <4>1. found # {} => \E k \in found : \A j \in found : k <= j
        <5> HIDE DEF found
        <5>1. found = {} \/ found = {1} \/ found = {2} \/ found = {1, 2}
          BY <3>2
        <5> QED BY <5>1
      <4> QED BY <4>1
    <3>4. found # {} => list[first] \in DOMAIN files
      BY <3>3
    <3>5. \A D : <<>> \in Seq(D) /\ \A x \in D : <<x>> \in Seq(D)
      OBVIOUS
    <3> HIDE DEF found, first, list
    <3> QED BY <3>1, <3>4, <3>5
  <2>3. CASE UNCHANGED chain
    BY <2>3 DEF ReadingInv
  <2> QED BY <2>1, <2>2, <2>3
          DEF Reader!NewLoop, Reader!Added, Reader!SetInput, Reader!SetInputAborts
<1>4. bound' \subseteq Cats
  <2>1. CASE Reader!SetInput
    <3>1. files \in Seq(File) /\ chain \in Seq(DOMAIN files) /\ chain # <<>>
      BY <2>1 DEF Reader!SetInput, ReadingInv
    <3>2. bound' \subseteq files[Reader!HeaderFile].header
      BY <2>1 DEF Reader!SetInput
    <3>3. Reader!HeaderFile \in DOMAIN files
      <4> DEFINE V == [file : DOMAIN files, entry : Nat]
                 es == Reader!ChainEntries
      <4>1. es \in Seq(V) /\ Len(es) = Reader!GetEntries
        BY <3>1, ChainHasLength
      <4> HIDE DEF es, V
      <4>2. Reader!GetEntries > 0 => es[1] \in V
        BY <4>1
      <4>3. chain[Len(chain)] \in DOMAIN files
        BY <3>1
      <4> QED BY <4>2, <4>3 DEF Reader!HeaderFile, Reader!Last, es, V
    <3>4. files[Reader!HeaderFile] \in File
      BY <3>1, <3>3
    <3> QED BY <3>2, <3>4 DEF File
  <2>2. CASE UNCHANGED bound
    BY <2>2 DEF ReadingInv
  <2> QED BY <2>1, <2>2 DEF Reader!NewLoop, Reader!AddFile, Reader!AddFiles, Reader!Added,
                            Reader!SetInputAborts
<1>5. \A c \in bound' : c \in Cats
  BY <1>4
<1>6. pc' = "loop" => \A c \in bound' : mem'[c] = 0
  <2>1. Reader!Cats = Cats
    BY DEF Reader!Cats, Cats, Reader!Position, Position
  <2> QED BY <1>1, <1>5, <2>1 DEF Reader!Empty
<1> DEFINE es == Reader!ChainEntries
<1>7. IsList(seen')
  <2>1. <<>> \in Seq({})
    OBVIOUS
  <2> QED BY <1>2, <2>1 DEF IsList
<1>8. ScanSeen(es', files', bound', seen', pass')
  BY <1>2 DEF ScanSeen
<1>9. CalibrationSeen(es', files', bound', seen') /\ Len(seen') = 0
  BY <1>2 DEF CalibrationSeen
<1>10. DisplaySeen(es', files', bound', seen', pass')
  BY <1>2 DEF DisplaySeen
<1>11. pc' = "loop" => CalibrationHas(es', files', bound', pass', mem')
  BY <1>2, <1>6 DEF CalibrationHas
<1>12. client' \in ScanClients \cup {"calibrate", "display"} /\ client' # "none"
  BY <1>1, ClientsAssumption DEF ReadingInv, ScanClients
<1>13. client' = "calibrate" => pc' # "gui"
  BY <1>1
<1>14. client' = "display" => pc' # "loop"
  BY <1>1
<1> HIDE DEF es
<1> QED
  BY <1>1, <1>2, <1>3, <1>4, <1>7, <1>8, <1>9, <1>10, <1>11, <1>12, <1>13, <1>14
     DEF ReadingInv, ScanClients, es

LEMMA ScanSteps ==
  ASSUME files \in Seq(File), ReadingInv, NEW c \in ScanClients, Reader!ScanAs(c)
  PROVE  ReadingInv' /\ files' = files
<1> DEFINE es == Reader!ChainEntries
           x == Reader!See(pass, mem')
<1>1. /\ pc = "loop" /\ client = c /\ UNCHANGED <<files, pc, client, chain, bound>>
      /\ seen' = Append(seen, x) /\ pass' = pass + 1 /\ mem' = Reader!AfterEntry(pass)
  BY DEF Reader!ScanAs, Reader!GetEvent
<1>2. /\ es' = es /\ ScanSeen(es, files, bound, seen, pass) /\ pass \in Nat
      /\ IsList(seen)
  BY <1>1, ChainStays DEF ReadingInv
<1>3. x.event = pass /\ x.mem = mem'
  BY DEF Reader!See
<1>4. ShowsAt(es, files, bound, pass, mem')
  BY <1>1, AfterEntryShows DEF ReadingInv
<1> HIDE DEF es, x
<1>5. /\ IsList(seen')
      /\ Len(seen') = pass + 1 /\ DOMAIN seen = 1 .. pass /\ DOMAIN seen' = 1 .. pass + 1
      /\ seen'[pass + 1] = x /\ \A k \in 1 .. pass : seen'[k] = seen[k]
  <2>1. Len(seen) = pass
    BY <1>2 DEF ScanSeen
  <2> QED BY <1>1, <1>2, <2>1, AppendAny
<1>6. ScanSeen(es, files, bound, seen', pass')
  <2> SUFFICES ASSUME NEW k \in 1 .. pass + 1
               PROVE  seen'[k].event = k - 1 /\ ShowsAt(es, files, bound, seen'[k].event, seen'[k].mem)
    BY <1>1, <1>5 DEF ScanSeen
  <2>1. CASE k \in 1 .. pass
    BY <1>2, <1>5, <2>1 DEF ScanSeen
  <2>2. CASE k = pass + 1
    BY <1>2, <1>3, <1>4, <1>5, <2>2
  <2> QED BY <1>2, <2>1, <2>2
<1>7. client' \in ScanClients /\ client' \notin {"none", "calibrate", "display"} /\ pass' \in Nat
  <2>1. pass' \in Nat
    BY <1>1, <1>2
  <2> QED BY <1>1, <2>1 DEF ScanClients
<1> QED BY <1>1, <1>2, <1>5, <1>6, <1>7 DEF ReadingInv, es

LEMMA CalibrateStep ==
  ASSUME files \in Seq(File), ReadingInv, Reader!Calibrate
  PROVE  ReadingInv' /\ files' = files
<1> DEFINE es == Reader!ChainEntries
           x == Reader!See(pass, mem)
<1>1. /\ pc = "loop" /\ client = "calibrate" /\ UNCHANGED <<files, pc, client, chain, bound>>
      /\ pass < Reader!GetEntries /\ seen' = Append(seen, x) /\ pass' = pass + 1
      /\ mem' = Reader!AfterEntry(current_event + 1) /\ current_event' = current_event + 1
  BY DEF Reader!Calibrate, Reader!NextEvent
<1>2. /\ CalibrationSeen(es, files, bound, seen) /\ CalibrationHas(es, files, bound, pass, mem)
      /\ Len(seen) = pass /\ current_event = pass /\ pass \in Nat
      /\ bound \subseteq Cats /\ chain \in Seq(DOMAIN files) /\ IsList(seen)
  BY <1>1 DEF ReadingInv
<1>3. es' = es /\ pass < Len(es)
  BY <1>1, <1>2, ChainStays, ChainHasLength
<1>4. ShowsAt(es, files, bound, pass + 1, mem')
  BY <1>1, <1>2, AfterEntryShows
<1>5. x.mem = mem
  BY DEF Reader!See
<1> HIDE DEF es, x
<1>6. /\ IsList(seen')
      /\ Len(seen') = pass + 1 /\ DOMAIN seen = 1 .. pass /\ DOMAIN seen' = 1 .. pass + 1
      /\ seen'[pass + 1] = x /\ \A k \in 1 .. pass : seen'[k] = seen[k]
  BY <1>1, <1>2, AppendAny
<1>7. CalibrationHas(es, files, bound, pass', mem')
  <2>1. pass' # 0
    BY <1>1, <1>2
  <2> QED BY <1>1, <1>4, <2>1 DEF CalibrationHas
<1>8. CalibrationSeen(es, files, bound, seen')
  <2> SUFFICES ASSUME NEW k \in 1 .. pass + 1
               PROVE  IF k = 1 THEN \A c \in bound : seen'[k].mem[c] = 0
                      ELSE k - 1 < Len(es) /\ ShowsAt(es, files, bound, k - 1, seen'[k].mem)
    BY <1>6 DEF CalibrationSeen
  <2>1. CASE k \in 1 .. pass
    BY <1>2, <1>6, <2>1 DEF CalibrationSeen
  <2>2. CASE k = pass + 1
    <3>1. k - 1 = pass /\ (k = 1 <=> pass = 0) /\ seen'[k].mem = mem
      BY <1>2, <1>5, <1>6, <2>2
    <3> QED BY <1>2, <1>3, <3>1 DEF CalibrationHas
  <2> QED BY <1>2, <2>1, <2>2
<1>9. pass' \in Nat /\ current_event' = pass' /\ Len(seen') = pass'
  BY <1>1, <1>2, <1>6
<1> QED BY <1>1, <1>2, <1>3, <1>6, <1>7, <1>8, <1>9 DEF ReadingInv, ScanClients, es

LEMMA NextLoopStep ==
  ASSUME files \in Seq(File), ReadingInv, Reader!NextLoop
  PROVE  ReadingInv' /\ files' = files
<1>1. /\ pc = "loop" /\ pc' = "loop" /\ client \in {"calibrate", "residuals", "energy"}
      /\ client' \in {"residuals", "energy", "energy residuals"} /\ pass' = 0 /\ seen' = <<>>
      /\ UNCHANGED <<files, chain, bound>>
  BY DEF Reader!NextLoop
<1>2. client' \in ScanClients /\ client' \notin {"none", "calibrate", "display"}
  BY <1>1 DEF ScanClients
<1>3. ScanSeen(Reader!ChainEntries', files', bound', seen', pass')
  <2>1. Len(<<>>) = 0 /\ \A k \in DOMAIN <<>> : FALSE
    OBVIOUS
  <2>2. seen' = <<>> /\ pass' = 0
    BY <1>1
  <2> QED BY <2>1, <2>2, Zenon DEF ScanSeen
<1>4. IsList(seen')
  <2>1. <<>> \in Seq({})
    OBVIOUS
  <2> QED BY <1>1, <2>1 DEF IsList
<1> QED BY <1>1, <1>2, <1>3, <1>4 DEF ReadingInv

LEMMA LoopDoneStep ==
  ASSUME files \in Seq(File), ReadingInv, Reader!LoopDone
  PROVE  ReadingInv' /\ files' = files
<1>1. /\ pc = "loop" /\ pc' = "done" /\ client \in {"scan", "energy residuals"}
      /\ UNCHANGED <<files, client, chain, bound, mem, current_event, pass, seen>>
  BY DEF Reader!LoopDone
<1>2. Reader!ChainEntries' = Reader!ChainEntries
  BY <1>1, ChainStays
<1> QED BY <1>1, <1>2 DEF ReadingInv, ScanClients

(* The display shows an event of the chain, if there is one.               *)
LEMMA LoadEventStep ==
  ASSUME files \in Seq(File), ReadingInv, client = "display", pc \in {"gui", "shown"},
         pc' = "shown", NEW e \in Nat, Reader!GetEntries > 0 => e < Reader!GetEntries,
         Reader!LoadEvent(e)
  PROVE  ReadingInv' /\ files' = files
<1> DEFINE es == Reader!ChainEntries
           x == Reader!See(e, mem')
<1>1. /\ UNCHANGED <<files, client, chain, bound>> /\ pass' = e /\ seen' = <<x>>
      /\ mem' = Reader!AfterEntry(e)
  BY DEF Reader!LoadEvent, Reader!GetEvent
<1>2. es' = es /\ Len(es) = Reader!GetEntries
  BY <1>1, ChainStays, ChainHasLength DEF ReadingInv
<1>3. ShowsAt(es, files, bound, e, mem')
  BY <1>1, AfterEntryShows DEF ReadingInv
<1>4. x.event = e /\ x.mem = mem'
  BY DEF Reader!See
<1> HIDE DEF es, x
<1>5. DisplaySeen(es, files, bound, seen', e)
  <2>1. DOMAIN seen' = {1} /\ seen'[1] = x
    BY <1>1
  <2> QED BY <1>2, <1>3, <1>4, <2>1 DEF DisplaySeen
<1>6. IsList(seen')
  <2>1. <<x>> \in Seq({x})
    OBVIOUS
  <2> QED BY <1>1, <2>1 DEF IsList
<1> QED BY <1>1, <1>2, <1>5, <1>6 DEF ReadingInv, ScanClients, es

LEMMA ReadingStep ==
  ASSUME files \in Seq(File), ReadingInv, Reader!ReaderNext
  PROVE  ReadingInv' /\ files' = files
<1>1. pass \in Nat /\ Reader!GetEntries \in Nat
  BY ChainHasLength DEF ReadingInv
<1>2. pc \in {"gui", "shown"} => client = "display"
  BY DEF ReadingInv
<1>3. pc = "shown" /\ Reader!GetEntries > 0 => pass < Reader!GetEntries
  BY <1>1, <1>2, ChainHasLength DEF ReadingInv, DisplaySeen
<1>4. CASE \/ \E c \in Clients : Reader!NewLoop(c)
           \/ \E f \in 1 .. Len(files) + 1 : Reader!AddFile(f)
           \/ \E f, g \in 1 .. Len(files) + 1 : Reader!AddFiles(<<f, g>>)
           \/ Reader!Added \/ Reader!SetInput \/ Reader!SetInputAborts
  BY <1>4, QuietSteps
<1>5. CASE Reader!Scan \/ Reader!PositionResiduals \/ Reader!EnergyCalibration \/ Reader!EnergyResiduals
  <2>1. \E c \in ScanClients : Reader!ScanAs(c)
    BY <1>5 DEF ScanClients, Reader!Scan, Reader!PositionResiduals, Reader!EnergyCalibration,
                Reader!EnergyResiduals
  <2> QED BY <2>1, ScanSteps
<1>6. CASE Reader!Calibrate
  BY <1>6, CalibrateStep
<1>7. CASE Reader!NextLoop
  BY <1>7, NextLoopStep
<1>8. CASE Reader!LoopDone
  BY <1>8, LoopDoneStep
<1>9. CASE Reader!MakeGui \/ Reader!Fwd \/ Reader!Bck \/ Reader!Jump \/ Reader!Slide
  <2>1. PICK e \in Nat : /\ Reader!LoadEvent(e)
                         /\ Reader!GetEntries > 0 => e < Reader!GetEntries
    <3>1. CASE Reader!MakeGui
      BY <3>1 DEF Reader!MakeGui
    <3>2. CASE Reader!Fwd
      <4>1. Reader!LoadEvent(pass + 1) /\ pass < Reader!GetEntries - 1
        BY <3>2 DEF Reader!Fwd
      <4>2. pass + 1 \in Nat /\ pass + 1 < Reader!GetEntries
        BY <1>1, <4>1
      <4> QED BY <4>1, <4>2
    <3>3. CASE Reader!Bck
      <4>1. Reader!LoadEvent(pass - 1) /\ pass > 0 /\ pc = "shown"
        BY <3>3 DEF Reader!Bck, Reader!Pressed
      <4>2. pass - 1 \in Nat /\ (Reader!GetEntries > 0 => pass - 1 < Reader!GetEntries)
        BY <1>1, <1>3, <4>1
      <4> QED BY <4>1, <4>2
    <3>4. CASE Reader!Jump
      <4>1. PICK e \in 0 .. Reader!GetEntries - 1 : Reader!LoadEvent(e)
        BY <3>4 DEF Reader!Jump
      <4>2. e \in Nat /\ e < Reader!GetEntries
        BY <1>1
      <4> QED BY <4>1, <4>2
    <3>5. CASE Reader!Slide
      <4>1. Reader!LoadEvent(pass) /\ pc = "shown"
        BY <3>5 DEF Reader!Slide, Reader!Pressed
      <4> QED BY <1>1, <1>3, <4>1
    <3> QED BY <1>9, <3>1, <3>2, <3>3, <3>4, <3>5
  <2>2. pc \in {"gui", "shown"} /\ pc' = "shown"
    BY <1>9 DEF Reader!MakeGui, Reader!Fwd, Reader!Bck, Reader!Jump, Reader!Slide, Reader!Pressed
  <2> QED BY <1>2, <2>1, <2>2, LoadEventStep
<1> QED BY <1>4, <1>5, <1>6, <1>7, <1>8, <1>9 DEF Reader!ReaderNext

-----------------------------------------------------------------------------
(* Programs write while nobody reads, and the other way round.             *)
Inv == WritingInv /\ ReadingInv

LEMMA InitInv == ProgramsInit => Inv
<1> SUFFICES ASSUME ProgramsInit PROVE Inv
  OBVIOUS
<1>1. Init /\ Reader!ReaderInit
  BY DEF ProgramsInit
<1>2. files \in Seq(File) /\ DOMAIN files = {} /\ <<>> \in Seq({})
  BY <1>1 DEF Init
<1>3. WritingInv
  BY <1>1, <1>2 DEF Init, WritingInv, Idle, ProgramsStartUp, EntriesAreOwnEvents
<1>4. /\ pc = "off" /\ client = "none" /\ chain = <<>> /\ bound = {} /\ pass = 0 /\ seen = <<>>
  BY <1>1 DEF Reader!ReaderInit
<1>5. IsList(seen)
  BY <1>2, <1>4 DEF IsList
<1>6. ReadingInv
  BY <1>4, <1>5 DEF ReadingInv, ScanClients
<1> QED BY <1>3, <1>6 DEF Inv

LEMMA InvStep == Inv /\ [ProgramsNext]_<<vars, reading>> => Inv'
<1> SUFFICES ASSUME Inv, [ProgramsNext]_<<vars, reading>> PROVE Inv'
  OBVIOUS
<1>1. WritingInv /\ ReadingInv /\ files \in Seq(File)
  BY DEF Inv, WritingInv
<1>2. CASE pc = "off" /\ Next /\ UNCHANGED reading
  <2>1. WritingInv'
    BY <1>1, <1>2, WritingStep
  <2>2. /\ UNCHANGED <<pc, client, chain, bound, pass, seen>>
        /\ pc = "off" /\ client = "none" /\ chain = <<>>
    BY <1>1, <1>2 DEF ReadingInv, reading
  <2>3. chain' \in Seq(DOMAIN files') /\ client' \notin ScanClients
    BY <2>2 DEF ScanClients
  <2>4. ReadingInv'
    BY <1>1, <2>2, <2>3 DEF ReadingInv
  <2> QED BY <2>1, <2>4 DEF Inv
<1>3. CASE /\ status = "idle" /\ Reader!ReaderNext
           /\ UNCHANGED <<call, main, status, registry, tasks, inited, content, tree, events>>
  <2>1. ReadingInv' /\ files' = files
    BY <1>1, <1>3, ReadingStep
  <2>2. Idle /\ status' = status
    BY <1>1, <1>3 DEF WritingInv
  <2>3. Idle'
    BY <1>3, <2>2 DEF Idle, registry
  <2>4. WritingInv'
    BY <1>1, <1>3, <2>1, <2>2, <2>3 DEF WritingInv, ProgramsStartUp, EntriesAreOwnEvents
  <2> QED BY <2>1, <2>4 DEF Inv
<1>4. CASE UNCHANGED <<vars, reading>>
  <2>1. /\ UNCHANGED <<input, main, status, sim, outputTree, registered, categories, branches>>
        /\ UNCHANGED <<tasks, inited, content, tree, events, files>>
        /\ UNCHANGED <<pc, client, chain, bound, mem, current_event, pass, seen>>
    BY <1>4 DEF vars, call, registry, reading
  <2>2. Reader!ChainEntries' = Reader!ChainEntries
    BY <2>1, ChainStays
  <2>3. ReadingInv'
    BY <1>1, <2>1, <2>2 DEF ReadingInv
  <2>4. status = "idle" => Idle'
    BY <1>1, <2>1 DEF WritingInv, Idle
  <2>5. status = "running" => Running'
    <3> SUFFICES ASSUME Running PROVE Running'
      BY <1>1 DEF WritingInv
    <3>1. MainIsSuffix'
      BY <2>1 DEF Running, MainIsSuffix
    <3>2. BuiltSoFar' = BuiltSoFar /\ RegisteredSoFar' = RegisteredSoFar
      BY <2>1 DEF BuiltSoFar, RegisteredSoFar
    <3>3. /\ Past("setSimulation")' = Past("setSimulation") /\ Past("book")' = Past("book")
          /\ Past("initBranches")' = Past("initBranches")
          /\ Past("initTasks")' = Past("initTasks") /\ Past("init")' = Past("init")
      BY <2>1 DEF Past
    <3>4. Registry'
      BY <2>1, <3>2, <3>3, Zenon DEF Running, Registry
    <3>5. Inited'
      <4>1. DetectorTasks' = DetectorTasks
        BY <2>1 DEF DetectorTasks
      <4> QED BY <2>1, <3>3, <4>1 DEF Running, Inited
    <3>6. Filled'
      BY <2>1, <3>2, <3>3 DEF Running, Filled, Id
    <3> QED BY <3>1, <3>4, <3>5, <3>6 DEF Running
  <2>6. WritingInv'
    BY <1>1, <2>1, <2>4, <2>5 DEF WritingInv, ProgramsStartUp, EntriesAreOwnEvents
  <2> QED BY <2>3, <2>6 DEF Inv
<1> QED BY <1>2, <1>3, <1>4 DEF ProgramsNext

(* The two sides of the invariant hold in every run.                       *)
THEOREM ProgramsAreInv == ProgramsSpec => []Inv
BY InitInv, InvStep, PTL DEF ProgramsSpec

(* No program fails at its start but for want of the output file: each     *)
(* task finds its category built, and none is built before it is           *)
(* registered (the order of the calls of both mains and of initTasks).     *)
THEOREM StartUp == ProgramsSpec => []ProgramsStartUp
<1>1. Inv => ProgramsStartUp
  BY DEF Inv, WritingInv
<1> QED BY <1>1, ProgramsAreInv, PTL

(* A saved file has an entry for each event of the loop, made of that      *)
(* event alone, through all tasks and whatever records were empty.         *)
THEOREM EntriesAreOwn == ProgramsSpec => []EntriesAreOwnEvents
<1>1. Inv => EntriesAreOwnEvents
  BY DEF Inv, WritingInv
<1> QED BY <1>1, ProgramsAreInv, PTL

(* getEvent gives macros and event display, over any chain of files and    *)
(* for any presses, the event of the entry they ask for; and so does       *)
(* nextEvent at the end of a loop, from its second pass on.                *)
THEOREM ReadsWritten == ProgramsSpec => []ReadsWhatWasWritten
<1>1. ASSUME Inv PROVE ReadsWhatWasWritten
  <2> DEFINE es == Reader!ChainEntries
  <2>1. ReadingInv /\ files \in Seq(File) /\ Len(es) = Reader!GetEntries
    BY <1>1, ChainHasLength DEF Inv, WritingInv, ReadingInv
  <2>2. ASSUME NEW e, NEW m, ShowsAt(es, files, bound, e, m), e < Reader!GetEntries, NEW c \in bound
        PROVE  /\ ~Lacks(e, c) => m[c] = Written(e, c)
               /\ Lacks(e, c) /\ Position[c] < Cardinality(bound) => m[c] = 0
    BY <2>1, <2>2 DEF ShowsAt, Lacks, Written, Shown
  <2> HIDE DEF es
  <2>3. CASE client \in ScanClients
    <3>1. ScanSeen(es, files, bound, seen, pass) /\ client \notin {"none", "calibrate", "display"}
      BY <2>1, <2>3 DEF ReadingInv, ScanClients, es
    <3>2. /\ Len(seen) = pass
          /\ \A k \in DOMAIN seen : /\ seen[k].event = k - 1
                                    /\ ShowsAt(es, files, bound, seen[k].event, seen[k].mem)
      BY <3>1 DEF ScanSeen
    <3> QED BY <2>2, <3>1, <3>2 DEF ReadsWhatWasWritten
  <2>4. CASE client = "display"
    <3>1. DisplaySeen(es, files, bound, seen, pass)
      BY <2>1, <2>4 DEF ReadingInv, es
    <3>2. /\ Len(es) > 0 => pass < Len(es)
          /\ \A k \in DOMAIN seen : /\ seen[k].event = pass
                                    /\ ShowsAt(es, files, bound, seen[k].event, seen[k].mem)
      BY <3>1 DEF DisplaySeen
    <3> QED BY <2>1, <2>2, <2>4, <3>2 DEF ReadsWhatWasWritten
  <2>5. CASE client = "calibrate"
    <3>1. CalibrationSeen(es, files, bound, seen) /\ IsList(seen)
      BY <2>1, <2>5 DEF ReadingInv, es
    <3>2. ASSUME NEW k \in DOMAIN seen, NEW c \in bound, k > 1, ~Lacks(k - 1, c)
          PROVE  seen[k].mem[c] = Written(k - 1, c)
      <4>1. k - 1 < Len(es) /\ ShowsAt(es, files, bound, k - 1, seen[k].mem)
        BY <3>1, <3>2 DEF CalibrationSeen, IsList
      <4>2. PICK e : e = k - 1
        OBVIOUS
      <4> QED BY <2>1, <2>2, <3>2, <4>1, <4>2
    <3> QED BY <2>5, <3>2 DEF ReadsWhatWasWritten
  <2>6. CASE client = "none"
    BY <2>6 DEF ReadsWhatWasWritten
  <2> QED BY <2>1, <2>3, <2>4, <2>5, <2>6 DEF ReadingInv, ScanClients
<1> QED BY <1>1, ProgramsAreInv, PTL
=============================================================================

----------------------------- MODULE EventLoop -----------------------------
(***************************************************************************)
(* SiFi::loop (lib/base/core/SiFi.cc): the event loop of sifi_dst.         *)
(*                                                                         *)
(* All data sources are opened; then, event by event, the categories are   *)
(* cleared, every source reads its next record and its unpacker writes the *)
(* raw data, the tasks of STaskManager turn raw data into calibrated data  *)
(* and these into hits, and the categories are compressed and written to   *)
(* the output tree.  The first source that has no record ends the loop.    *)
(*                                                                         *)
(* A source delivers one channel, one side of one fibre, as the sources of *)
(* the desktop digitizer and of the oscilloscope do.  Of an object only    *)
(* the record is kept that each of its sides comes from, so that data of   *)
(* different events can be told apart, and whether its time is 0.  A       *)
(* category is what EventStore says, which the module Category implements. *)
(***************************************************************************)
EXTENDS Naturals, Integers, Sequences, FiniteSets

CONSTANTS
  NumSources, (* the sources in the order of addSource                     *)
  Fibers,     (* the fibre numbers: the locators of the categories         *)
  Channel,    (* the fibre and the side the lookup table gives a source    *)
  Limits,     (* the values of the argument of loop, negative for no limit *)
  MaxRecords, (* bound: records in the file of a source                    *)
  ZeroTimes,  (* bound: the sets of <<fibre, side, record>> whose time is  *)
              (* stored as 0                                               *)
  NoObject    (* a locator without an object                               *)

Sources == 1 .. NumSources
Sides == {"l", "r"}

ASSUME NumSourcesAssumption == NumSources \in Nat
ASSUME FibersAssumption == IsFiniteSet(Fibers) /\ Fibers \subseteq Nat
ASSUME ChannelAssumption == Channel \in [Sources -> Fibers \X Sides]
ASSUME LimitsAssumption == Limits \subseteq Int
ASSUME MaxRecordsAssumption == MaxRecords \in Nat
ASSUME ZeroTimesAssumption == ZeroTimes \subseteq SUBSET (Fibers \X Sides \X (1 .. MaxRecords))

CatNames == {"Raw", "Cal", "Hit"}
Tasks == {"Calibrator", "HitFinder"}

(* SFibersDetector::initTasks; the categories each task takes in its init. *)
Step == [Calibrator |-> 1, HitFinder |-> 2]
Input == [Calibrator |-> "Raw", HitFinder |-> "Cal"]
Output == [Calibrator |-> "Cal", HitFinder |-> "Hit"]

(* Records are numbered from 1; 0 is a side nothing was read for.          *)
NoRecord == 0
Objects == [Sides -> 0 .. MaxRecords]
ASSUME NoObjectAssumption == NoObject \notin Objects

VARIABLES
  pc,
  entries,   (* the argument of loop                                       *)
  length,    (* the records in the file of each source                     *)
  zeros,     (* the records with a signal from the first samples on: the   *)
             (* t0 of FindT0 is in [0, 1), setTimeL and setTimeR store 0   *)
  record,    (* the last record each source has read                       *)
  tasks,     (* STaskManager::tasks in the order of the multimap           *)
  i,         (* events processed                                           *)
  source,    (* the source that is opened or read                          *)
  flag,      (* the result of the last readCurrentEvent                    *)
  task,      (* the position in tasks of the task that runs                *)
  size, obj, (* the loop of that task over the objects of its input        *)
  cats,      (* the categories: their objects, and whether compressed      *)
  tree       (* the output tree: the objects of each category              *)

taskVars == <<task, size, obj>>
vars == <<pc, entries, length, zeros, record, tasks, i, source, flag, taskVars, cats, tree>>

NoObjects == [f \in Fibers |-> NoObject]
Present(objects) == {f \in Fibers : objects[f] # NoObject}
Outcomes == {"saved", "aborted", "exited", "crashed"}

Init ==
  /\ pc = "setup"
  /\ entries \in Limits
  /\ length \in [Sources -> 0 .. MaxRecords]
  /\ zeros \in ZeroTimes
  /\ record = [s \in Sources |-> 0]
  /\ tasks = <<>>
  /\ i = 0
  /\ source = 1
  /\ flag = FALSE
  /\ task = 1 /\ size = 0 /\ obj = 0
  /\ cats = [c \in CatNames |-> [objects |-> NoObjects, sealed |-> FALSE]]
  /\ tree = <<>>
-----------------------------------------------------------------------------
(* STaskManager::addTask: behind the tasks of the same step and of lower   *)
(* ones.  Detectors may call it in any order.                              *)
MutantAddTask(t) ==   \* behind all the tasks, whatever their step
  /\ pc = "setup"
  /\ \A k \in DOMAIN tasks : tasks[k] # t
  /\ tasks' = Append(tasks, t)
  /\ UNCHANGED <<pc, entries, length, zeros, record, i, source, flag, taskVars, cats, tree>>
AddTask(t) ==
  /\ pc = "setup"
  /\ \A k \in DOMAIN tasks : tasks[k] # t
  /\ LET before == {k \in DOMAIN tasks : Step[tasks[k]] <= Step[t]}
         n == Cardinality(before)
     IN tasks' = SubSeq(tasks, 1, n) \o <<t>> \o SubSeq(tasks, n + 1, Len(tasks))
  /\ UNCHANGED <<pc, entries, length, zeros, record, i, source, flag, taskVars, cats, tree>>

StartLoop ==
  /\ pc = "setup"
  /\ Len(tasks) = Cardinality(Tasks)
  /\ pc' = "open"
  /\ UNCHANGED <<entries, length, zeros, record, tasks, i, source, flag, taskVars, cats, tree>>

OpenSource ==
  /\ pc = "open" /\ source <= NumSources
  /\ source' = source + 1
  /\ UNCHANGED <<pc, entries, length, zeros, record, tasks, i, flag, taskVars, cats, tree>>

(* A source that cannot be opened aborts the program.                      *)
OpenFails ==
  /\ pc = "open" /\ source <= NumSources
  /\ pc' = "aborted"
  /\ UNCHANGED <<entries, length, zeros, record, tasks, i, source, flag, taskVars, cats, tree>>

AllOpened ==
  /\ pc = "open" /\ source > NumSources
  /\ pc' = "event"
  /\ UNCHANGED <<entries, length, zeros, record, tasks, i, source, flag, taskVars, cats, tree>>
-----------------------------------------------------------------------------
(* i is unsigned: no number of events reaches a negative limit.            *)
BelowLimit == entries < 0 \/ i < entries

MutantClear ==   \* the index keeps its compressed flag
  cats' = [c \in CatNames |-> [cats[c] EXCEPT !.objects = NoObjects]]
Clear == cats' = [c \in CatNames |-> [objects |-> NoObjects, sealed |-> FALSE]]

StartEvent ==
  /\ pc = "event" /\ BelowLimit
  /\ Clear
  /\ flag' = FALSE
  /\ source' = 1
  /\ pc' = "read"
  /\ UNCHANGED <<entries, length, zeros, record, tasks, i, taskVars, tree>>

LimitReached ==
  /\ pc = "event" /\ ~BelowLimit
  /\ pc' = "finished"
  /\ UNCHANGED <<entries, length, zeros, record, tasks, i, source, flag, taskVars, cats, tree>>

(* An object is given its slot by getSlot unless getObject finds one; a    *)
(* compressed category has no slot to give, and the program writes through *)
(* a null pointer.                                                         *)
HasSlot(c, f) == cats[c].objects[f] # NoObject \/ ~cats[c].sealed
CurrentObject(c, f) ==
  IF cats[c].objects[f] = NoObject THEN [side \in Sides |-> NoRecord] ELSE cats[c].objects[f]

Crash ==
  /\ pc' = "crashed"
  /\ UNCHANGED <<entries, length, zeros, record, tasks, i, source, flag, taskVars, cats, tree>>

(* readCurrentEvent of a source that has another record, and the unpacker  *)
(* that stores it at the side of its fibre.                                *)
ReadSource ==
  /\ pc = "read" /\ source <= NumSources
  /\ record[source] < length[source]
  /\ LET f == Channel[source][1]
         side == Channel[source][2]
     IN IF HasSlot("Raw", f)
          THEN /\ cats' = [cats EXCEPT !["Raw"].objects[f] =
                             [CurrentObject("Raw", f) EXCEPT ![side] = record[source] + 1]]
               /\ record' = [record EXCEPT ![source] = @ + 1]
               /\ flag' = TRUE
               /\ source' = source + 1
               /\ UNCHANGED <<pc, entries, length, zeros, tasks, i, taskVars, tree>>
          ELSE Crash

(* The file of a source is at its end: what the sources before it have     *)
(* delivered for this event is dropped.                                    *)
MutantSourceEnds ==   \* the other sources are read all the same
  /\ pc = "read" /\ source <= NumSources
  /\ record[source] >= length[source]
  /\ flag' = FALSE
  /\ source' = source + 1
  /\ UNCHANGED <<pc, entries, length, zeros, record, tasks, i, taskVars, cats, tree>>
SourceEnds ==
  /\ pc = "read" /\ source <= NumSources
  /\ record[source] >= length[source]
  /\ flag' = FALSE
  /\ pc' = "finished"
  /\ UNCHANGED <<entries, length, zeros, record, tasks, i, source, taskVars, cats, tree>>

EventRead ==
  /\ pc = "read" /\ source > NumSources
  /\ pc' = IF flag THEN "tasks" ELSE "finished"
  /\ task' = 1
  /\ UNCHANGED <<entries, length, zeros, record, tasks, i, source, flag, size, obj, cats, tree>>
-----------------------------------------------------------------------------
StartTask ==
  /\ pc = "tasks" /\ task <= Len(tasks)
  /\ size' = Cardinality(Present(cats[Input[tasks[task]]].objects))
  /\ obj' = 0
  /\ pc' = "execute"
  /\ UNCHANGED <<entries, length, zeros, record, tasks, i, source, flag, task, cats, tree>>

(* getObject(n): the object with the n-th of the addresses in use.         *)
Numbered(objects, n) ==
  CHOOSE f \in Present(objects) : Cardinality({g \in Present(objects) : g < f}) = n

(* A hit is made of a fibre only if neither side has the time 0, which a   *)
(* side has that was not read, but also one whose time was cut off to 0.   *)
Accepts(t, f, o) ==
  t = "HitFinder" => \A side \in Sides : o[side] # NoRecord /\ <<f, side, o[side]>> \notin zeros

(* The calibrator stops the program when its parameters have no entry for  *)
(* the fibre.                                                              *)
CalibrationMissing ==
  /\ pc = "execute" /\ obj < size /\ tasks[task] = "Calibrator"
  /\ pc' = "aborted"
  /\ cats' = [cats EXCEPT !["Raw"].sealed = TRUE]
  /\ UNCHANGED <<entries, length, zeros, record, tasks, i, source, flag, taskVars, tree>>

(* One turn of the loop of a task: getObject(obj) compresses the input;    *)
(* what is made of the object goes to the same address of the output.      *)
ProcessObject ==
  /\ pc = "execute" /\ obj < size
  /\ LET t == tasks[task]
         f == Numbered(cats[Input[t]].objects, obj)
         o == cats[Input[t]].objects[f]
         read == [cats EXCEPT ![Input[t]].sealed = TRUE]
     IN IF Accepts(t, f, o) /\ ~HasSlot(Output[t], f)
          THEN Crash
          ELSE /\ cats' = IF Accepts(t, f, o)
                            THEN [read EXCEPT ![Output[t]].objects[f] = o]
                            ELSE read
               /\ obj' = obj + 1
               /\ UNCHANGED <<pc, entries, length, zeros, record, tasks, i, source, flag,
                              task, size, tree>>

MutantTaskDone ==   \* the iterator over the tasks stays
  /\ pc = "execute" /\ obj >= size
  /\ pc' = "tasks"
  /\ UNCHANGED <<entries, length, zeros, record, tasks, i, source, flag, taskVars, cats, tree>>
TaskDone ==
  /\ pc = "execute" /\ obj >= size
  /\ task' = task + 1
  /\ pc' = "tasks"
  /\ UNCHANGED <<entries, length, zeros, record, tasks, i, source, flag, size, obj, cats, tree>>

(* A task that returns false ends the program.                             *)
TaskFails ==
  /\ pc = "execute" /\ obj >= size
  /\ pc' = "exited"
  /\ UNCHANGED <<entries, length, zeros, record, tasks, i, source, flag, taskVars, cats, tree>>

(* fill: all categories are compressed and written.                        *)
MutantFill ==   \* without compress
  /\ pc = "tasks" /\ task > Len(tasks)
  /\ tree' = Append(tree, [c \in CatNames |-> cats[c].objects])
  /\ i' = i + 1
  /\ pc' = "event"
  /\ UNCHANGED <<entries, length, zeros, record, tasks, source, flag, taskVars, cats>>
Fill ==
  /\ pc = "tasks" /\ task > Len(tasks)
  /\ cats' = [c \in CatNames |-> [cats[c] EXCEPT !.sealed = TRUE]]
  /\ tree' = Append(tree, [c \in CatNames |-> cats[c].objects])
  /\ i' = i + 1
  /\ pc' = "event"
  /\ UNCHANGED <<entries, length, zeros, record, tasks, source, flag, taskVars>>

(* After the loop dst.cc finalizes the tasks and saves the output file.    *)
Save ==
  /\ pc = "finished"
  /\ pc' = "saved"
  /\ UNCHANGED <<entries, length, zeros, record, tasks, i, source, flag, taskVars, cats, tree>>

Next ==
  \/ \E t \in Tasks : AddTask(t)
  \/ StartLoop \/ OpenSource \/ OpenFails \/ AllOpened
  \/ StartEvent \/ LimitReached
  \/ ReadSource \/ SourceEnds \/ EventRead
  \/ StartTask \/ CalibrationMissing \/ ProcessObject \/ TaskDone \/ TaskFails
  \/ Fill \/ Save

Spec == Init /\ [][Next]_vars
-----------------------------------------------------------------------------
TypeOK ==
  /\ pc \in {"setup", "open", "event", "read", "tasks", "execute", "finished"} \cup Outcomes
  /\ entries \in Limits
  /\ length \in [Sources -> 0 .. MaxRecords]
  /\ zeros \in ZeroTimes
  /\ record \in [Sources -> 0 .. MaxRecords]
  /\ tasks \in Seq(Tasks)
  /\ i \in 0 .. MaxRecords
  /\ source \in 1 .. NumSources + 1
  /\ flag \in BOOLEAN
  /\ task \in 1 .. Cardinality(Tasks) + 1
  /\ size \in 0 .. Cardinality(Fibers) /\ obj \in 0 .. Cardinality(Fibers)
  /\ cats \in [CatNames ->
                 [objects : [Fibers -> Objects \cup {NoObject}], sealed : BOOLEAN]]
  /\ tree \in Seq([CatNames -> [Fibers -> Objects \cup {NoObject}]])

(* What the n-th event holds of a fibre when nothing is lost or mixed: on  *)
(* every side that has a source, record n of that source.                  *)
Wired(f, side) == \E s \in Sources : Channel[s] = <<f, side>>
RawOf(f, n) ==
  IF \E side \in Sides : Wired(f, side)
    THEN [side \in Sides |-> IF Wired(f, side) THEN n ELSE NoRecord]
    ELSE NoObject
BothSides(f) == \A side \in Sides : Wired(f, side)
ZeroTime(f, n) == \E side \in Sides : <<f, side, n>> \in zeros

(* Entry n of the output tree is made of record n of every source and of   *)
(* nothing else, in all categories: no side from another event, nothing    *)
(* left over from the event before, no task that missed its input because  *)
(* it ran too early, no event that only some sources had.  A fibre read on *)
(* both sides has its hit, unless one of its times is 0: nothing is asked  *)
(* of the hit then, which the program leaves out; a fibre read on one side *)
(* has none.                                                               *)
EventsComplete ==
  \A n \in DOMAIN tree : \A f \in Fibers :
    /\ tree[n]["Raw"][f] = RawOf(f, n)
    /\ tree[n]["Cal"][f] = RawOf(f, n)
    /\ tree[n]["Hit"][f] # NoObject => BothSides(f) /\ tree[n]["Hit"][f] = RawOf(f, n)
    /\ BothSides(f) /\ ~ZeroTime(f, n) => tree[n]["Hit"][f] = RawOf(f, n)

(* The loop ends at the limit or with the shortest source, and not before: *)
(* the tree that is saved has every event that all sources had.            *)
AllEventsWritten ==
  pc \in {"finished", "saved"} =>
    LET n == Len(tree) IN
    /\ entries >= 0 => n <= entries
    /\ n > 0 => \A s \in Sources : n <= length[s]
    /\ \/ n = entries
       \/ \E s \in Sources : n = length[s]
       \/ NumSources = 0

(* No unpacker and no task asks a compressed category for a slot: reading  *)
(* a category compresses it, so a writer that came after a reader would    *)
(* construct its object at a null pointer.                                 *)
NeverWritesCompressed == pc # "crashed"

(* To the program every category is an EventStore: its objects change only *)
(* before it is compressed, and what the tree gets is what they were then. *)
Cat(c) == INSTANCE EventStore WITH
            Locators <- Fibers,
            None <- NoObject,
            objects <- cats[c].objects,
            sealed <- cats[c].sealed,
            archive <- [n \in 1 .. Len(tree) |-> tree[n][c]]

CategoriesAreStores ==
  /\ \A c \in CatNames : Cat(c)!StoreInit
  /\ [][\A c \in CatNames : [Cat(c)!StoreNext]_(Cat(c)!storeVars)]_vars

(* The loop ends for files of any length, with or without a limit.         *)
Terminates == <>(pc \in Outcomes)
=============================================================================

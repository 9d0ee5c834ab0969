------------------------------- MODULE Program -------------------------------
(***************************************************************************)
(* The programs that write a file, sifi_dst and sifi_dst_sifidetres        *)
(* (src/dst), from main to save: the calls of main in their order, the     *)
(* registry of categories in SiFi, the tasks of the fibre detector, the    *)
(* init of tasks and unpackers, the branches of the output tree and the    *)
(* events.  What happens to the objects of a category within an event is   *)
(* the subject of EventLoop; here a category holds the number of the event *)
(* its objects come from, or 0 when it is empty.                           *)
(*                                                                         *)
(* Programs run one after the other; each leaves a file on the disk, with  *)
(* its tree and header only if it came to save.                            *)
(***************************************************************************)
EXTENDS Integers, Sequences, SequencesExt, CategoryIds

CONSTANTS
  Inputs,     (* what the programs are run on: "DD" (samples), "Board"     *)
              (* (all sources whose unpacker calibrates) and "DR"          *)
  Sizes,      (* bound: records of an input file                           *)
  Requests,   (* bound: the -e options, negative for all events            *)
  MaxFiles    (* bound: how many programs are run                          *)

ASSUME InputsAssumption == Inputs \subseteq {"DD", "Board", "DR"}
ASSUME SizesAssumption == Sizes \subseteq Nat
ASSUME RequestsAssumption == Requests \subseteq Int
ASSUME MaxFilesAssumption == MaxFiles \in Nat \ {0}

VARIABLES
  input, size, request,  (* how the program was called                     *)
  behind,      (* what lies behind the array of category infos looks like  *)
               (* the info of a persistent category                        *)
  main,        (* the calls of main that are still to come                 *)
  status,      (* "idle" between programs, else how this one is doing      *)
  sim,         (* SiFi::sim                                                *)
  outputTree,  (* there is an output tree                                  *)
  registered,  (* the categories with CategoryInfo::registered             *)
  categories,  (* SiFi::categories: "absent", "null" or "built"            *)
  branches,    (* the branches of the output tree                          *)
  tasks,       (* STaskManager::tasks: steps and tasks                     *)
  inited,      (* the tasks whose init has been called                     *)
  content,     (* the event each category holds, 0 for none                *)
  tree,        (* the entries of the output tree                           *)
  events,      (* ghost: for each event of the loop, whether it had data   *)
  files        (* the files on disk                                        *)

call == <<input, size, request, behind>>
registry == <<sim, outputTree, registered, categories, branches>>
vars == <<call, main, status, registry, tasks, inited, content, tree, events, files>>
-----------------------------------------------------------------------------
(* The calls of the two mains.  Calls that change nothing here (addSource, *)
(* the parameters, addDetector) are left out.                              *)
MutantMainOf(i) ==   \* categories are registered after the first is built
  IF i = "DR"
    THEN <<"setSimulation", "book", "buildCal", "initCategories", "initTasks", "init",
           "open", "initBranches", "loop", "save">>
    ELSE <<"book", "initTasks", "initCategories", "init", "open", "initBranches", "loop", "save">>
MainOf(i) ==
  IF i = "DR"
    THEN <<"setSimulation", "book", "initCategories", "buildCal", "initTasks", "init",
           "open", "initBranches", "loop", "save">>
    ELSE <<"book", "initTasks", "initCategories", "init", "open", "initBranches", "loop", "save">>

NoContent == [c \in Cats |-> 0]

Init ==
  /\ input = "none" /\ size = 0 /\ request = 0 /\ behind = FALSE
  /\ main = <<>>
  /\ status = "idle"
  /\ sim = FALSE
  /\ outputTree = FALSE
  /\ registered = {}
  /\ categories = [c \in Cats |-> "absent"]
  /\ branches = {}
  /\ tasks = {}
  /\ inited = {}
  /\ content = NoContent
  /\ tree = <<>>
  /\ events = <<>>
  /\ files = <<>>

Start(i, n, r, b) ==
  /\ status = "idle" /\ Len(files) < MaxFiles
  /\ input' = i /\ size' = n /\ request' = r /\ behind' = b
  /\ main' = MainOf(i)
  /\ status' = "running"
  /\ UNCHANGED <<registry, tasks, inited, content, tree, events, files>>

(* The program is over, and with it all it had in memory.  The file is     *)
(* there, but only save gives it a tree and a header.                      *)
Over(how) ==
  /\ files' = Append(files,
       IF how = "saved"
         THEN [how |-> how, booked |-> outputTree, program |-> input,
               header |-> {c \in Cats : categories[c] = "built"},
               branches |-> branches, entries |-> tree, events |-> events]
         ELSE [how |-> how, booked |-> outputTree, program |-> input,
               header |-> {}, branches |-> {}, entries |-> <<>>, events |-> <<>>])
  /\ input' = "none" /\ size' = 0 /\ request' = 0 /\ behind' = FALSE
  /\ main' = <<>>
  /\ status' = "idle"
  /\ sim' = FALSE
  /\ outputTree' = FALSE
  /\ registered' = {}
  /\ categories' = [c \in Cats |-> "absent"]
  /\ branches' = {}
  /\ tasks' = {}
  /\ inited' = {}
  /\ content' = NoContent
  /\ tree' = <<>>
  /\ events' = <<>>

Calling(name) == status = "running" /\ main # <<>> /\ Head(main) = name
Return == main' = Tail(main)
-----------------------------------------------------------------------------
(* registerCategory: the first registration of a category stays.           *)
Register(cs) == registered' = registered \cup cs

SetSimulation ==
  /\ Calling("setSimulation") /\ Return
  /\ sim' = TRUE
  /\ Register({"GeantTrack"})
  /\ UNCHANGED <<call, status, outputTree, categories, branches, tasks, inited, content, tree, events, files>>

(* book: without a file there is no tree; its answer is not looked at.     *)
Book ==
  /\ Calling("book") /\ Return
  /\ outputTree' \in BOOLEAN
  /\ UNCHANGED <<call, status, sim, registered, categories, branches, tasks, inited, content, tree, events, files>>

(* SFibersDetector::initTasks; a task goes to the manager if the mask of   *)
(* the detector, with 8 bits, has its step.                                *)
Task(step, name) == [step |-> step, name |-> name]
DetectorTasks ==
  {Task(2, "HitFinder"), Task(3, "ClusterFinder")}
    \cup (IF sim THEN {} ELSE {Task(0, "Unpacker"), Task(1, "Calibrator")})

InitTasks ==
  /\ Calling("initTasks") /\ Return
  /\ tasks' = tasks \cup {t \in DetectorTasks : t.step < 8}
  /\ UNCHANGED <<call, status, registry, inited, content, tree, events, files>>

(* SFibersDetector::initCategories.                                        *)
InitCategories ==
  /\ Calling("initCategories") /\ Return
  /\ Register({"FibersCal", "FibersHit", "FibersClus"}
                \cup (IF sim THEN {"GeantFibersRaw"} ELSE {"FibersRaw"}))
  /\ UNCHANGED <<call, status, sim, outputTree, categories, branches, tasks, inited, content, tree, events, files>>

(* buildCategory for the members of a sequence, up to the first that gives *)
(* the null pointer; one that is not registered leaves a null entry in the *)
(* map of categories.  regs are the registered categories.                 *)
Builds(cs, regs) == outputTree /\ ToSet(cs) \subseteq regs
Built(cs, regs) ==
  LET good == {k \in DOMAIN cs : \A j \in 1 .. k : cs[j] \in regs}
      bad == {cs[k] : k \in {k \in DOMAIN cs : cs[k] \notin regs /\ \A j \in 1 .. k - 1 : j \in good}}
  IN IF ~outputTree THEN categories
     ELSE [c \in Cats |-> IF c \in {cs[k] : k \in good} THEN "built"
                          ELSE IF c \in bad /\ categories[c] = "absent" THEN "null"
                          ELSE categories[c]]

(* sifi_dst_sifidetres builds the category of the importer by hand, before *)
(* the tasks look for it, and does not look at the answer.                 *)
BuildCal ==
  /\ Calling("buildCal") /\ Return
  /\ categories' = Built(<<"FibersCal">>, registered)
  /\ UNCHANGED <<call, status, sim, outputTree, registered, branches, tasks, inited, content, tree, events, files>>

(* STaskManager::initTasks in the order of the steps: a task gets its      *)
(* input category, which must have been built, and builds its output.      *)
InputOf(task) ==
  CASE task = "Unpacker" -> {}
    [] task = "Calibrator" -> {"FibersRaw"}
    [] task = "HitFinder" -> {"FibersCal"}
    [] task = "ClusterFinder" -> {"FibersHit"}
OutputOf(task) ==
  CASE task = "Unpacker" -> "FibersRaw"
    [] task = "Calibrator" -> "FibersCal"
    [] task = "HitFinder" -> "FibersHit"
    [] task = "ClusterFinder" -> "FibersClus"

NextTask(t) == t \in tasks \ inited /\ \A u \in tasks \ inited : t.step <= u.step

InitTask(t) ==
  /\ Calling("init") /\ NextTask(t)
  /\ \A c \in InputOf(t.name) : categories[c] = "built"
  /\ Builds(<<OutputOf(t.name)>>, registered)
  /\ categories' = Built(<<OutputOf(t.name)>>, registered)
  /\ inited' = inited \cup {t}
  /\ UNCHANGED <<call, main, status, sim, outputTree, registered, branches, tasks, content, tree, events, files>>

InitTaskFails(t) ==   \* exit
  /\ Calling("init") /\ NextTask(t)
  /\ \/ \E c \in InputOf(t.name) : categories[c] # "built"
     \/ ~Builds(<<OutputOf(t.name)>>, registered)
  /\ Over("tasks")

TasksInited ==
  /\ Calling("init") /\ inited = tasks /\ Return
  /\ UNCHANGED <<call, status, registry, tasks, inited, content, tree, events, files>>
-----------------------------------------------------------------------------
(* SiFi::loop opens the sources; their unpackers' init builds what they    *)
(* write to.  Those of the samples register their own category first.      *)
WrittenBy(i) ==
  CASE i = "DD" -> <<"DDSamples", "FibersRaw">>
    [] i = "Board" -> <<"FibersRaw", "FibersCal">>
    [] i = "DR" -> <<"GeantTrack", "GeantFibersRaw", "FibersCal">>

RegisteredBy(i) == IF i = "DD" THEN {"DDSamples"} ELSE {}

Open ==
  /\ Calling("open") /\ Return
  /\ LET regs == registered \cup RegisteredBy(input) IN
     /\ registered' = regs
     /\ Builds(WrittenBy(input), regs)
     /\ categories' = Built(WrittenBy(input), regs)
  /\ UNCHANGED <<call, status, sim, outputTree, branches, tasks, inited, content, tree, events, files>>

(* The file cannot be opened, or the unpacker is not initialised: abort.   *)
OpenAborts ==
  /\ Calling("open")
  /\ Over(IF Builds(WrittenBy(input), registered \cup RegisteredBy(input)) THEN "file" ELSE "unpacker")

(* initBranches: a branch for every persistent category, and all that are  *)
(* built are.  The loop runs to twice the size of the array.               *)
InitBranches ==
  /\ Calling("initBranches") /\ Return /\ ~behind
  /\ branches' = {c \in Cats : categories[c] = "built"}
  /\ UNCHANGED <<call, status, sim, outputTree, registered, categories, tasks, inited, content, tree, events, files>>

InitBranchesCrashes ==
  /\ Calling("initBranches") /\ behind
  /\ Over("branches")
-----------------------------------------------------------------------------
(* How many events there are: dst passes its option to the loop, where a   *)
(* negative number is a huge one, and the sources end it; sifidetres       *)
(* limits it to the entries of its source, which does not end.             *)
EvLimit == IF request < 0 \/ request > size THEN size ELSE request

Id(e) == Len(files) * 100 + e

(* One task reads its category and writes what it finds to the next.       *)
RunTask(cont, t) ==
  LET found == {cont[c] : c \in InputOf(t.name)} \ {0}
  IN IF found = {} THEN cont
     ELSE [cont EXCEPT ![OutputOf(t.name)] = CHOOSE n \in found : TRUE]

(* STaskManager::runTasks, in the order of the steps: the last one runs on *)
(* what the others have made.                                              *)
LastTask(ts) == CHOOSE t \in ts : \A u \in ts : u.step <= t.step
RunTasks(cont) ==
  MapThenFoldSet(LAMBDA t, made : RunTask(made, t), cont, LAMBDA t : t, LastTask, tasks)

MutantCleared == [c \in Cats |-> IF c \in {"GeantTrack", "FibersRaw"} THEN 0 ELSE content[c]]
Cleared == [c \in Cats |-> IF categories[c] = "built" THEN 0 ELSE content[c]]

(* An event of the loop: clear, the source, the tasks, fill.  A record may *)
(* be without data; one with data has a fibre with both sides whose times  *)
(* are not 0, so that something comes through to the last task.            *)
Event(data) ==
  /\ Calling("loop") /\ Len(events) < EvLimit
  /\ \A c \in Cats : categories[c] # "null"
  /\ LET unpacked == [c \in Cats |->
                        IF data /\ c \in ToSet(WrittenBy(input)) THEN Id(Len(events) + 1)
                        ELSE Cleared[c]]
         processed == RunTasks(unpacked)
     IN /\ content' = processed
        /\ tree' = Append(tree, [c \in branches |-> processed[c]])
  /\ events' = Append(events, data)
  /\ UNCHANGED <<call, main, status, registry, tasks, inited, files>>

(* An unpacker that meets an unknown channel, or a task that fails, calls  *)
(* exit: what has been filled is lost.  A null entry of the map is called  *)
(* by clear and fill.                                                      *)
EventStops ==
  /\ Calling("loop") /\ Len(events) < EvLimit
  /\ Over(IF \E c \in Cats : categories[c] = "null" THEN "null" ELSE "exit")

LoopEnds ==
  /\ Calling("loop") /\ Len(events) = EvLimit /\ Return
  /\ UNCHANGED <<call, status, registry, tasks, inited, content, tree, events, files>>

(* save: tree and header are written.                                      *)
Save == Calling("save") /\ Over("saved")

Next ==
  \/ \E i \in Inputs, n \in Sizes, r \in Requests, b \in BOOLEAN : Start(i, n, r, b)
  \/ SetSimulation \/ Book \/ InitTasks \/ InitCategories \/ BuildCal
  \/ \E t \in tasks : InitTask(t) \/ InitTaskFails(t)
  \/ TasksInited \/ Open \/ OpenAborts \/ InitBranches \/ InitBranchesCrashes
  \/ \E data \in BOOLEAN : Event(data)
  \/ EventStops \/ LoopEnds \/ Save
=============================================================================

------------------------------ MODULE Programs ------------------------------
(***************************************************************************)
(* Programs that write files, and one that reads them: what goes from the  *)
(* records of a source through the categories, the output tree and the     *)
(* header of one process into the categories of another.                   *)
(***************************************************************************)
EXTENDS Program, FiniteSets

CONSTANTS Clients, MaxPresses   (* see EventReader *)

ASSUME ClientsAssumption == Clients \subseteq {"scan", "calibrate", "display"}
ASSUME MaxPressesAssumption == MaxPresses \in Nat

VARIABLES pc, client, chain, bound, mem, current_event, pass, seen, presses

reading == <<pc, client, chain, bound, mem, current_event, pass, seen, presses>>

Reader == INSTANCE EventReader

ProgramsInit == Init /\ Reader!ReaderInit

(* Files are read when no program is writing.                              *)
ProgramsNext ==
  \/ pc = "off" /\ Next /\ UNCHANGED reading
  \/ status = "idle" /\ Reader!ReaderNext
       /\ UNCHANGED <<call, main, status, registry, tasks, inited, content, tree, events>>

ProgramsSpec == ProgramsInit /\ [][ProgramsNext]_<<vars, reading>>
-----------------------------------------------------------------------------
(* Every program gets through its start: whenever the output file could be *)
(* created, each task finds its input category built by the task, the      *)
(* unpacker or the main before it, and no category is asked for before it  *)
(* is registered, which would leave a null pointer among the categories.   *)
ProgramsStartUp ==
  \A k \in DOMAIN files :
    /\ files[k].how \in {"tasks", "unpacker"} => ~files[k].booked
    /\ files[k].how # "null"

(* A file that was saved has the branches its header names, and an entry   *)
(* for every event of its loop.  An entry has in all its categories what   *)
(* came from the record of its own event: nothing of the event before is   *)
(* left when a record is without data, and with data every category that   *)
(* is derived from it has it, through all the tasks.                       *)
EntriesAreOwnEvents ==
  \A k \in DOMAIN files : files[k].how = "saved" =>
    /\ files[k].header = files[k].branches
    /\ {"FibersCal", "FibersHit", "FibersClus"} \subseteq files[k].header
    /\ Len(files[k].entries) = Len(files[k].events)
    /\ \A e \in DOMAIN files[k].entries : \A c \in files[k].branches :
         files[k].entries[e][c] = IF files[k].events[e] THEN (k - 1) * 100 + e ELSE 0

(* Reading: pass e of a scan of the chain, be it the first loop or one     *)
(* after others have moved the chain, and the display of event e,          *)
(* have event e of the chain, over the boundary of files and in any order, *)
(* in all categories that its file has; the scan sees every event once.    *)
(* A category that the file of the event lacks is empty only if its        *)
(* position is below the number of categories; others keep what an event   *)
(* of another file left.  The loop with nextEvent at its end has in its    *)
(* second and later passes what a scan has there; of the first, see below. *)
Shown(e) == Reader!ChainEntries[e + 1]
Lacks(e, c) == c \notin files[Shown(e).file].branches
Written(e, c) == files[Shown(e).file].entries[Shown(e).entry][c]

ReadsWhatWasWritten ==
  client # "none" =>
    /\ client \notin {"calibrate", "display"} =>
         Len(seen) = pass /\ \A k \in DOMAIN seen : seen[k].event = k - 1
    /\ client # "calibrate" => \A k \in DOMAIN seen : LET e == seen[k].event IN
         e < Reader!GetEntries =>
           \A c \in bound :
             /\ ~Lacks(e, c) => seen[k].mem[c] = Written(e, c)
             /\ Lacks(e, c) /\ Position[c] < Cardinality(bound) => seen[k].mem[c] = 0
    /\ client = "calibrate" => \A k \in DOMAIN seen : \A c \in bound :
         k > 1 /\ ~Lacks(k - 1, c) => seen[k].mem[c] = Written(k - 1, c)
    /\ client = "display" => \A k \in DOMAIN seen :
         seen[k].event = pass /\ (Reader!GetEntries > 0 => pass < Reader!GetEntries)

(* "This function should be used at the end of the loop, as it moves to    *)
(* event #1. setInput() resets event position to 0." (SLoop.cc:151-154):   *)
(* with nextEvent at the end of the loop every pass finds the event of its *)
(* position, the first one event 0.                                        *)
EveryPassShowsItsEvent ==
  client = "calibrate" =>
    \A k \in DOMAIN seen : \A c \in bound :
      ~Lacks(k - 1, c) => seen[k].mem[c] = Written(k - 1, c)
=============================================================================

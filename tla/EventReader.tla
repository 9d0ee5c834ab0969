----------------------------- MODULE EventReader -----------------------------
(***************************************************************************)
(* Reading the files of the programs back: SLoop and SEvent                *)
(* (lib/base/util, lib/base/event), and the macros on top of them, which   *)
(* use them in three ways:                                                 *)
(*   "scan"       getEvent(i) at the beginning of the pass of a loop       *)
(*                (read_clusters, CutAndView);                             *)
(*   "calibrate"  nextEvent at its end, as the comment on nextEvent says   *)
(*                (hitfinder_calibration, whose later loops use getEvent); *)
(*   "display"    the buttons and sliders of event_display.                *)
(* TChain is external: the chain of the files that were added, whose       *)
(* entry, when it exists, goes to the categories that are bound.           *)
(***************************************************************************)
EXTENDS Integers, Sequences, SequencesExt, FiniteSets, CategoryIds

CONSTANTS
  Clients,    (* the ways of reading                                       *)
  MaxPresses  (* bound: what the user of the display does                  *)

VARIABLES
  files,          (* the files on disk                                     *)
  pc, client,
  chain,          (* the files that were added, by their number            *)
  bound,          (* the categories with an address in the chain           *)
  mem,            (* what the categories hold: an event, or 0              *)
  current_event,  (* SLoop::current_event                                  *)
  pass,           (* the variable of the client's loop                     *)
  seen,           (* what the client found in the passes, or displayed     *)
  presses         (* counts for the bound                                  *)

Empty == [c \in Cats |-> 0]

ReaderInit ==
  /\ pc = "off" /\ client = "none"
  /\ chain = <<>>
  /\ bound = {}
  /\ mem = Empty
  /\ current_event = 0
  /\ pass = 0
  /\ seen = <<>>
  /\ presses = 0

Complete(f) == files[f].how = "saved"

(* The entries of the chain, with the file of each.                        *)
ChainEntries ==
  FlattenSeq([k \in DOMAIN chain |->
    [e \in DOMAIN files[chain[k]].entries |-> [file |-> chain[k], entry |-> e]]])
GetEntries == Len(ChainEntries)

(* new SLoop, and the files for it.                                        *)
NewLoop(c) ==
  /\ pc = "off" /\ files # <<>>
  /\ pc' = "add" /\ client' = c
  /\ UNCHANGED <<files, chain, bound, mem, current_event, pass, seen, presses>>

(* addFile: a file that is not there is left out.                          *)
AddFile(f) ==
  /\ pc = "add" /\ \A k \in DOMAIN chain : chain[k] < f
  /\ chain' = IF f \in DOMAIN files THEN Append(chain, f) ELSE chain
  /\ UNCHANGED <<files, pc, client, bound, mem, current_event, pass, seen, presses>>

(* addFiles stops at the first file that addFile takes.                    *)
AddFiles(list) ==
  /\ pc = "add" /\ chain = <<>>
  /\ LET found == {k \in DOMAIN list : list[k] \in DOMAIN files}
     IN chain' = IF found = {} THEN <<>>
                 ELSE <<list[CHOOSE k \in found : \A j \in found : k <= j]>>
  /\ pc' = "added"
  /\ UNCHANGED <<files, client, bound, mem, current_event, pass, seen, presses>>

Added ==
  /\ pc = "add" /\ pc' = "added"
  /\ UNCHANGED <<files, client, chain, bound, mem, current_event, pass, seen, presses>>

(* The file the chain has open after GetEntry(0): the first with entries,  *)
(* or the last.                                                            *)
HeaderFile == IF GetEntries > 0 THEN ChainEntries[1].file ELSE Last(chain)

(* setInput reads entry 0 before any category has an address; then the     *)
(* categories of the header that are in the tree get one, and a new object *)
(* in the event, which is empty.                                           *)
SetInput ==
  /\ pc = "added" /\ chain # <<>> /\ Complete(HeaderFile)
  /\ bound' = files[HeaderFile].header \cap files[HeaderFile].branches
  /\ mem' = Empty
  /\ current_event' = 0
  /\ pc' = IF client = "display" THEN "gui" ELSE "loop"
  /\ UNCHANGED <<files, client, chain, pass, seen, presses>>

(* No files, or a file without a tree and a header in the chain.           *)
SetInputAborts ==
  /\ pc = "added"
  /\ chain = <<>> \/ \E k \in DOMAIN chain : ~Complete(chain[k])
  /\ pc' = "aborted"
  /\ UNCHANGED <<files, client, chain, bound, mem, current_event, pass, seen, presses>>
-----------------------------------------------------------------------------
(* SEvent::clearCategories takes the number of categories for the end of   *)
(* their positions.                                                        *)
MutantIsCleared(c) == Position[c] \in 1 .. Cardinality(bound) - 1   \* from 1 on
IsCleared(c) == Position[c] < Cardinality(bound)

(* getEvent and nextEvent: clear, then the entry, if there is one, for the *)
(* categories that are bound and in its file.                              *)
AfterEntry(e) ==
  [c \in Cats |->
     IF e < GetEntries /\ c \in bound \cap files[ChainEntries[e + 1].file].branches
       THEN files[ChainEntries[e + 1].file].entries[ChainEntries[e + 1].entry][c]
     ELSE IF IsCleared(c) THEN 0
     ELSE mem[c]]

GetEvent(e) ==
  /\ current_event' = e
  /\ mem' = AfterEntry(e)

NextEvent ==
  /\ current_event' = current_event + 1
  /\ mem' = AfterEntry(current_event + 1)

See(e, m) == [event |-> e, mem |-> m]

(* One pass of a loop over all entries.                                    *)
ScanAs(c) ==
  /\ pc = "loop" /\ client = c /\ pass < GetEntries
  /\ GetEvent(pass)
  /\ seen' = Append(seen, See(pass, mem'))
  /\ pass' = pass + 1
  /\ UNCHANGED <<files, pc, client, chain, bound, presses>>

Scan == ScanAs("scan")

Calibrate ==
  /\ pc = "loop" /\ client = "calibrate" /\ pass < GetEntries
  /\ seen' = Append(seen, See(pass, mem))
  /\ NextEvent
  /\ pass' = pass + 1
  /\ UNCHANGED <<files, pc, client, chain, bound, presses>>

(* The calibration has three more loops: over the residuals of the         *)
(* position, over the energies, and over their residuals.                  *)
PositionResiduals == ScanAs("residuals")
EnergyCalibration == ScanAs("energy")
EnergyResiduals == ScanAs("energy residuals")

NextLoop ==
  /\ pc = "loop" /\ pass = GetEntries
  /\ \/ client = "calibrate" /\ client' = "residuals"
     \/ client = "residuals" /\ client' = "energy"
     \/ client = "energy" /\ client' = "energy residuals"
  /\ pass' = 0 /\ seen' = <<>>
  /\ UNCHANGED <<files, pc, chain, bound, mem, current_event, presses>>

LoopDone ==
  /\ pc = "loop" /\ client \in {"scan", "energy residuals"} /\ pass = GetEntries
  /\ pc' = "done"
  /\ UNCHANGED <<files, client, chain, bound, mem, current_event, pass, seen, presses>>
-----------------------------------------------------------------------------
(* event_display: load_event shows the event sifi_event_id, here pass.     *)
LoadEvent(e) ==
  /\ pass' = e
  /\ GetEvent(e)
  /\ seen' = <<See(e, mem')>>
  /\ presses' = presses + 1
  /\ UNCHANGED <<files, client, chain, bound>>

(* make_gui moves the sliders, whose handlers load the event; and so does  *)
(* event_display at its end.                                               *)
MakeGui == pc = "gui" /\ LoadEvent(0) /\ pc' = "shown"

Pressed == pc = "shown" /\ presses < MaxPresses /\ UNCHANGED pc
Fwd == Pressed /\ pass < GetEntries - 1 /\ LoadEvent(pass + 1)
Bck == Pressed /\ pass > 0 /\ LoadEvent(pass - 1)
(* The field has the limits 0 and the number of the last event.            *)
Jump == Pressed /\ \E e \in 0 .. GetEntries - 1 : LoadEvent(e)
(* The sliders and colours of fibres, charges and clusters.                *)
Slide == Pressed /\ LoadEvent(pass)

ReaderNext ==
  \/ \E c \in Clients : NewLoop(c)
  \/ \E f \in 1 .. Len(files) + 1 : AddFile(f)
  \/ \E f, g \in 1 .. Len(files) + 1 : AddFiles(<<f, g>>)
  \/ Added \/ SetInput \/ SetInputAborts
  \/ Scan \/ Calibrate \/ PositionResiduals \/ EnergyCalibration \/ EnergyResiduals
  \/ NextLoop \/ LoopDone
  \/ MakeGui \/ Fwd \/ Bck \/ Jump \/ Slide
=============================================================================

-------------------------------- MODULE Events --------------------------------
(***************************************************************************)
(* What a program does with the events of the detector: the loop that      *)
(* reads, processes and writes them (EventLoop), the clusters found in the *)
(* hits of one of them (ClusterFinder), and the signals of the digitizer,  *)
(* from the unpacker to the macros that show them (Signals).  They share   *)
(* no state; a behaviour is about one of them.                             *)
(***************************************************************************)
EXTENDS EventLoop, ClusterFinder, Signals

VARIABLE topic   (* "loop", "clusters" or "signals"                        *)

eventsVars == <<topic, vars, clusterVars, signalsVars>>

(* A loop that has ended without an event, an event with hits that are not *)
(* grouped, a measurement that is not read.                                *)
NoLoop ==
  /\ pc = "saved" /\ entries = 0 /\ length = [s \in Sources |-> 0] /\ zeros = {}
  /\ record = [s \in Sources |-> 0] /\ tasks = <<>> /\ i = 0 /\ source = 1 /\ flag = FALSE
  /\ task = 1 /\ size = 0 /\ obj = 0 /\ tree = <<>>
  /\ cats = [c \in CatNames |-> [objects |-> NoObjects, sealed |-> FALSE]]

NoHits ==
  /\ near = {<<g, g>> : g \in Hits} /\ module = [g \in Hits |-> CHOOSE m \in Modules : TRUE]
  /\ stage = "seed" /\ assigned = [g \in Hits |-> Unassigned] /\ members = [c \in Ids |-> <<>>]
  /\ cluster_id = -1 /\ unassigned = N /\ h = 1 /\ h2 = 1 /\ turn = 0 /\ hit_nr = 1
  /\ clus_cnt = [m \in Modules |-> 0] /\ slots = [s \in Modules \X Ids |-> Unassigned]

NoSignals ==
  /\ phase = "ready" /\ camp = None /\ chan = 0 /\ samples = <<>> /\ raw = <<>> /\ saved = <<>>
  /\ cut = None /\ pass = 0 /\ view = None /\ at = <<>> /\ x = None /\ shown = <<>>

EventsInit ==
  \/ topic = "loop" /\ Init /\ NoHits /\ NoSignals
  \/ topic = "clusters" /\ ClusterInit /\ NoLoop /\ NoSignals
  \/ topic = "signals" /\ SignalsInit /\ NoLoop /\ NoHits

LoopNext == topic = "loop" /\ Next /\ UNCHANGED <<topic, clusterVars, signalsVars>>
FinderNext == topic = "clusters" /\ ClusterNext /\ UNCHANGED <<topic, vars, signalsVars>>
MeasurementNext == topic = "signals" /\ SignalsNext /\ UNCHANGED <<topic, vars, clusterVars>>

EventsNext == LoopNext \/ FinderNext \/ MeasurementNext

(* The program is one thread that does not wait for anything, and execute  *)
(* a sequential function: each runs on to its end.                         *)
EventsSpec ==
  /\ EventsInit /\ [][EventsNext]_eventsVars
  /\ WF_eventsVars(LoopNext) /\ WF_eventsVars(FinderNext)
-----------------------------------------------------------------------------
(* SFibersClusterFinder::execute returns for every set of hits.            *)
ClustersFound == topic = "clusters" ~> stage = "done"
=============================================================================

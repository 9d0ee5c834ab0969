------------------------------- MODULE Sources -------------------------------
(***************************************************************************)
(* The data sources a program can be started with: one that puts events    *)
(* together from lines (LineSource), or one with a record per event        *)
(* (RecordSource).  They share no state; a behaviour is about one of them. *)
(***************************************************************************)
EXTENDS LineSource

CONSTANTS   (* see RecordSource *)
  Kinds, Unpackers, Addresses, Lookup, Contents, Sizes, RecordSize, Limits, Fold

ASSUME KindsAssumption ==
  Kinds \subseteq {"DD", "KS", "Petiroc", "TTree", "TP", "HLD", "DR"}
ASSUME AddressesAssumption == Addresses \subseteq Nat \ {0} /\ IsFiniteSet(Addresses)
ASSUME LookupAssumption ==
  /\ Addresses \cup {0} \subseteq DOMAIN Lookup
  /\ Lookup \in [DOMAIN Lookup -> [fiber : 0 .. Fold - 1, side : Sides] \cup {None}]
ASSUME SizesAssumption == Sizes \in [Kinds -> SUBSET Nat]
ASSUME RecordSizeAssumption == RecordSize \in Nat \ {0}
ASSUME LimitsAssumption == Limits \subseteq Nat
ASSUME FoldAssumption == Fold \in Nat \ {0}
ASSUME ContentsAssumption ==
  Contents \in [Kinds -> SUBSET [channel : DOMAIN Lookup, hits : Nat,
                                 lit : SUBSET (0 .. 2 * Fold - 1),
                                 located : SUBSET (0 .. Fold - 1)]]

ASSUME NoObjectAssumption == None \notin Nat /\ None \notin [Sides -> Int]

VARIABLES
  step, kind, size, ends, content, subevent, limit, unpackers, inited, current_event,
  taken, counter, mode, loaded, kine, todo, raw, tracks, delivered

records ==
  <<step, kind, size, ends, content, subevent, limit, unpackers, inited, current_event,
    taken, counter, mode, loaded, kine, todo, raw, tracks, delivered>>

Records == INSTANCE RecordSource WITH
             pc <- step, newline <- ends, next <- taken, state <- mode, events <- delivered

NoRecords ==
  /\ step = "setup" /\ kind = "none" /\ size = 0 /\ ends = TRUE /\ content = <<>>
  /\ subevent = 0 /\ limit = 0 /\ unpackers = <<>> /\ inited = {} /\ current_event = 0
  /\ taken = 0 /\ counter = 0 /\ mode = "READING" /\ loaded = 0 /\ kine = None
  /\ todo = <<>> /\ raw = <<>> /\ tracks = <<>> /\ delivered = <<>>

NoLines ==
  /\ pc = "call" /\ format = "none" /\ file = <<>> /\ newline = TRUE /\ next = 0
  /\ state = "INIT" /\ hit_cache = None /\ hits = <<>> /\ events = <<>>

SourcesInit == (Init /\ NoRecords) \/ (Records!Init /\ NoLines)

LinesNext == kind = "none" /\ Next /\ UNCHANGED records
RecordsNext == kind # "none" /\ Records!Next /\ UNCHANGED vars

SourcesNext == LinesNext \/ RecordsNext

(* The calls of the event loop, once the main has added the unpackers.     *)
RecordsCalled ==
  /\ kind # "none" /\ UNCHANGED vars
  /\ Records!Open \/ Records!Read \/ Records!Execute \/ Records!EventDone \/ Records!LimitReached

(* The event loop calls readCurrentEvent until it returns false, or the    *)
(* limit is reached; each call runs to its end.                            *)
SourcesSpec ==
  /\ SourcesInit /\ [][SourcesNext]_<<vars, records>>
  /\ WF_<<vars, records>>(LinesNext) /\ WF_<<vars, records>>(RecordsCalled)
-----------------------------------------------------------------------------
(* See RecordSource: the end of each source with a record per event, the   *)
(* category of an event and its tracks, and the stream of records.         *)
EndsAfterLastRecord == kind # "none" => Records!EndsAfterLastRecord
RawIsOfItsRecord == kind # "none" => Records!RawIsOfItsRecord
TracksComeOnce == kind # "none" => Records!TracksComeOnce
RecordsDeliverStream == Records!DeliversStream

(* Every source comes to its end, is stopped by the limit, or ends the     *)
(* program: also one that never says it has no more records (DR, and TP    *)
(* without entries), because a program asks for a number of events; and    *)
(* the loop over the lines of an event never waits at the end of the file. *)
SourcesTerminate ==
  <>(IF kind = "none" THEN pc \in {"ended", "failed"}
     ELSE step \in {"ended", "stopped", "notopen", "aborted", "exited"})
=============================================================================

---------------------------- MODULE RecordSource ----------------------------
(***************************************************************************)
(* The sources that take one record of their file for an event, and the    *)
(* unpackers behind them (lib/base/datasources, lib/fibers):               *)
(*   DD, KS   samples of a signal, binary or in columns of text;           *)
(*   Petiroc  a line of text with all channels of the board;               *)
(*   TTree,TP an entry of a tree, asked for by the number of the event;    *)
(*   HLD      an event of a stream, with any number of hits;               *)
(*   DR       the simulated answer of the detector: photon counts of the   *)
(*            SiPMs, and the tracks of the event.                          *)
(*                                                                         *)
(* SiFi::loop numbers the events and asks the source for each, until the   *)
(* source answers false or the limit is reached.  Every unpacker that is   *)
(* registered gets the data of the record; a source with a subevent number *)
(* passes them only to the unpacker of that number.                        *)
(***************************************************************************)
EXTENDS Naturals, Integers, Sequences, SequencesExt, FiniteSets, Functions

CONSTANTS
  Kinds,       (* the sources, of the list above                            *)
  Unpackers,   (* the unpacker objects                                      *)
  Addresses,   (* the addresses they are registered at                      *)
  Lookup,      (* Lookup[channel]: fibre and side, or None                  *)
  Contents,    (* Contents[kind]: what a record can hold: its channel, the  *)
               (* number of its hits, the SiPMs with counts (lit) and the   *)
               (* fibres with a position and an energy (located)            *)
  Sizes,       (* Sizes[kind]: how many lines, blocks or entries a file has *)
  RecordSize,  (* lines of a record of KS, blocks of a record of DD         *)
  Limits,      (* bound: the limits of the event loop                       *)
  Fold,        (* DR: number of fibres; SiPM s is on fibre s % Fold         *)
  None         (* no unpacker, no fibre, no object, no tracks               *)

Missing == -100   (* a side that TP knows to be without data               *)
Sides == {"l", "r"}
FiberNumbers == 0 .. Fold - 1
SiPMs == 0 .. 2 * Fold - 1

VARIABLES
  pc,
  kind,
  size,           (* the lines, blocks or entries of the file              *)
  newline,        (* a text file ends with a newline                       *)
  content,        (* content[r]: what record r holds; content[0]: what the *)
                  (* members of the source hold before anything is read    *)
  subevent,       (* the address the source is forced to, or 0 for all     *)
  limit,          (* the number of events asked for                        *)
  unpackers,      (* SDataSource::unpackers                                *)
  inited,         (* the unpackers whose init has been called              *)
  current_event,  (* SDataSource::current_event                            *)
  next,           (* records taken from a stream                           *)
  counter,        (* STPSource::entries_counter                            *)
  state,          (* STPSource::state                                      *)
  loaded,         (* the record in the members or the buffer               *)
  kine,           (* DR: the event whose tracks are not imported yet       *)
  todo,           (* calls of execute still to be made for this event      *)
  raw,            (* the category the unpackers write to                   *)
  tracks,         (* DR: the events whose tracks are in the category       *)
  events          (* the events delivered                                  *)

file == <<kind, size, newline, content, subevent, limit>>
stream == <<next, counter, state>>

BlocksOf(k) == IF k \in {"DD", "KS"} THEN RecordSize ELSE 1

(* The complete records of the file.  KS stops at the end-of-file flag,    *)
(* which a last line without a newline sets as well.                       *)
Records ==
  (IF kind = "KS" /\ ~newline /\ size > 0 THEN size - 1 ELSE size) \div BlocksOf(kind)

NoRaw == [f \in FiberNumbers |-> None]

Init ==
  /\ pc = "setup"
  /\ kind \in Kinds
  /\ size \in Sizes[kind]
  /\ newline \in (IF kind \in {"KS", "Petiroc"} THEN BOOLEAN ELSE {TRUE})
  /\ content \in [0 .. Records -> Contents[kind]]
  /\ subevent \in (IF kind = "DR" THEN {0} ELSE Addresses \cup {0})
  /\ limit \in Limits
  /\ unpackers = [a \in Addresses |-> None]
  /\ inited = {}
  /\ current_event = 0
  /\ next = 0
  /\ counter = 0
  /\ state = "READING"
  /\ loaded = 0
  /\ kine = None
  /\ todo = <<>>
  /\ raw = NoRaw
  /\ tracks = <<>>
  /\ events = <<>>
-----------------------------------------------------------------------------
Registered == {a \in Addresses : unpackers[a] # None}

(* addUnpacker: an address that is taken ends the program.                 *)
AddUnpacker(u, addr) ==
  /\ pc = "setup"
  /\ \A a \in addr : unpackers[a] = None
  /\ unpackers' = [a \in Addresses |-> IF a \in addr THEN u ELSE unpackers[a]]
  /\ UNCHANGED <<pc, file, inited, current_event, stream, loaded, kine, todo, raw, tracks, events>>

AddUnpackerAborts(addr) ==
  /\ pc = "setup"
  /\ \E a \in addr : unpackers[a] # None
  /\ pc' = "aborted"
  /\ UNCHANGED <<file, unpackers, inited, current_event, stream, loaded, kine, todo, raw, tracks, events>>

(* The addresses whose unpackers are called: the forced one, or all.       *)
Called == IF subevent # 0 THEN {subevent} ELSE Registered

(* What open does in every source once the file is open: without an        *)
(* unpacker it fails, a forced unpacker that is missing ends the program.  *)
OpenUnpackers(rec) ==
  /\ pc = "setup"
  /\ pc' = CASE Registered = {} -> "notopen"
             [] Registered # {} /\ ~Called \subseteq Registered -> "aborted"
             [] OTHER -> "call"
  /\ inited' = IF pc' = "call" THEN {unpackers[a] : a \in Called} ELSE inited
  /\ loaded' = rec
  /\ UNCHANGED <<file, unpackers, current_event, stream, kine, todo, raw, tracks, events>>

DDOpen == kind = "DD" /\ OpenUnpackers(0)
KSOpen == kind = "KS" /\ OpenUnpackers(0)
PetirocOpen == kind = "Petiroc" /\ OpenUnpackers(0)
HLDOpen == kind = "HLD" /\ OpenUnpackers(0)
TPOpen == kind = "TP" /\ OpenUnpackers(0)
(* The tree sources load their first entry when they are opened.           *)
TTreeOpen == kind = "TTree" /\ OpenUnpackers(IF size > 0 THEN 1 ELSE 0)
DROpen == kind = "DR" /\ OpenUnpackers(IF size > 0 THEN 1 ELSE 0)

(* KS reads from the header how many channels there are and refuses a      *)
(* file that has not the one of its subevent number.                       *)
KSOpenRefused ==
  /\ pc = "setup" /\ kind = "KS"
  /\ pc' = "notopen"
  /\ UNCHANGED <<file, unpackers, inited, current_event, stream, loaded, kine, todo, raw, tracks, events>>
-----------------------------------------------------------------------------
(* A set of numbers in their order, as a std::map goes through its keys.   *)
Ascending(S) ==
  [k \in 1 .. Cardinality(S) |-> CHOOSE x \in S : Cardinality({y \in S : y < x}) = k - 1]

(* How often execute is called for record r at each address: a hit at a    *)
(* time for HLD, a SiPM at a time in the order of their numbers for DR.    *)
Hits(r) ==
  CASE kind = "HLD" -> [h \in 1 .. content[r].hits |-> h]
    [] kind = "DR" -> Ascending(content[r].lit)
    [] OTHER -> <<1>>

Calls(r) ==
  LET addrs == Ascending(Called)
  IN FlattenSeq([k \in DOMAIN addrs |->
       [h \in DOMAIN Hits(r) |-> [address |-> addrs[k], hit |-> Hits(r)[h]]]])

(* SiFi::loop clears the categories, sets the number of the event and      *)
(* asks the source, which loads record rec.                                *)
Asked == pc = "call" /\ current_event < limit

Load(rec) ==
  /\ pc' = "execute"
  /\ loaded' = rec
  /\ todo' = Calls(rec)
  /\ raw' = NoRaw
  /\ tracks' = <<>>
  /\ UNCHANGED <<file, unpackers, inited, current_event, events>>

Ends ==
  /\ pc' = "ended"
  /\ UNCHANGED <<file, unpackers, inited, current_event, stream, loaded, kine, todo, raw, tracks, events>>

Advance == next' = next + 1 /\ UNCHANGED <<counter, state, kine>>

(* A source that reads its file front to back.                             *)
ReadOn == IF next < Records THEN Advance /\ Load(next + 1) ELSE Ends

(* istream.read of a whole block, or false.                                *)
DDRead == kind = "DD" /\ Asked /\ ReadOn

(* As many lines as the header says, all of them before the end of file.   *)
KSRead == kind = "KS" /\ Asked /\ ReadOn

(* The stream is looked at before the line is read: a last line without a  *)
(* newline is delivered, the empty line after the last newline ends.       *)
PetirocRead == kind = "Petiroc" /\ Asked /\ ReadOn

(* NextEvent of the connection, and the hits of its subevents.             *)
HLDRead == kind = "HLD" /\ Asked /\ ReadOn

(* The entry with the number of the event.  A number behind the last entry *)
(* leaves the members as they are, and only from n + 1 on it is refused.   *)
MutantTTreeRead ==   \* entries are counted from 1
  /\ kind = "TTree" /\ Asked
  /\ IF current_event > size
       THEN Ends
       ELSE /\ Load(IF current_event + 1 < size THEN current_event + 2 ELSE loaded)
            /\ UNCHANGED <<stream, kine>>
TTreeRead ==
  /\ kind = "TTree" /\ Asked
  /\ IF current_event > size
       THEN Ends
       ELSE /\ Load(IF current_event < size THEN current_event + 1 ELSE loaded)
            /\ UNCHANGED <<stream, kine>>

(* The end is noticed with the last entry: a tree without entries has none *)
(* and gives hits of zeros, content 0, for ever.                           *)
MutantTPRead ==   \* the state is set one entry late
  /\ kind = "TP" /\ Asked
  /\ IF state = "DONE"
       THEN Ends
       ELSE /\ counter' = counter + 1
            /\ state' = IF counter = size THEN "DONE" ELSE state
            /\ Load(IF current_event < size THEN current_event + 1 ELSE 0)
            /\ UNCHANGED <<next, kine>>
TPRead ==
  /\ kind = "TP" /\ Asked
  /\ IF state = "DONE"
       THEN Ends
       ELSE /\ counter' = counter + 1
            /\ state' = IF counter' = size THEN "DONE" ELSE state
            /\ Load(IF current_event < size THEN current_event + 1 ELSE 0)
            /\ UNCHANGED <<next, kine>>

(* Never false: behind the last entry the last one is digitised again.     *)
DRRead ==
  /\ kind = "DR" /\ Asked
  /\ LET rec == IF current_event < size THEN current_event + 1 ELSE loaded
     IN Load(rec) /\ kine' = rec
  /\ UNCHANGED stream
-----------------------------------------------------------------------------
(* The channel of a call in the lookup table: its address for the samples, *)
(* the first one for Petiroc and HLD, that of the record for the trees.    *)
Channel(call) ==
  CASE kind \in {"DD", "KS"} -> call.address
    [] kind \in {"Petiroc", "HLD"} -> 0
    [] OTHER -> content[loaded].channel

(* getObject, or getSlot and a new object; then the sides that are set.    *)
Object(f) == IF raw[f] = None THEN [l |-> 0, r |-> 0] ELSE raw[f]
SetSides(f, o) == raw' = [raw EXCEPT ![f] = o]

Executed ==
  /\ todo' = Tail(todo)
  /\ UNCHANGED <<pc, file, unpackers, inited, current_event, stream, loaded, kine, tracks, events>>

Calling(kinds) == pc = "execute" /\ todo # <<>> /\ kind \in kinds

(* SFibersDDUnpacker::decode sets the side the channel belongs to.         *)
MutantDDExecute ==   \* the side of the lookup table is not looked at
  /\ Calling({"DD", "KS"})
  /\ LET lc == Lookup[Channel(Head(todo))] IN
     /\ lc # None
     /\ SetSides(lc.fiber, [l |-> loaded, r |-> 0])
  /\ Executed
DDExecute ==
  /\ Calling({"DD", "KS"})
  /\ LET lc == Lookup[Channel(Head(todo))] IN
     /\ lc # None
     /\ SetSides(lc.fiber, [Object(lc.fiber) EXCEPT ![lc.side] = loaded])
  /\ Executed

(* The unpackers of the trees and boards set both sides.                   *)
SetBoth ==
  /\ LET lc == Lookup[Channel(Head(todo))] IN
     lc # None /\ SetSides(lc.fiber, [l |-> loaded, r |-> loaded])
  /\ Executed

PetirocExecute == Calling({"Petiroc"}) /\ SetBoth
HLDExecute == Calling({"HLD"}) /\ SetBoth
TTreeExecute == Calling({"TTree"}) /\ SetBoth

(* The TP unpacker sets one side, and the other to Missing; a channel that *)
(* is not in the table is skipped.                                         *)
TPExecute ==
  /\ Calling({"TP"})
  /\ LET lc == Lookup[Channel(Head(todo))] IN
     IF lc = None
       THEN UNCHANGED raw
       ELSE SetSides(lc.fiber, [[l |-> Missing, r |-> Missing] EXCEPT ![lc.side] = loaded])
  /\ Executed

(* The other unpackers end the program for such a channel.                 *)
UnknownChannel ==
  /\ Calling({"DD", "KS", "Petiroc", "HLD", "TTree"})
  /\ Lookup[Channel(Head(todo))] = None
  /\ pc' = "exited"
  /\ UNCHANGED <<file, unpackers, inited, current_event, stream, loaded, kine, todo, raw, tracks, events>>

(* The importer: the tracks come with the first SiPM whose fibre has a     *)
(* position and an energy, and no second time; a side that has counts      *)
(* keeps them.  SiPMs of other fibres are skipped.                         *)
Located(call) == call.hit % Fold \in content[loaded].located
Side(sipm) == IF sipm >= Fold THEN "r" ELSE "l"

MutantDRExecute ==   \* kine is not cleared after the first call
  /\ Calling({"DR"}) /\ Located(Head(todo))
  /\ LET sipm == Head(todo).hit
         o == Object(sipm % Fold)
     IN SetSides(sipm % Fold, IF o[Side(sipm)] = 0 THEN [o EXCEPT ![Side(sipm)] = loaded] ELSE o)
  /\ tracks' = IF kine = None THEN tracks ELSE Append(tracks, kine)
  /\ todo' = Tail(todo)
  /\ UNCHANGED <<pc, file, unpackers, inited, current_event, stream, loaded, kine, events>>
DRExecute ==
  /\ Calling({"DR"}) /\ Located(Head(todo))
  /\ LET sipm == Head(todo).hit
         o == Object(sipm % Fold)
     IN SetSides(sipm % Fold, IF o[Side(sipm)] = 0 THEN [o EXCEPT ![Side(sipm)] = loaded] ELSE o)
  /\ tracks' = IF kine = None THEN tracks ELSE Append(tracks, kine)
  /\ kine' = None
  /\ todo' = Tail(todo)
  /\ UNCHANGED <<pc, file, unpackers, inited, current_event, stream, loaded, events>>

DRSkip ==
  /\ Calling({"DR"}) /\ ~Located(Head(todo))
  /\ todo' = Tail(todo)
  /\ UNCHANGED <<pc, file, unpackers, inited, current_event, stream, loaded, kine, raw, tracks, events>>

(* readCurrentEvent has returned true; the loop writes the event and       *)
(* counts it.                                                              *)
EventDone ==
  /\ pc = "execute" /\ todo = <<>>
  /\ events' = Append(events, [record |-> loaded, raw |-> raw, tracks |-> tracks])
  /\ current_event' = current_event + 1
  /\ pc' = "call"
  /\ UNCHANGED <<file, unpackers, inited, stream, loaded, kine, todo, raw, tracks>>

LimitReached ==
  /\ pc = "call" /\ current_event = limit
  /\ pc' = "stopped"
  /\ UNCHANGED <<file, unpackers, inited, current_event, stream, loaded, kine, todo, raw, tracks, events>>

Open == DDOpen \/ KSOpen \/ KSOpenRefused \/ PetirocOpen \/ HLDOpen \/ TPOpen \/ TTreeOpen \/ DROpen
Read == DDRead \/ KSRead \/ PetirocRead \/ HLDRead \/ TTreeRead \/ TPRead \/ DRRead
Execute ==
  \/ DDExecute \/ PetirocExecute \/ HLDExecute \/ TTreeExecute \/ TPExecute
  \/ UnknownChannel \/ DRExecute \/ DRSkip

Next ==
  \/ \E u \in Unpackers, addr \in SUBSET Addresses \ {{}} : AddUnpacker(u, addr)
  \/ \E addr \in SUBSET Addresses \ {{}} : AddUnpackerAborts(addr)
  \/ Open \/ Read \/ Execute \/ EventDone \/ LimitReached

-----------------------------------------------------------------------------
(* Every source implements the stream of records, whether it counts, is    *)
(* asked by number or looks at the end-of-file flag: event n is record n,  *)
(* none is skipped, delivered twice or moved.  What is delivered when the  *)
(* last record has been is not part of the stream.                         *)
Delivered == IF Len(events) < Records THEN Len(events) ELSE Records

Stream == INSTANCE RecordStream WITH
            records <- Records,
            delivered <- Delivered,
            blocks <- [e \in 1 .. Delivered |-> <<events[e].record>>],
            ended <- pc \notin {"setup", "call", "execute"}

DeliversStream == Stream!StreamSpec

(* A source answers false when its last complete record has been           *)
(* delivered, not before and not later.  TTree is one event late; TP never *)
(* answers false for a tree without entries, DR never at all: they deliver *)
(* the record they have loaded last.                                       *)
EndsAfterLastRecord ==
  /\ pc = "ended" => Len(events) = IF kind = "TTree" THEN Records + 1 ELSE Records
  /\ Len(events) > Records => kind \in {"TTree", "DR"} \/ (kind = "TP" /\ Records = 0)
  /\ \A e \in Records + 1 .. Len(events) : events[e].record = Records

(* The category of an event has what its own record says and nothing of a  *)
(* record before: the fibres of the channels that are called, with the     *)
(* sides the source has, once all unpackers have been called.              *)
FiberIs(channel, f) == Lookup[channel] # None /\ Lookup[channel].fiber = f

SidesOf(f, r) ==
  CASE kind \in {"DD", "KS"} -> {Lookup[a].side : a \in {a \in Called : FiberIs(a, f)}}
    [] kind = "Petiroc" -> IF FiberIs(0, f) THEN Sides ELSE {}
    [] kind = "HLD" -> IF content[r].hits > 0 /\ FiberIs(0, f) THEN Sides ELSE {}
    [] kind = "TTree" -> IF FiberIs(content[r].channel, f) THEN Sides ELSE {}
    [] kind = "TP" ->
         IF FiberIs(content[r].channel, f) THEN {Lookup[content[r].channel].side} ELSE {}
    [] kind = "DR" ->
         {Side(s) : s \in {s \in content[r].lit : s % Fold = f /\ f \in content[r].located}}

RawIsOfItsRecord ==
  \A e \in DOMAIN events : \A f \in FiberNumbers :
    LET r == events[e].record
        other == IF kind = "TP" THEN Missing ELSE 0
    IN events[e].raw[f] =
         IF SidesOf(f, r) = {} THEN None
         ELSE [s \in Sides |-> IF s \in SidesOf(f, r) THEN r ELSE other]

(* The tracks of an event are in its category once, however many SiPMs and *)
(* unpackers follow, and those of an event without a usable SiPM are in no *)
(* category, also not in that of the event after it.                       *)
TracksComeOnce ==
  \A e \in DOMAIN events :
    LET r == events[e].record IN
    events[e].tracks =
      IF kind = "DR" /\ \E s \in content[r].lit : s % Fold \in content[r].located
        THEN <<r>> ELSE <<>>
=============================================================================

----------------------------- MODULE LineSource -----------------------------
(***************************************************************************)
(* SPMISource and SCBSource (lib/base/datasources): the sources that build *)
(* events from a text file with one hit per line, and the unpackers        *)
(* SFibersPMIUnpacker and SFibersCBUnpacker behind them.                   *)
(*                                                                         *)
(* Where an event ends is known only from the line that follows it, so     *)
(* that line is kept in hit_cache and begins the next event.  For the PMI  *)
(* setup a line belongs to the event when its time lies within a window    *)
(* around the time of the first hit; for the Citiroc board the lines of an *)
(* event follow a longer line with the time stamp.                         *)
(***************************************************************************)
EXTENDS Naturals, Integers, Sequences, FiniteSets

CONSTANTS
  Formats,   (* the kinds of file that are read: "PMI", "CB"               *)
  Fibers,    (* the fibres of the lookup table                             *)
  Times,     (* the times in the file: left and right side, in ns          *)
  Stamps,    (* the time stamps of the Citiroc board                       *)
  MaxLines,  (* bound: lines in the file after the header                  *)
  None       (* a fibre without an object; a cache without a hit           *)

DeltaT == 10     (* the window, in ns                                      *)
Missing == -100  (* the time of the side that is not in the line           *)
Sides == {"l", "r"}

ASSUME FormatsAssumption == Formats \subseteq {"PMI", "CB"}
ASSUME TimesAssumption == Times \subseteq Int \X Int
ASSUME StampsAssumption == Stamps \subseteq Int
ASSUME MaxLinesAssumption == MaxLines \in Nat
ASSUME NoneAssumption == None \notin [line : Nat, fiber : Fibers, l : Int, r : Int]

(* A line of the PMI file has the times of both sides; one of the Citiroc  *)
(* file is of one side, and has a time stamp when it begins an event.      *)
PMILines == {[fiber |-> f, l |-> t[1], r |-> t[2]] : f \in Fibers, t \in Times}
CBLines == [fiber : Fibers, side : Sides, begins : BOOLEAN, stamp : Stamps]
Lines(fmt) == IF fmt = "PMI" THEN PMILines ELSE CBLines

VARIABLES
  pc,
  format,
  file,       (* the lines after the header                                *)
  newline,    (* the last line ends with a newline                         *)
  next,       (* the lines taken from the stream                           *)
  state,      (* SPMISource::state, SCBSource::state                       *)
  hit_cache,  (* the hit that begins the next event                        *)
  hits,       (* the hits of this event                                    *)
  events      (* the events delivered: their hits and their raw category   *)

vars == <<pc, format, file, newline, next, state, hit_cache, hits, events>>

Init ==
  /\ pc = "call"
  /\ format \in Formats
  /\ file \in UNION {[1 .. n -> Lines(format)] : n \in 0 .. MaxLines}
  /\ newline \in BOOLEAN
  /\ next = 0
  /\ state = "INIT"
  /\ hit_cache = None
  /\ hits = <<>>
  /\ events = <<>>
-----------------------------------------------------------------------------
(* The time stamp of a hit of the Citiroc board.                           *)
Stamp(hit) ==
  CASE hit = None -> Missing
    [] hit # None /\ hit.l # Missing -> hit.l
    [] hit # None /\ hit.l = Missing -> hit.r

(* The hit in line n.  A line without a time stamp takes that of the hit   *)
(* the event began with.                                                   *)
MutantHitAt(n) ==   \* the time stamp of every line, read or not
  IF format = "PMI"
    THEN [line |-> n, fiber |-> file[n].fiber, l |-> file[n].l, r |-> file[n].r]
    ELSE [line |-> n, fiber |-> file[n].fiber,
          l |-> IF file[n].side = "l" THEN file[n].stamp ELSE Missing,
          r |-> IF file[n].side = "r" THEN file[n].stamp ELSE Missing]
HitAt(n) ==
  IF format = "PMI"
    THEN [line |-> n, fiber |-> file[n].fiber, l |-> file[n].l, r |-> file[n].r]
    ELSE LET t == IF file[n].begins THEN file[n].stamp ELSE Stamp(hit_cache)
         IN [line |-> n, fiber |-> file[n].fiber,
             l |-> IF file[n].side = "l" THEN t ELSE Missing,
             r |-> IF file[n].side = "r" THEN t ELSE Missing]

(* fabs(cache_time - current_time) < deltaT, with both means doubled.      *)
InWindow(a, b) ==
  LET d == (a.l + a.r) - (b.l + b.r) IN d < 2 * DeltaT /\ -d < 2 * DeltaT

MutantSameEvent(n) ==   \* compared with the hit before, not with the first
  IF format = "PMI" THEN InWindow(hits[Len(hits)], HitAt(n)) ELSE ~file[n].begins
SameEvent(n) == IF format = "PMI" THEN InWindow(hit_cache, HitAt(n)) ELSE ~file[n].begins

(* readCurrentEvent: the first call fills the cache, and without a line    *)
(* that can begin an event leaves the hit as it was made, with no fibre.   *)
CanBegin == file # <<>> /\ (format = "CB" => file[1].begins)
CallInit ==
  /\ pc = "call" /\ state = "INIT"
  /\ hit_cache' = IF CanBegin THEN HitAt(1) ELSE None
  /\ hits' = <<hit_cache'>>
  /\ next' = 1
  /\ state' = "READING"
  /\ pc' = "lines"
  /\ UNCHANGED <<format, file, newline, events>>

CallReading ==
  /\ pc = "call" /\ state = "READING"
  /\ hits' = <<hit_cache>>
  /\ pc' = "lines"
  /\ UNCHANGED <<format, file, newline, next, state, hit_cache, events>>

MutantCallDone ==   \* the state is not asked
  /\ pc = "call" /\ state = "DONE"
  /\ hits' = <<>>
  /\ UNCHANGED <<pc, format, file, newline, next, state, hit_cache, events>>
CallDone ==
  /\ pc = "call" /\ state = "DONE"
  /\ pc' = "ended"
  /\ UNCHANGED <<format, file, newline, next, state, hit_cache, hits, events>>

(* After a line is read the stream is good unless the line was not there   *)
(* or the file ended with it: a last line without a newline is dropped.    *)
MutantGood == next + 1 < Len(file)   \* the last line is dropped in any case
Good == next + 1 < Len(file) \/ (next + 1 = Len(file) /\ newline)

ReadSameEvent ==
  /\ pc = "lines" /\ Good
  /\ SameEvent(next + 1)
  /\ hits' = Append(hits, HitAt(next + 1))
  /\ next' = next + 1
  /\ UNCHANGED <<pc, format, file, newline, state, hit_cache, events>>

MutantReadNextEvent ==   \* the line is not kept
  /\ pc = "lines" /\ Good
  /\ ~SameEvent(next + 1)
  /\ next' = next + 1
  /\ pc' = "unpack"
  /\ UNCHANGED <<format, file, newline, state, hit_cache, hits, events>>
ReadNextEvent ==
  /\ pc = "lines" /\ Good
  /\ ~SameEvent(next + 1)
  /\ hit_cache' = HitAt(next + 1)
  /\ next' = next + 1
  /\ pc' = "unpack"
  /\ UNCHANGED <<format, file, newline, state, hits, events>>

ReadEnd ==
  /\ pc = "lines" /\ ~Good
  /\ next' = next + 1
  /\ state' = "DONE"
  /\ pc' = "unpack"
  /\ UNCHANGED <<format, file, newline, hit_cache, hits, events>>

(* The PMI times are counted from the earlier side of the first hit.       *)
TimeFirst == IF hits[1].l < hits[1].r THEN hits[1].l ELSE hits[1].r
Shifted(hit) ==
  IF format = "PMI" THEN [hit EXCEPT !.l = @ - TimeFirst, !.r = @ - TimeFirst] ELSE hit

(* The unpacker writes both sides of the fibre of every hit: of several    *)
(* hits of a fibre the last one stays.                                     *)
HitsOf(f) == {k \in DOMAIN hits : hits[k].fiber = f}
Raw ==
  [f \in Fibers |->
     IF HitsOf(f) = {} THEN None
     ELSE LET hit == Shifted(hits[CHOOSE k \in HitsOf(f) : \A j \in HitsOf(f) : j <= k])
          IN [l |-> hit.l, r |-> hit.r]]

Unpack ==
  /\ pc = "unpack" /\ hits[1] # None
  /\ events' = Append(events, [hits |-> [k \in DOMAIN hits |-> Shifted(hits[k])], raw |-> Raw])
  /\ pc' = "call"
  /\ UNCHANGED <<format, file, newline, next, state, hit_cache, hits>>

(* The lookup table has no channel for the hit without a fibre: exit, or   *)
(* the assertion in SLookupBoard::getChannel.                              *)
UnpackFails ==
  /\ pc = "unpack" /\ hits[1] = None
  /\ pc' = "failed"
  /\ UNCHANGED <<format, file, newline, next, state, hit_cache, hits, events>>

Next ==
  \/ CallInit \/ CallReading \/ CallDone
  \/ ReadSameEvent \/ ReadNextEvent \/ ReadEnd
  \/ Unpack \/ UnpackFails

Spec == Init /\ [][Next]_vars
-----------------------------------------------------------------------------
Hits == [line : 1 .. MaxLines, fiber : Fibers, l : Int, r : Int]
Raws == [Fibers -> [l : Int, r : Int] \cup {None}]

(* The values of the variables; events are made of hits that were read.    *)
TypeOK ==
  /\ pc \in {"call", "lines", "unpack", "ended", "failed"}
  /\ format \in Formats
  /\ file \in Seq(Lines(format)) /\ Len(file) <= MaxLines
  /\ newline \in BOOLEAN
  /\ next \in 0 .. MaxLines + 2
  /\ state \in {"INIT", "READING", "DONE"}
  /\ hit_cache \in Hits \cup {None}
  /\ hits \in Seq(Hits \cup {None})
  /\ events \in Seq([hits : Seq(Hits), raw : Raws])

(* The events are consecutive blocks of lines, whatever the look-ahead:    *)
(* the line kept in the cache is delivered once, with the next event.      *)
LastLine(hs) == hs[Len(hs)].line
Delivered == IF events = <<>> THEN 0 ELSE LastLine(events[Len(events)].hits)

Stream == INSTANCE RecordStream WITH
            records <- Len(file),
            delivered <- Delivered,
            blocks <- [e \in 1 .. Len(events) |->
                         [k \in 1 .. Len(events[e].hits) |-> events[e].hits[k].line]],
            ended <- pc \in {"ended", "failed"}

DeliversStream == Stream!StreamSpec

(* When the source has ended all lines have been delivered, but for a last *)
(* line without a newline that was not the only one.                       *)
NothingLeft ==
  pc = "ended" =>
    Delivered = IF newline \/ Len(file) = 1 THEN Len(file) ELSE Len(file) - 1

(* An event ends where it should: the hits of a PMI event are within the   *)
(* window around its first hit, the event that follows begins outside of   *)
(* that window; a Citiroc event has one line with a time stamp, the first. *)
EventsAreSplit ==
  \A e \in DOMAIN events :
    LET hs == events[e].hits
        first == hs[1].line
        last == LastLine(hs)
    IN IF format = "PMI"
         THEN /\ \A n \in first .. last : InWindow(file[first], file[n])
              /\ e < Len(events) => ~InWindow(file[first], file[last + 1])
         ELSE \A n \in first .. last : file[n].begins <=> n = first

(* Every hit of a Citiroc event has the time stamp of its first line.      *)
StampsAreShared ==
  format = "CB" =>
    \A e \in DOMAIN events : \A k \in DOMAIN events[e].hits :
      Stamp(events[e].hits[k]) = file[events[e].hits[1].line].stamp

(* "if times are small, then sipm hit for given side was not recorded"     *)
(* (SFibersHitFinder.cc:135): a fibre whose two sides are in the file is   *)
(* not taken for one that was not recorded.                                *)
GivesHit(o) == o.l # 0 /\ o.r # 0
RecordedFibreGivesHit ==
  \A e \in DOMAIN events : \A f \in Fibers :
    LET o == events[e].raw[f] IN
    o # None /\ (\A side \in Sides : o[side] # Missing) => GivesHit(o)
=============================================================================

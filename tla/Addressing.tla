------------------------------ MODULE Addressing ------------------------------
(***************************************************************************)
(* From the numbers in the data to the fibre, its calibration and its      *)
(* place, through the three tables of text that a user writes:             *)
(*   SLookupTable   the fibre and side of a channel of a board;            *)
(*   SCalContainer  the calibration of a fibre (SFibersHitFinder) or of a  *)
(*                  side of it (SFibersDDUnpacker);                        *)
(*   SFibersGeomPar the layers of the modules, one list for all of them.   *)
(* A simulated hit has the number of its fibre in the module instead of a  *)
(* channel (SFibersDigitizer, a task no detector adds at present).  Lookup *)
(* table and calibrations can be written, and read by another program.     *)
(*                                                                         *)
(* Fibres have numbers in two digits; sscanf reads no more.  Modules and   *)
(* layers are below 100 here, and are counted from 1.                      *)
(***************************************************************************)
EXTENDS Integers, Sequences, SequencesExt, FiniteSets, Functions

CONSTANTS
  Setups,    (* bound: [kind, geometry, lookup, cal]: whose calibrations   *)
             (* they are, "DD" or "HitFinder", or "simulation";            *)
             (* geometry[m][l], the fibres of layer l of module m; the     *)
             (* lines of the two other tables                              *)
  AddrMin, AddrMax, Channels,   (* what the lookup table was made for      *)
  Default,   (* the hit finder's calibration for a fibre without one       *)
  Rounded,   (* Rounded[v]: the value v with the digits that are written   *)
  MaxHits,   (* bound: hits of a program                                   *)
  None

VARIABLES
  setup,
  step,      (* what the program does, or how it ended                     *)
  round,     (* 1: the tables of the user, 2: those that were written      *)
  text,      (* the lines of the lookup table still to be read             *)
  caltext,   (* the lines of the calibrations still to be read             *)
  mods,      (* SFibersGeomPar: for each layer its place in the lists      *)
  limits,    (* SFibersDigitizer::layer_fiber_limit                        *)
  boards,    (* SLookupTable::boards: the fibre and side of each channel   *)
  calpars,   (* SCalContainer::calpars                                     *)
  asked,     (* the hit that is asked for                                  *)
  used       (* what was found for the hits                                *)

Addrs == AddrMin .. AddrMax
Chans == 0 .. Channels - 1
NoBoards == [channel \in Addrs \X Chans |-> None]
NoPars == [k \in {} |-> None]
Modules == DOMAIN setup.geometry

Init ==
  /\ setup \in Setups
  /\ step = "geometry"
  /\ round = 1
  /\ text = setup.lookup /\ caltext = setup.cal
  /\ mods = <<>> /\ limits = <<>>
  /\ boards = NoBoards
  /\ calpars = NoPars
  /\ asked = None
  /\ used = {}
-----------------------------------------------------------------------------
(* The lists of the layers are one after the other for all modules.        *)
Lists == FlattenSeq(setup.geometry)
LayersBefore(m) == Len(FlattenSeq(SubSeq(setup.geometry, 1, m - 1)))

(* getParams finds layer l of module m (counted from 0 in the code) at     *)
(* cnt_layers * m + l; an index behind the list is taken for 0, by TArray. *)
LayerIndex(m, l) ==
  LET k == LayersBefore(m) * (m - 1) + (l - 1)
  IN IF k < Len(Lists) THEN k + 1 ELSE 1

GetParams ==
  /\ step = "geometry" /\ step' = "digitizer"
  /\ mods' = [m \in Modules |-> [l \in DOMAIN setup.geometry[m] |-> LayerIndex(m, l)]]
  /\ UNCHANGED <<setup, round, text, caltext, limits, boards, calpars, asked, used>>

(* UpTo(layers)[n]: the fibres of the first n layers.                      *)
UpTo(layers) ==
  LET sum[n \in 0 .. Len(layers)] == IF n = 0 THEN 0 ELSE sum[n - 1] + layers[n]
  IN sum

(* SFibersDigitizer::init: the fibres up to the end of each layer.         *)
InitDigitizer ==
  /\ step = "digitizer" /\ step' = "tables"
  /\ limits' = [m \in Modules |-> [l \in DOMAIN mods[m] |->
                 UpTo([k \in DOMAIN mods[m] |-> Lists[mods[m][k]]])[l]]]
  /\ UNCHANGED <<setup, round, text, caltext, mods, boards, calpars, asked, used>>
-----------------------------------------------------------------------------
Reading(lines) == step = "tables" /\ lines # <<>>
ReadingCal == text = <<>> /\ Reading(caltext)

(* A line of the lookup table: the last one for a channel stays; a board   *)
(* out of range is skipped.                                                *)
ReadLookup ==
  /\ Reading(text)
  /\ LET line == Head(text) IN
     /\ line.addr \in Addrs => line.chan \in Chans /\ line.fibre.s < 100
     /\ boards' = IF line.addr \in Addrs
                    THEN [boards EXCEPT ![<<line.addr, line.chan>>] =
                            [fibre |-> line.fibre, side |-> line.side]]
                    ELSE boards
  /\ text' = Tail(text)
  /\ UNCHANGED <<setup, step, round, caltext, mods, limits, calpars, asked, used>>

(* The assertions: the channel is one of the board, sscanf found all four. *)
ReadLookupAborts ==
  /\ Reading(text)
  /\ LET line == Head(text) IN line.addr \in Addrs /\ (line.chan \notin Chans \/ line.fibre.s >= 100)
  /\ step' = "aborted"
  /\ UNCHANGED <<setup, round, text, caltext, mods, limits, boards, calpars, asked, used>>

(* quickHash of a channel: with its side, or without.                      *)
Key(fibre, side) ==
  IF setup.kind = "DD" THEN <<fibre.m, fibre.l, fibre.s, side>> ELSE <<fibre.m, fibre.l, fibre.s>>

(* A line of the calibrations: the first one for a fibre stays.  Of a      *)
(* third digit of a fibre the hit finder's becomes the first value; with a *)
(* side behind it, sscanf stops.                                           *)
MutantReadCal ==   \* the last line for a fibre stays
  /\ ReadingCal
  /\ LET line == Head(caltext)
         key == Key(line.fibre, line.side)
     IN /\ line.fibre.s < 100
        /\ calpars' = [k \in DOMAIN calpars \cup {key} |->
                         IF k = key THEN line.value ELSE calpars[k]]
  /\ caltext' = Tail(caltext)
  /\ UNCHANGED <<setup, step, round, text, mods, limits, boards, asked, used>>
ReadCal ==
  /\ ReadingCal
  /\ LET line == Head(caltext)
         wide == line.fibre.s >= 100
         key == Key(IF wide THEN [line.fibre EXCEPT !.s = @ \div 10] ELSE line.fibre, line.side)
         value == IF wide THEN line.fibre.s % 10 ELSE line.value
     IN /\ wide => setup.kind # "DD"
        /\ calpars' = [k \in DOMAIN calpars \cup {key} |->
                         IF k \in DOMAIN calpars THEN calpars[k] ELSE value]
  /\ caltext' = Tail(caltext)
  /\ UNCHANGED <<setup, step, round, text, mods, limits, boards, asked, used>>

ReadCalAborts ==
  /\ ReadingCal /\ setup.kind = "DD" /\ Head(caltext).fibre.s >= 100
  /\ step' = "aborted"
  /\ UNCHANGED <<setup, round, text, caltext, mods, limits, boards, calpars, asked, used>>

TablesRead ==
  /\ step = "tables" /\ text = <<>> /\ caltext = <<>>
  /\ step' = "hits"
  /\ UNCHANGED <<setup, round, text, caltext, mods, limits, boards, calpars, asked, used>>
-----------------------------------------------------------------------------
(* A hit is [addr, chan] or, simulated, [m, number].                       *)
Ask(h) ==
  /\ step = "hits" /\ (setup.kind = "simulation" <=> "m" \in DOMAIN h)
  /\ Cardinality({u \in used : u.round = round}) < MaxHits
  /\ asked' = h
  /\ UNCHANGED <<setup, round, text, caltext, mods, limits, boards>>

Found(h, fibre, side, value, layer) ==
  used' = used \cup {[hit |-> h, round |-> round, fibre |-> fibre, side |-> side,
                      value |-> value, layer |-> layer]}

(* getFiberOffsetX and the like, for the place of a hit.                   *)
Layer(m, l) == IF m \in Modules /\ l \in DOMAIN mods[m] THEN mods[m][l] ELSE None

(* SLookupTable::getAddress, without which the unpacker ends the program.  *)
GetAddress(h) == IF h.addr \in Addrs THEN boards[h.addr, h.chan] ELSE None

UnpackExits(h) ==
  /\ Ask(h) /\ GetAddress(h) = None
  /\ step' = "exited"
  /\ UNCHANGED <<calpars, used>>

(* getPar: a fibre without a calibration gets the default, which stays in  *)
(* the map.                                                                *)
GetPar(h) ==
  /\ Ask(h) /\ GetAddress(h) # None
  /\ LET lc == GetAddress(h)
         key == Key(lc.fibre, lc.side)
     IN /\ setup.kind = "DD" => key \in DOMAIN calpars
        /\ calpars' = IF key \in DOMAIN calpars THEN calpars
                      ELSE [k \in DOMAIN calpars \cup {key} |->
                              IF k = key THEN Default ELSE calpars[k]]
        /\ Found(h, lc.fibre, lc.side, calpars'[key], Layer(lc.fibre.m, lc.fibre.l))
  /\ UNCHANGED step

(* The unpacker of the samples has no default and uses the null pointer.   *)
GetParCrashes(h) ==
  /\ Ask(h) /\ GetAddress(h) # None
  /\ setup.kind = "DD" /\ Key(GetAddress(h).fibre, GetAddress(h).side) \notin DOMAIN calpars
  /\ step' = "crashed"
  /\ UNCHANGED <<calpars, used>>

(* SFibersDigitizer::execute: the first layer whose limit is above the     *)
(* number; a number above all limits is taken for fibre 0 of layer 0.      *)
Digitize(h) ==
  /\ Ask(h)
  /\ LET below == {l \in DOMAIN limits[h.m] : h.number < limits[h.m][l]}
         lay == CHOOSE l \in below : \A k \in below : l <= k
         fibre == IF below = {} THEN [m |-> h.m, l |-> 1, s |-> 0]
                  ELSE [m |-> h.m, l |-> lay,
                        s |-> h.number - (IF lay > 1 THEN limits[h.m][lay - 1] ELSE 0)]
     IN Found(h, fibre, "both", None, Layer(fibre.m, fibre.l))
  /\ UNCHANGED <<step, calpars>>
-----------------------------------------------------------------------------
(* toContainer of the lookup table: the loop over the boards ends before   *)
(* the last one.                                                           *)
WrittenLookup ==
  LET Line(a, c) ==
        IF boards[a, c] = None THEN <<>>
        ELSE <<[addr |-> a, chan |-> c, fibre |-> boards[a, c].fibre, side |-> boards[a, c].side]>>
      Board(a) == FlattenSeq([c \in 1 .. Channels |-> Line(a, c - 1)])
  IN FlattenSeq([i \in 1 .. AddrMax - AddrMin |-> Board(AddrMin + i - 1)])

(* That of the calibrations, fromHash giving back the fibre of a key.      *)
WrittenCal ==
  LET keys == SetToSeq(DOMAIN calpars)
  IN [i \in DOMAIN keys |->
        [fibre |-> [m |-> keys[i][1], l |-> keys[i][2], s |-> keys[i][3]],
         side |-> IF setup.kind = "DD" THEN keys[i][4] ELSE "both",
         value |-> Rounded[calpars[keys[i]]]]]

(* Both are written, and another program begins to read them.              *)
WriteTables ==
  /\ step = "hits" /\ round = 1
  /\ text' = WrittenLookup /\ caltext' = WrittenCal
  /\ boards' = NoBoards /\ calpars' = NoPars
  /\ round' = 2 /\ step' = "tables" /\ asked' = None
  /\ UNCHANGED <<setup, mods, limits, used>>

RealHits == [addr : AddrMin - 1 .. AddrMax + 1, chan : Chans]
FibresOf(m) == UpTo(setup.geometry[m])[Len(setup.geometry[m])]
SimulatedHits == UNION {[m : {m}, number : 0 .. FibresOf(m)] : m \in Modules}

Next ==
  \/ GetParams \/ InitDigitizer
  \/ ReadLookup \/ ReadLookupAborts \/ ReadCal \/ ReadCalAborts \/ TablesRead
  \/ \E h \in RealHits : UnpackExits(h) \/ GetPar(h) \/ GetParCrashes(h)
  \/ \E h \in SimulatedHits : Digitize(h)
  \/ WriteTables
-----------------------------------------------------------------------------
(* What the tables say, read by eye: the last line for a channel, the      *)
(* first for a fibre, layers and fibres counted through the modules.       *)
LinesFor(h) == {i \in DOMAIN setup.lookup : setup.lookup[i].addr = h.addr /\ setup.lookup[i].chan = h.chan}
LastLine(h) == setup.lookup[CHOOSE i \in LinesFor(h) : \A j \in LinesFor(h) : j <= i]

CalsFor(fibre, side) ==
  {i \in DOMAIN setup.cal : setup.cal[i].fibre = fibre /\ (setup.kind = "DD" => setup.cal[i].side = side)}
FirstCal(fibre, side) ==
  LET lines == CalsFor(fibre, side)
  IN IF lines = {} THEN Default ELSE setup.cal[CHOOSE i \in lines : \A j \in lines : i <= j].value

TwoDigits ==
  /\ \A i \in DOMAIN setup.lookup : setup.lookup[i].fibre.s < 100
  /\ \A i \in DOMAIN setup.cal : setup.cal[i].fibre.s < 100

IsNumber(fibre, m, number) ==
  /\ fibre.m = m /\ fibre.l \in DOMAIN setup.geometry[m]
  /\ fibre.s < setup.geometry[m][fibre.l]
  /\ number = UpTo(setup.geometry[m])[fibre.l - 1] + fibre.s

(* Every hit finds its own fibre, the calibration of that fibre and the    *)
(* layer it lies in: by the lookup table, by the number in a module, in a  *)
(* program with the tables of the user, and, but for the digits that are   *)
(* not written, in one with tables that were written after any hits.       *)
(* Nothing is asked of the layers from the third module on.  A program     *)
(* ends with a hit only if the tables of the user have no line for it, and *)
(* in reading them only for a number that does not fit; the last board is  *)
(* left to WrittenBoardsAreRead.                                           *)
HitsFindTheirFibre ==
  /\ \A u \in used : "addr" \in DOMAIN u.hit /\ TwoDigits =>
       /\ LinesFor(u.hit) # {}
       /\ u.fibre = LastLine(u.hit).fibre /\ u.side = LastLine(u.hit).side
       /\ u.value = IF u.round = 1 THEN FirstCal(u.fibre, u.side) ELSE Rounded[FirstCal(u.fibre, u.side)]
  /\ \A u \in used : u.fibre.m <= 2 /\ u.layer # None => u.layer = LayersBefore(u.fibre.m) + u.fibre.l
  /\ \A u \in used : "m" \in DOMAIN u.hit /\ u.hit.m <= 2 =>
       \/ IsNumber(u.fibre, u.hit.m, u.hit.number)
       \/ u.hit.number = FibresOf(u.hit.m) /\ u.fibre.l = 1 /\ u.fibre.s = 0
  /\ step = "exited" =>
       asked.addr \notin Addrs \/ LinesFor(asked) = {} \/ (round = 2 /\ asked.addr = AddrMax)
  /\ step = "crashed" /\ TwoDigits =>
       LinesFor(asked) # {} /\ CalsFor(LastLine(asked).fibre, LastLine(asked).side) = {}
  /\ step = "aborted" => ~TwoDigits \/ \E i \in DOMAIN setup.lookup : setup.lookup[i].chan \notin Chans

(* SLookupTable is made for boards from addr_min to addr_max, both of them *)
(* included, and toContainer exports the table: a program that reads what  *)
(* was written finds every channel the user's table has.  The loop over    *)
(* the boards ends before addr_max.                                        *)
WrittenBoardsAreRead ==
  step = "exited" /\ round = 2 => asked.addr \notin Addrs \/ LinesFor(asked) = {}
=============================================================================

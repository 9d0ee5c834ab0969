--------------------------- MODULE SourcesProofs ---------------------------
(***************************************************************************)
(* For all sources, files of every length, any unpackers and any number of *)
(* events asked for.  Lines (parts 1 to 6): the events are consecutive     *)
(* blocks with the right ends, every hit has the time stamp of its event,  *)
(* and the source implements RecordStream.  A record per event (parts 7 to *)
(* 15): where each source ends, that it implements RecordStream, and that  *)
(* the category of an event has what all calls of execute for its record   *)
(* say, with its tracks once.  Part 16: so the source of a program, which  *)
(* is one of them.                                                         *)
(***************************************************************************)
EXTENDS Sources, SequencesExt, SequenceTheorems, FunctionTheorems, FiniteSetTheorems,
        WellFoundedInduction, TLAPS

-----------------------------------------------------------------------------
(* Part 1: what is kept of a hit and of an event, as a function of the     *)
(* format and the lines of the file.                                       *)

(* Hit h is that of line n in the event that line b begins.                *)
Belongs(fmt, fl, h, n, b) ==
  /\ h \in Hits /\ h.line = n
  /\ IF fmt = "PMI" THEN InWindow(fl[b], fl[n])
     ELSE Stamp(h) = fl[b].stamp /\ (fl[n].begins <=> n = b)

(* The hits are those of the lines from b on.                              *)
IsBlock(fmt, fl, hs, b) ==
  /\ hs \in Seq(Hits) /\ hs # <<>>
  /\ b \in Nat \ {0} /\ b + Len(hs) - 1 <= Len(fl)
  /\ \A k \in 1 .. Len(hs) : Belongs(fmt, fl, hs[k], b + k - 1, b)

(* The hit that begins the next event, with the times of its line.         *)
Begins(fmt, fl, h, n) ==
  /\ n \in 1 .. Len(fl)
  /\ Belongs(fmt, fl, h, n, n)
  /\ fmt = "PMI" => h.l = fl[n].l /\ h.r = fl[n].r

(* Line n is no part of the event of hits hs.                              *)
Parted(fmt, fl, hs, n) == fmt = "PMI" => ~InWindow(fl[hs[1].line], fl[n])

IsFile(fmt, fl) == fmt \in Formats /\ fl \in Seq(Lines(fmt)) /\ Len(fl) <= MaxLines

LEMMA LineFields ==
  ASSUME NEW fmt, NEW fl, IsFile(fmt, fl), NEW n \in 1 .. Len(fl)
  PROVE  /\ fl[n].fiber \in Fibers
         /\ fmt = "PMI" => fl[n].l \in Int /\ fl[n].r \in Int
         /\ fmt # "PMI" => /\ fl[n].stamp \in Int /\ fl[n].side \in Sides
                           /\ fl[n].begins \in BOOLEAN
<1>1. fl[n] \in Lines(fmt)
  BY ElementOfSeq DEF IsFile
<1>2. CASE fmt = "PMI"
  <2>1. PICK f \in Fibers, t \in Times : fl[n] = [fiber |-> f, l |-> t[1], r |-> t[2]]
    BY <1>1, <1>2 DEF Lines, PMILines
  <2>2. t[1] \in Int /\ t[2] \in Int
    BY <2>1, TimesAssumption
  <2> QED BY <1>2, <2>1, <2>2
<1>3. CASE fmt # "PMI"
  BY <1>1, <1>3, StampsAssumption DEF Lines, CBLines
<1> QED BY <1>2, <1>3

LEMMA NoneIsNoHit == None \notin Hits
BY NoneAssumption DEF Hits

LEMMA StampInt == \A h \in Hits \cup {None} : Stamp(h) \in Int
<1>1. Stamp(None) = Missing
  BY DEF Stamp
<1>2. ASSUME NEW h \in Hits PROVE Stamp(h) \in Int
  BY NoneIsNoHit DEF Stamp, Hits
<1> QED BY <1>1, <1>2 DEF Missing

(* The hit of a line, with the time stamp that counts for it.              *)
LEMMA HitOfLine ==
  ASSUME IsFile(format, file), hit_cache \in Hits \cup {None}, NEW n \in 1 .. Len(file)
  PROVE  /\ HitAt(n) \in Hits /\ HitAt(n).line = n
         /\ format = "PMI" => HitAt(n).l = file[n].l /\ HitAt(n).r = file[n].r
         /\ format # "PMI" =>
              Stamp(HitAt(n)) = IF file[n].begins THEN file[n].stamp ELSE Stamp(hit_cache)
<1>1. n \in 1 .. MaxLines
  BY MaxLinesAssumption DEF IsFile
<1>2. CASE format = "PMI"
  BY <1>1, <1>2, LineFields DEF HitAt, Hits
<1>3. CASE format # "PMI"
  <2> DEFINE t == IF file[n].begins THEN file[n].stamp ELSE Stamp(hit_cache)
  <2>1. t \in Int
    BY <1>3, LineFields, StampInt
  <2>2. HitAt(n) = [line |-> n, fiber |-> file[n].fiber,
                    l |-> IF file[n].side = "l" THEN t ELSE Missing,
                    r |-> IF file[n].side = "r" THEN t ELSE Missing]
    BY <1>3 DEF HitAt
  <2> HIDE DEF t
  <2>3. HitAt(n) \in Hits
    BY <1>1, <2>1, <2>2, LineFields DEF Hits, Missing
  <2>4. file[n].side = "l" \/ file[n].side = "r"
    BY <1>3, LineFields DEF Sides
  <2>5. Stamp(HitAt(n)) = t
    BY <2>2, <2>3, <2>4, NoneIsNoHit DEF Stamp
  <2> QED BY <1>3, <2>2, <2>3, <2>5 DEF t
<1> QED BY <1>2, <1>3

LEMMA WindowOfItself ==
  ASSUME NEW fl, IsFile("PMI", fl), NEW n \in 1 .. Len(fl)
  PROVE  InWindow(fl[n], fl[n])
BY LineFields DEF InWindow, DeltaT

(* The event grows by the hit of the next line.                            *)
LEMMA BlockGrows ==
  ASSUME NEW fmt, NEW fl, NEW hs, NEW b, IsBlock(fmt, fl, hs, b), IsFile(fmt, fl),
         NEW h, Belongs(fmt, fl, h, b + Len(hs), b), b + Len(hs) <= Len(fl)
  PROVE  IsBlock(fmt, fl, Append(hs, h), b)
<1>1. h \in Hits /\ hs \in Seq(Hits) /\ Len(hs) \in Nat /\ b \in Nat \ {0} /\ Len(fl) \in Nat
  BY DEF IsBlock, Belongs, IsFile
<1>2. Append(hs, h) \in Seq(Hits) /\ Append(hs, h) # <<>> /\ Len(Append(hs, h)) = Len(hs) + 1
  BY <1>1
<1>3. b + (Len(hs) + 1) - 1 <= Len(fl)
  BY <1>1
<1>4. ASSUME NEW k \in 1 .. Len(hs) + 1 PROVE Belongs(fmt, fl, Append(hs, h)[k], b + k - 1, b)
  <2>1. CASE k = Len(hs) + 1
    <3>1. Append(hs, h)[k] = h /\ b + k - 1 = b + Len(hs)
      BY <1>1, <2>1
    <3> QED BY <3>1
  <2>2. CASE k \in 1 .. Len(hs)
    <3>1. Append(hs, h)[k] = hs[k]
      BY <1>1, <2>2
    <3> QED BY <2>2, <3>1 DEF IsBlock
  <2> QED BY <1>1, <2>1, <2>2
<1> QED BY <1>1, <1>2, <1>3, <1>4 DEF IsBlock

(* The first hit of an event alone.                                        *)
LEMMA BlockBegins ==
  ASSUME NEW fmt, NEW fl, NEW h, NEW n, Begins(fmt, fl, h, n), IsFile(fmt, fl)
  PROVE  IsBlock(fmt, fl, <<h>>, n)
<1>1. h \in Hits /\ n \in Nat \ {0} /\ n <= Len(fl) /\ Len(fl) \in Nat
  BY DEF Begins, Belongs, IsFile
<1>2. <<h>> \in Seq(Hits) /\ <<h>> # <<>> /\ Len(<<h>>) = 1 /\ <<h>>[1] = h
  BY <1>1
<1>3. n + 1 - 1 = n
  BY <1>1
<1> QED BY <1>1, <1>2, <1>3 DEF IsBlock, Begins

(* The hits of an event belong to it also after its times are shifted.     *)
LEMMA BlockShifted ==
  ASSUME IsFile(format, file), NEW b, IsBlock(format, file, hits, b)
  PROVE  IsBlock(format, file, [k \in DOMAIN hits |-> Shifted(hits[k])], b)
<1> DEFINE hs == [k \in DOMAIN hits |-> Shifted(hits[k])]
<1>1. hits \in Seq(Hits) /\ hits # <<>> /\ Len(hits) \in Nat /\ DOMAIN hits = 1 .. Len(hits)
  BY DEF IsBlock
<1>2. TimeFirst \in Int
  <2>1. hits[1] \in Hits
    BY <1>1
  <2> QED BY <2>1 DEF TimeFirst, Hits
<1>3. ASSUME NEW h \in Hits
      PROVE  /\ Shifted(h) \in Hits /\ Shifted(h).line = h.line
             /\ format # "PMI" => Shifted(h) = h
  <2>1. CASE format # "PMI"
    BY <2>1 DEF Shifted
  <2>2. CASE format = "PMI"
    <3> DEFINE d == TimeFirst
    <3>1. d \in Int /\ Shifted(h) = [h EXCEPT !.l = h.l - d, !.r = h.r - d]
      BY <1>2, <2>2 DEF Shifted
    <3> HIDE DEF d
    <3>2. PICK x \in Int, y \in Int : Shifted(h) = [h EXCEPT !.l = x, !.r = y]
      <4>1. h.l - d \in Int /\ h.r - d \in Int
        BY <3>1 DEF Hits
      <4> QED BY <3>1, <4>1
    <3>3. /\ [h EXCEPT !.l = x, !.r = y] \in Hits
          /\ [h EXCEPT !.l = x, !.r = y].line = h.line
      BY <3>2 DEF Hits
    <3> QED BY <2>2, <3>2, <3>3
  <2> QED BY <2>1, <2>2
<1>4. ASSUME NEW k \in 1 .. Len(hits)
      PROVE  Shifted(hits[k]) \in Hits /\ Belongs(format, file, Shifted(hits[k]), b + k - 1, b)
  <2>1. hits[k] \in Hits /\ Belongs(format, file, hits[k], b + k - 1, b)
    BY <1>1, <1>4 DEF IsBlock
  <2> QED BY <1>3, <2>1 DEF Belongs
<1>5. hs \in Seq(Hits) /\ Len(hs) = Len(hits)
  BY <1>1, <1>4
<1>6. hs # <<>>
  BY <1>1, <1>5
<1>7. \A k \in 1 .. Len(hs) : hs[k] = Shifted(hits[k])
  BY <1>1, <1>5
<1> HIDE DEF hs
<1>8. IsBlock(format, file, hs, b)
  BY <1>4, <1>5, <1>6, <1>7 DEF IsBlock
<1> QED BY <1>8 DEF hs
-----------------------------------------------------------------------------
(* Part 2: the raw category.  The last hit of a fibre is a hit.            *)
LEMMA LastOfFibre ==
  ASSUME hits \in Seq(Hits), NEW f \in Fibers, HitsOf(f) # {}
  PROVE  (CHOOSE k \in HitsOf(f) : \A j \in HitsOf(f) : j <= k) \in DOMAIN hits
<1>1. DOMAIN hits = 1 .. Len(hits) /\ Len(hits) \in Nat /\ HitsOf(f) \subseteq 1 .. Len(hits)
  BY DEF HitsOf
<1> DEFINE S == {Len(hits) - k : k \in HitsOf(f)}
<1>2. S \subseteq Nat /\ S # {}
  BY <1>1
<1>3. IsWellFoundedOn(OpToRel(<, Nat), Nat)
  BY NatLessThanWellFounded
<1>4. PICK s \in S : \A t \in S : <<t, s>> \notin OpToRel(<, Nat)
  <2> HIDE DEF S
  <2> QED BY <1>2, <1>3, WFMin
<1>5. PICK k \in HitsOf(f) : s = Len(hits) - k
  BY <1>4
<1>6. ASSUME NEW j \in HitsOf(f) PROVE j <= k
  <2>1. Len(hits) - j \in S /\ Len(hits) - j \in Nat /\ s \in Nat
    BY <1>2, <1>4
  <2>2. ~(Len(hits) - j < s)
    BY <1>4, <2>1 DEF OpToRel
  <2> QED BY <1>1, <1>5, <2>2
<1> HIDE DEF S
<1>7. (CHOOSE m \in HitsOf(f) : \A j \in HitsOf(f) : j <= m) \in HitsOf(f)
  BY <1>5, <1>6
<1> QED BY <1>1, <1>7

LEMMA RawOfHits ==
  ASSUME hits \in Seq(Hits), hits # <<>>
  PROVE  Raw \in Raws
<1>1. TimeFirst \in Int
  <2>1. hits[1] \in Hits
    OBVIOUS
  <2> QED BY <2>1 DEF TimeFirst, Hits
<1>2. ASSUME NEW h \in Hits PROVE Shifted(h).l \in Int /\ Shifted(h).r \in Int
  <2>1. h.l \in Int /\ h.r \in Int
    BY DEF Hits
  <2>2. h.l - TimeFirst \in Int /\ h.r - TimeFirst \in Int
    BY <1>1, <2>1
  <2> QED BY <2>1, <2>2 DEF Shifted, Hits
<1>3. ASSUME NEW f \in Fibers PROVE Raw[f] \in [l : Int, r : Int] \cup {None}
  <2>1. CASE HitsOf(f) = {}
    BY <2>1 DEF Raw
  <2>2. CASE HitsOf(f) # {}
    <3> DEFINE k == CHOOSE m \in HitsOf(f) : \A j \in HitsOf(f) : j <= m
    <3>1. k \in DOMAIN hits
      BY <2>2, LastOfFibre
    <3>2. Raw[f] = [l |-> Shifted(hits[k]).l, r |-> Shifted(hits[k]).r]
      BY <2>2 DEF Raw
    <3> HIDE DEF k
    <3>3. hits[k] \in Hits
      BY <3>1
    <3> QED BY <1>2, <3>2, <3>3
  <2> QED BY <2>1, <2>2
<1>4. Raw = [f \in Fibers |-> Raw[f]]
  BY DEF Raw
<1> QED BY <1>3, <1>4 DEF Raws
-----------------------------------------------------------------------------
(* Part 3: the events.  Each is the block after the one before it, and the *)
(* line after it is no part of it.                                         *)
Before(ev, e) == IF e = 1 THEN 0 ELSE LastLine(ev[e - 1].hits)

AreEvents(fmt, fl, ev) ==
  /\ ev \in Seq([hits : Seq(Hits), raw : Raws])
  /\ \A e \in 1 .. Len(ev) : IsBlock(fmt, fl, ev[e].hits, Before(ev, e) + 1)
  /\ \A e \in 1 .. Len(ev) - 1 : Parted(fmt, fl, ev[e].hits, LastLine(ev[e].hits) + 1)

NextParted(fmt, fl, ev, n) == ev # <<>> => Parted(fmt, fl, ev[Len(ev)].hits, n)

LEMMA LastOfBlock ==
  ASSUME NEW fmt, NEW fl, NEW hs, NEW b, IsBlock(fmt, fl, hs, b), IsFile(fmt, fl)
  PROVE  /\ LastLine(hs) = b + Len(hs) - 1 /\ hs[1].line = b
         /\ LastLine(hs) \in 1 .. Len(fl)
<1>1. hs \in Seq(Hits) /\ Len(hs) \in Nat /\ Len(hs) # 0 /\ b \in Nat \ {0} /\ Len(fl) \in Nat
  BY DEF IsBlock, IsFile
<1>2. 1 \in 1 .. Len(hs) /\ Len(hs) \in 1 .. Len(hs)
  BY <1>1
<1>3. hs[1].line = b + 1 - 1 /\ hs[Len(hs)].line = b + Len(hs) - 1
  BY <1>2 DEF IsBlock, Belongs
<1> QED BY <1>1, <1>3 DEF LastLine, IsBlock

LEMMA EventsGrow ==
  ASSUME NEW fmt, NEW fl, IsFile(fmt, fl), NEW ev, AreEvents(fmt, fl, ev),
         NEW x \in [hits : Seq(Hits), raw : Raws],
         NEW d, d = Before(ev, Len(ev) + 1),
         IsBlock(fmt, fl, x.hits, d + 1), NextParted(fmt, fl, ev, d + 1)
  PROVE  /\ AreEvents(fmt, fl, Append(ev, x))
         /\ Before(Append(ev, x), Len(ev) + 2) = d + Len(x.hits)
<1> DEFINE new == Append(ev, x)
<1>1. /\ ev \in Seq([hits : Seq(Hits), raw : Raws]) /\ Len(ev) \in Nat
      /\ new \in Seq([hits : Seq(Hits), raw : Raws]) /\ Len(new) = Len(ev) + 1
      /\ new[Len(ev) + 1] = x /\ \A e \in 1 .. Len(ev) : new[e] = ev[e]
  BY DEF AreEvents
<1> HIDE DEF new
<1>2. ASSUME NEW e \in 1 .. Len(ev) + 1 PROVE Before(new, e) = Before(ev, e)
  <2>1. e = 1 \/ e - 1 \in 1 .. Len(ev)
    BY <1>1
  <2> QED BY <1>1, <2>1 DEF Before
<1>3. ASSUME NEW e \in 1 .. Len(new) PROVE IsBlock(fmt, fl, new[e].hits, Before(new, e) + 1)
  <2>1. CASE e \in 1 .. Len(ev)
    BY <1>1, <1>2, <2>1 DEF AreEvents
  <2>2. CASE e = Len(ev) + 1
    BY <1>1, <1>2, <2>2
  <2> QED BY <1>1, <2>1, <2>2
<1>4. ASSUME NEW e \in 1 .. Len(new) - 1
      PROVE  Parted(fmt, fl, new[e].hits, LastLine(new[e].hits) + 1)
  <2>1. e \in 1 .. Len(ev) /\ new[e] = ev[e]
    BY <1>1
  <2>2. CASE e \in 1 .. Len(ev) - 1
    BY <2>1, <2>2 DEF AreEvents
  <2>3. CASE e = Len(ev)
    <3>1. ev # <<>> /\ Len(ev) + 1 # 1 /\ Len(ev) + 1 - 1 = Len(ev)
      BY <1>1, <2>1, <2>3
    <3>2. d = LastLine(ev[e].hits)
      BY <2>3, <3>1 DEF Before
    <3> QED BY <2>1, <2>3, <3>1, <3>2 DEF NextParted
  <2> QED BY <1>1, <2>1, <2>2, <2>3
<1>5. Before(new, Len(ev) + 2) = d + Len(x.hits)
  <2>1. Len(ev) + 2 # 1 /\ Len(ev) + 2 - 1 = Len(ev) + 1
    BY <1>1
  <2>2. LastLine(x.hits) = d + 1 + Len(x.hits) - 1
    BY LastOfBlock
  <2>3. d + 1 \in Nat \ {0} /\ Len(x.hits) \in Nat
    BY DEF IsBlock
  <2>4. d \in Int
    <3>1. CASE Len(ev) = 0
      BY <3>1 DEF Before
    <3>2. CASE Len(ev) # 0
      <4>1. Len(ev) \in 1 .. Len(ev) /\ Len(ev) + 1 # 1 /\ Len(ev) + 1 - 1 = Len(ev)
        BY <1>1, <3>2
      <4>2. LastLine(ev[Len(ev)].hits) \in 1 .. Len(fl)
        BY <4>1, LastOfBlock DEF AreEvents
      <4> QED BY <4>1, <4>2 DEF Before
    <3> QED BY <3>1, <3>2
  <2>5. Before(new, Len(ev) + 2) = LastLine(x.hits)
    BY <1>1, <2>1 DEF Before
  <2>6. d + 1 + Len(x.hits) - 1 = d + Len(x.hits)
    BY <2>3, <2>4
  <2> QED BY <2>2, <2>5, <2>6
<1> QED BY <1>1, <1>3, <1>4, <1>5 DEF AreEvents, new

LEMMA DeliveredIsBefore ==
  ASSUME AreEvents(format, file, events), IsFile(format, file)
  PROVE  /\ Delivered = Before(events, Len(events) + 1)
         /\ Delivered \in 0 .. Len(file)
         /\ events # <<>> => Delivered = LastLine(events[Len(events)].hits)
<1>1. Len(events) \in Nat /\ (events = <<>> <=> Len(events) = 0) /\ Len(file) \in Nat
  BY DEF AreEvents, IsFile
<1>2. CASE events = <<>>
  BY <1>1, <1>2 DEF Delivered, Before
<1>3. CASE events # <<>>
  <2>1. Len(events) \in 1 .. Len(events) /\ Len(events) + 1 # 1 /\ Len(events) + 1 - 1 = Len(events)
    BY <1>1, <1>3
  <2>2. LastLine(events[Len(events)].hits) \in 1 .. Len(file)
    BY <2>1, LastOfBlock DEF AreEvents
  <2> QED BY <1>1, <1>3, <2>1, <2>2 DEF Delivered, Before
<1> QED BY <1>2, <1>3
-----------------------------------------------------------------------------
(* Part 4: the inductive invariant.  Where the stream is in each phase,    *)
(* and what the hits and the cache have to do with the lines taken.        *)
AllLines == IF newline \/ Len(file) = 1 THEN Len(file) ELSE Len(file) - 1

HitsAreBlock ==
  /\ IsBlock(format, file, hits, Delivered + 1)
  /\ NextParted(format, file, events, Delivered + 1)

Calls ==
  pc = "call" =>
    \/ state = "INIT" /\ next = 0 /\ events = <<>> /\ hit_cache = None
    \/ /\ state = "READING"
       /\ Begins(format, file, hit_cache, next) /\ next = Delivered + 1
       /\ NextParted(format, file, events, next)
    \/ state = "DONE" /\ Delivered = AllLines

(* Without a first line the hit has no fibre, and will stop the program.   *)
Reads ==
  pc = "lines" =>
    /\ state = "READING"
    /\ hits # <<>>
    /\ hits[1] = None \/ /\ HitsAreBlock
                         /\ hits[1] = hit_cache
                         /\ Begins(format, file, hit_cache, Delivered + 1)
                         /\ next = Delivered + Len(hits)

Unpacks ==
  pc = "unpack" =>
    /\ hits # <<>>
    /\ hits[1] = None
       \/ /\ HitsAreBlock
          /\ \/ /\ state = "READING" /\ Begins(format, file, hit_cache, next)
                /\ next = Delivered + Len(hits) + 1
                /\ Parted(format, file, hits, next)
             \/ state = "DONE" /\ Delivered + Len(hits) = AllLines

(* A last line without a newline is not taken.                             *)
Position ==
  /\ state = "READING" =>
       next = 1 \/ (next \in 2 .. Len(file) /\ (next < Len(file) \/ newline))
  /\ state = "INIT" => pc = "call"
  /\ pc = "ended" => Delivered = AllLines

LineInv ==
  /\ TypeOK
  /\ AreEvents(format, file, events)
  /\ Calls /\ Reads /\ Unpacks /\ Position

LEMMA LineInitInv == Init => LineInv
<1> SUFFICES ASSUME Init PROVE LineInv
  OBVIOUS
<1>1. PICK n \in 0 .. MaxLines : file \in [1 .. n -> Lines(format)]
  BY DEF Init
<1>2. file \in Seq(Lines(format)) /\ Len(file) = n
  BY <1>1
<1>3. /\ pc = "call" /\ format \in Formats /\ newline \in BOOLEAN /\ next = 0
      /\ state = "INIT" /\ hit_cache = None /\ hits = <<>> /\ events = <<>>
  BY DEF Init
<1>4. TypeOK
  BY <1>1, <1>2, <1>3, MaxLinesAssumption DEF TypeOK
<1>5. AreEvents(format, file, events)
  BY <1>3 DEF AreEvents
<1> QED BY <1>3, <1>4, <1>5 DEF LineInv, Calls, Reads, Unpacks, Position

LEMMA LineFileOK == TypeOK => IsFile(format, file) /\ Len(file) \in Nat
BY DEF TypeOK, IsFile

(* What every action leaves alone.                                         *)
LEMMA Kept ==
  ASSUME LineInv, UNCHANGED <<format, file, newline, events>>
  PROVE  /\ AreEvents(format, file, events)' /\ Delivered' = Delivered
         /\ AllLines' = AllLines /\ Len(file)' = Len(file)
BY DEF LineInv, AreEvents, Delivered, LastLine, AllLines

LEMMA CallInitStep == LineInv /\ CallInit => LineInv'
<1> SUFFICES ASSUME LineInv, CallInit PROVE LineInv'
  OBVIOUS
<1> USE DEF LineInv
<1>1. /\ pc = "call" /\ state = "INIT" /\ next' = 1 /\ state' = "READING" /\ pc' = "lines"
      /\ hits' = <<hit_cache'>> /\ hit_cache' = IF CanBegin THEN HitAt(1) ELSE None
      /\ UNCHANGED <<format, file, newline, events>>
  BY DEF CallInit
<1>2. next = 0 /\ events = <<>> /\ hit_cache = None /\ Delivered = 0
  BY <1>1 DEF Calls, Delivered
<1>3. IsFile(format, file) /\ Len(file) \in Nat
  BY LineFileOK
<1>4. AreEvents(format, file, events)' /\ Delivered' = 0
  BY <1>1, <1>2, Kept
<1>5. CASE ~CanBegin
  <2>1. hit_cache' = None /\ hits' = <<None>>
    BY <1>1, <1>5
  <2>2. TypeOK'
    BY <1>1, <2>1, MaxLinesAssumption DEF TypeOK
  <2> QED BY <1>1, <1>4, <2>1, <2>2 DEF Calls, Reads, Unpacks, Position
<1>6. CASE CanBegin
  <2>1. hit_cache' = HitAt(1) /\ hits' = <<HitAt(1)>> /\ 1 \in 1 .. Len(file)
        /\ (format = "CB" => file[1].begins)
    BY <1>1, <1>3, <1>6 DEF CanBegin
  <2>2. PICK h : h = HitAt(1)
    OBVIOUS
  <2>3. /\ h \in Hits /\ h.line = 1
        /\ format = "PMI" => h.l = file[1].l /\ h.r = file[1].r
        /\ format # "PMI" => Stamp(h) = file[1].stamp
    BY <1>2, <1>3, <2>1, <2>2, HitOfLine, FormatsAssumption DEF IsFile
  <2>4. Begins(format, file, h, 1)
    <3>1. format = "PMI" => InWindow(file[1], file[1])
      BY <1>3, <2>1, WindowOfItself
    <3>2. format # "PMI" => file[1].begins
      BY <1>3, <2>1, FormatsAssumption DEF IsFile
    <3> QED BY <2>1, <2>3, <3>1, <3>2 DEF Begins, Belongs
  <2>5. IsBlock(format, file, <<h>>, 1)
    BY <1>3, <2>4, BlockBegins
  <2>6. hit_cache' = h /\ hits' = <<h>> /\ h # None
    BY <2>1, <2>2, <2>3, NoneIsNoHit
  <2>7. TypeOK'
    BY <1>1, <2>3, <2>6, MaxLinesAssumption DEF TypeOK
  <2>8. Reads'
    <3>1. Begins(format', file', hit_cache', Delivered' + 1)
      BY <1>1, <1>4, <2>4, <2>6
    <3>2. IsBlock(format', file', hits', Delivered' + 1)
      BY <1>1, <1>4, <2>5, <2>6
    <3>3. NextParted(format', file', events', Delivered' + 1)
      BY <1>1, <1>2 DEF NextParted
    <3>4. next' = Delivered' + Len(hits') /\ hits' # <<>> /\ hits'[1] = hit_cache'
      BY <1>1, <1>4, <2>6
    <3> QED BY <1>1, <3>1, <3>2, <3>3, <3>4 DEF Reads, HitsAreBlock
  <2> QED BY <1>1, <1>4, <2>7, <2>8 DEF Calls, Unpacks, Position
<1> QED BY <1>5, <1>6

LEMMA CallReadingStep == LineInv /\ CallReading => LineInv'
<1> SUFFICES ASSUME LineInv, CallReading PROVE LineInv'
  OBVIOUS
<1> USE DEF LineInv
<1>1. /\ pc = "call" /\ state = "READING" /\ pc' = "lines" /\ hits' = <<hit_cache>>
      /\ UNCHANGED <<format, file, newline, next, state, hit_cache, events>>
  BY DEF CallReading
<1>2. /\ Begins(format, file, hit_cache, next) /\ next = Delivered + 1
      /\ NextParted(format, file, events, next)
  BY <1>1 DEF Calls
<1>3. IsFile(format, file) /\ Len(file) \in Nat
  BY LineFileOK
<1>4. AreEvents(format, file, events)' /\ Delivered' = Delivered
  BY <1>1, Kept
<1>5. TypeOK'
  BY <1>1 DEF TypeOK
<1>6. IsBlock(format, file, <<hit_cache>>, Delivered + 1)
  BY <1>2, <1>3, BlockBegins
<1>7. Delivered \in Nat
  BY <1>3, DeliveredIsBefore
<1>8. Reads'
  <2>1. Begins(format', file', hit_cache', Delivered' + 1)
    BY <1>1, <1>2, <1>4
  <2>2. IsBlock(format', file', hits', Delivered' + 1)
    BY <1>1, <1>4, <1>6
  <2>3. NextParted(format', file', events', Delivered' + 1)
    BY <1>1, <1>2, <1>4
  <2>4. next' = Delivered' + Len(hits') /\ hits' # <<>> /\ hits'[1] = hit_cache'
    BY <1>1, <1>2, <1>4
  <2> QED BY <1>1, <2>1, <2>2, <2>3, <2>4 DEF Reads, HitsAreBlock
<1>9. Position'
  BY <1>1 DEF Position
<1> QED BY <1>1, <1>4, <1>5, <1>8, <1>9 DEF Calls, Unpacks

LEMMA CallDoneStep == LineInv /\ CallDone => LineInv'
<1> SUFFICES ASSUME LineInv, CallDone PROVE LineInv'
  OBVIOUS
<1> USE DEF LineInv
<1>1. /\ pc = "call" /\ state = "DONE" /\ pc' = "ended"
      /\ UNCHANGED <<format, file, newline, next, state, hit_cache, hits, events>>
  BY DEF CallDone
<1>2. AreEvents(format, file, events)' /\ Delivered' = Delivered /\ AllLines' = AllLines
  BY <1>1, Kept
<1>3. TypeOK'
  BY <1>1 DEF TypeOK
<1>4. Delivered = AllLines
  BY <1>1 DEF Calls
<1> QED BY <1>1, <1>2, <1>3, <1>4 DEF Calls, Reads, Unpacks, Position

(* Where the stream is when a line was read and the stream is good.        *)
LEMMA NextLine ==
  ASSUME LineInv, pc = "lines", Good
  PROVE  /\ next + 1 \in 2 .. Len(file) /\ (next + 1 < Len(file) \/ newline)
         /\ state = "READING"
<1>1. next \in Nat /\ Len(file) \in Nat /\ state = "READING"
  BY LineFileOK DEF LineInv, TypeOK, Reads
<1>2. next = 1 \/ next \in 2 .. Len(file)
  BY <1>1 DEF LineInv, Position
<1>3. CASE next + 1 < Len(file)
  BY <1>1, <1>2, <1>3
<1>4. CASE next + 1 = Len(file) /\ newline
  BY <1>1, <1>2, <1>4
<1> QED BY <1>3, <1>4 DEF Good

LEMMA ReadSameEventStep == LineInv /\ ReadSameEvent => LineInv'
<1> SUFFICES ASSUME LineInv, ReadSameEvent PROVE LineInv'
  OBVIOUS
<1> USE DEF LineInv
<1>1. /\ pc = "lines" /\ Good /\ SameEvent(next + 1) /\ pc' = pc
      /\ hits' = Append(hits, HitAt(next + 1)) /\ next' = next + 1
      /\ UNCHANGED <<format, file, newline, state, hit_cache, events>>
  BY DEF ReadSameEvent
<1>2. /\ next + 1 \in 2 .. Len(file) /\ (next + 1 < Len(file) \/ newline)
      /\ state = "READING" /\ hits # <<>>
  BY <1>1, NextLine DEF Reads
<1>3. IsFile(format, file) /\ Len(file) \in Nat /\ Delivered \in Nat
  BY LineFileOK, DeliveredIsBefore
<1>4. AreEvents(format, file, events)' /\ Delivered' = Delivered
  BY <1>1, Kept
<1>5. PICK n \in 2 .. Len(file) : n = next + 1
  BY <1>2
<1>6. PICK h : h = HitAt(n)
  OBVIOUS
<1>7. /\ h \in Hits /\ h.line = n
      /\ format = "PMI" => h.l = file[n].l /\ h.r = file[n].r
      /\ format # "PMI" => Stamp(h) = IF file[n].begins THEN file[n].stamp ELSE Stamp(hit_cache)
  <2>1. hit_cache \in Hits \cup {None} /\ n \in 1 .. Len(file)
    BY <1>3, <1>5 DEF TypeOK
  <2> QED BY <1>3, <1>6, <2>1, HitOfLine
<1>8. hits \in Seq(Hits \cup {None}) /\ hits' = Append(hits, h) /\ Len(hits) \in Nat \ {0}
  BY <1>1, <1>2, <1>5, <1>6 DEF TypeOK
<1>9. hits'[1] = hits[1] /\ hits' # <<>> /\ hits' \in Seq(Hits \cup {None})
      /\ Len(hits') = Len(hits) + 1
  BY <1>7, <1>8
<1>10. TypeOK'
  BY <1>1, <1>2, <1>3, <1>9, MaxLinesAssumption DEF TypeOK, IsFile
<1>11. Position'
  BY <1>1, <1>2 DEF Position
<1>12. Reads'
  <2>1. CASE hits[1] = None
    BY <1>1, <1>2, <1>9, <2>1 DEF Reads
  <2>2. CASE hits[1] # None
    <3>1. /\ HitsAreBlock /\ hits[1] = hit_cache
          /\ Begins(format, file, hit_cache, Delivered + 1) /\ next = Delivered + Len(hits)
      BY <1>1, <2>2 DEF Reads
    <3>0. PICK b \in 1 .. Len(file) : b = Delivered + 1
      BY <3>1 DEF Begins
    <3>2. b + Len(hits) = n /\ n # b /\ n <= Len(file)
      BY <1>3, <1>5, <1>8, <3>0, <3>1
    <3>3. ASSUME format = "PMI" PROVE InWindow(file[b], file[n])
      <4>1. InWindow(hit_cache, h)
        BY <1>1, <1>5, <1>6, <3>3 DEF SameEvent
      <4>2. hit_cache.l = file[b].l /\ hit_cache.r = file[b].r /\ h.l = file[n].l /\ h.r = file[n].r
        BY <1>7, <3>0, <3>1, <3>3 DEF Begins
      <4> QED BY <4>1, <4>2 DEF InWindow
    <3>4. ASSUME format # "PMI" PROVE Stamp(h) = file[b].stamp /\ (file[n].begins <=> n = b)
      <4>1. ~file[n].begins
        BY <1>1, <1>5, <3>4 DEF SameEvent
      <4>2. Stamp(hit_cache) = file[b].stamp
        BY <3>0, <3>1, <3>4 DEF Begins, Belongs
      <4>3. Stamp(h) = file[b].stamp
        BY <1>7, <3>4, <4>1, <4>2
      <4>4. file[n].begins \in BOOLEAN
        BY <1>3, <3>2, <3>4, <1>5, LineFields
      <4> QED BY <3>2, <4>1, <4>3, <4>4
    <3>5. Belongs(format, file, h, b + Len(hits), b)
      <4>1. Belongs(format, file, h, n, b)
        BY <1>7, <3>3, <3>4 DEF Belongs
      <4> QED BY <3>2, <4>1
    <3>6. IsBlock(format, file, Append(hits, h), b)
      <4>1. IsBlock(format, file, hits, b)
        BY <3>0, <3>1 DEF HitsAreBlock
      <4> QED BY <1>3, <3>2, <3>5, <4>1, BlockGrows
    <3>7. IsBlock(format', file', hits', Delivered' + 1)
      BY <1>1, <1>4, <1>8, <3>0, <3>6
    <3>8. NextParted(format', file', events', Delivered' + 1)
          /\ Begins(format', file', hit_cache', Delivered' + 1)
      BY <1>1, <1>4, <3>1 DEF HitsAreBlock
    <3>9. hits'[1] = hit_cache' /\ next' = Delivered' + Len(hits')
      BY <1>1, <1>3, <1>4, <1>8, <1>9, <3>1
    <3> QED BY <1>1, <1>2, <1>9, <3>7, <3>8, <3>9 DEF Reads, HitsAreBlock
  <2> QED BY <2>1, <2>2
<1> QED BY <1>1, <1>4, <1>10, <1>11, <1>12 DEF Calls, Unpacks

LEMMA ReadNextEventStep == LineInv /\ ReadNextEvent => LineInv'
<1> SUFFICES ASSUME LineInv, ReadNextEvent PROVE LineInv'
  OBVIOUS
<1> USE DEF LineInv
<1>1. /\ pc = "lines" /\ Good /\ ~SameEvent(next + 1) /\ pc' = "unpack"
      /\ hit_cache' = HitAt(next + 1) /\ next' = next + 1
      /\ UNCHANGED <<format, file, newline, state, hits, events>>
  BY DEF ReadNextEvent
<1>2. /\ next + 1 \in 2 .. Len(file) /\ (next + 1 < Len(file) \/ newline)
      /\ state = "READING" /\ hits # <<>>
  BY <1>1, NextLine DEF Reads
<1>3. IsFile(format, file) /\ Len(file) \in Nat /\ Delivered \in Nat
  BY LineFileOK, DeliveredIsBefore
<1>4. AreEvents(format, file, events)' /\ Delivered' = Delivered
  BY <1>1, Kept
<1>5. PICK n \in 2 .. Len(file) : n = next + 1
  BY <1>2
<1>6. PICK h : h = HitAt(n)
  OBVIOUS
<1>7. n \in 1 .. Len(file) /\ hit_cache' = h
  BY <1>1, <1>3, <1>5, <1>6
<1>8. /\ h \in Hits /\ h.line = n
      /\ format = "PMI" => h.l = file[n].l /\ h.r = file[n].r
      /\ format # "PMI" => Stamp(h) = IF file[n].begins THEN file[n].stamp ELSE Stamp(hit_cache)
  <2>1. hit_cache \in Hits \cup {None}
    BY DEF TypeOK
  <2> QED BY <1>3, <1>6, <1>7, <2>1, HitOfLine
<1>9. TypeOK'
  BY <1>1, <1>2, <1>3, <1>7, <1>8, MaxLinesAssumption DEF TypeOK, IsFile
<1>10. Position'
  BY <1>1, <1>2 DEF Position
<1>11. Begins(format, file, h, n)
  <2>1. format = "PMI" => InWindow(file[n], file[n])
    BY <1>3, <1>7, WindowOfItself
  <2>2. format # "PMI" => file[n].begins
    BY <1>1, <1>5 DEF SameEvent
  <2> QED BY <1>7, <1>8, <2>1, <2>2 DEF Begins, Belongs
<1>12. Unpacks'
  <2>1. CASE hits[1] = None
    BY <1>1, <1>2, <2>1 DEF Unpacks
  <2>2. CASE hits[1] # None
    <3>1. /\ HitsAreBlock /\ hits[1] = hit_cache
          /\ Begins(format, file, hit_cache, Delivered + 1) /\ next = Delivered + Len(hits)
      BY <1>1, <2>2 DEF Reads
    <3>2. Parted(format, file, hits, n)
      <4> SUFFICES ASSUME format = "PMI" PROVE ~InWindow(file[Delivered + 1], file[n])
        BY <3>1 DEF Parted, Begins, Belongs
      <4>1. ~InWindow(hit_cache, h)
        BY <1>1, <1>5, <1>6 DEF SameEvent
      <4>2. /\ hit_cache.l = file[Delivered + 1].l /\ hit_cache.r = file[Delivered + 1].r
            /\ h.l = file[n].l /\ h.r = file[n].r
        BY <1>8, <3>1 DEF Begins
      <4> QED BY <4>1, <4>2 DEF InWindow
    <3>3. HitsAreBlock'
      BY <1>1, <1>4, <3>1 DEF HitsAreBlock
    <3>4. /\ Begins(format', file', hit_cache', next') /\ Parted(format', file', hits', next')
          /\ state' = "READING"
      BY <1>1, <1>2, <1>5, <1>7, <1>11, <3>2
    <3>5. next' = Delivered' + Len(hits') + 1
      BY <1>1, <1>4, <3>1
    <3> QED BY <1>1, <1>2, <3>3, <3>4, <3>5 DEF Unpacks
  <2> QED BY <2>1, <2>2
<1> QED BY <1>1, <1>4, <1>9, <1>10, <1>12 DEF Calls, Reads

LEMMA ReadEndStep == LineInv /\ ReadEnd => LineInv'
<1> SUFFICES ASSUME LineInv, ReadEnd PROVE LineInv'
  OBVIOUS
<1> USE DEF LineInv
<1>1. /\ pc = "lines" /\ ~Good /\ next' = next + 1 /\ state' = "DONE" /\ pc' = "unpack"
      /\ UNCHANGED <<format, file, newline, hit_cache, hits, events>>
  BY DEF ReadEnd
<1>2. state = "READING" /\ hits # <<>>
  BY <1>1 DEF Reads
<1>3. /\ next \in Nat /\ Len(file) \in Nat /\ Len(file) <= MaxLines /\ Delivered \in Nat
      /\ newline \in BOOLEAN /\ IsFile(format, file)
  BY LineFileOK, DeliveredIsBefore DEF TypeOK
<1>4. next = 1 \/ (next \in 2 .. Len(file) /\ (next < Len(file) \/ newline))
  BY <1>2 DEF Position
<1>5. AreEvents(format, file, events)' /\ Delivered' = Delivered /\ AllLines' = AllLines
  BY <1>1, Kept
<1>6. TypeOK'
  BY <1>1, <1>3, <1>4, MaxLinesAssumption DEF TypeOK
<1>7. Unpacks'
  <2>1. CASE hits[1] = None
    BY <1>1, <1>2, <2>1 DEF Unpacks
  <2>2. CASE hits[1] # None
    <3>1. HitsAreBlock /\ next = Delivered + Len(hits) /\ next \in 1 .. Len(file)
      <4>1. HitsAreBlock /\ next = Delivered + Len(hits)
        BY <1>1, <2>2 DEF Reads
      <4>2. hits \in Seq(Hits) /\ Len(hits) # 0 /\ Delivered + 1 + Len(hits) - 1 <= Len(file)
        BY <4>1 DEF HitsAreBlock, IsBlock
      <4> QED BY <1>3, <4>1, <4>2
    <3>2. ~(next + 1 < Len(file)) /\ ~(next + 1 = Len(file) /\ newline)
      BY <1>1 DEF Good
    <3>3. next = AllLines
      <4>1. CASE newline
        BY <1>3, <3>1, <3>2, <4>1 DEF AllLines
      <4>2. CASE ~newline
        <5>1. (next = 1 \/ next < Len(file)) /\ ~(next + 1 < Len(file))
          BY <1>4, <3>2, <4>2
        <5>2. ASSUME NEW L \in Nat, NEW m \in 1 .. L, m = 1 \/ m < L, ~(m + 1 < L)
              PROVE  m = IF L = 1 THEN L ELSE L - 1
          BY <5>2
        <5>3. next = IF Len(file) = 1 THEN Len(file) ELSE Len(file) - 1
          BY <1>3, <3>1, <5>1, <5>2
        <5> QED BY <4>2, <5>3 DEF AllLines
      <4> QED BY <4>1, <4>2
    <3>4. HitsAreBlock'
      BY <1>1, <1>5, <3>1 DEF HitsAreBlock
    <3>5. Delivered' + Len(hits') = AllLines'
      BY <1>1, <1>5, <3>1, <3>3
    <3> QED BY <1>1, <1>2, <3>4, <3>5 DEF Unpacks
  <2> QED BY <2>1, <2>2
<1> QED BY <1>1, <1>5, <1>6, <1>7 DEF Calls, Reads, Position

(* The event that is delivered is the next block.                          *)
LEMMA UnpackStep ==
  ASSUME LineInv, Unpack
  PROVE  /\ LineInv' /\ IsBlock(format, file, hits, Delivered + 1)
         /\ Delivered' = Delivered + Len(hits)
<1> USE DEF LineInv
<1> DEFINE x == [hits |-> [k \in DOMAIN hits |-> Shifted(hits[k])], raw |-> Raw]
<1>1. /\ pc = "unpack" /\ hits[1] # None /\ events' = Append(events, x) /\ pc' = "call"
      /\ UNCHANGED <<format, file, newline, next, state, hit_cache, hits>>
  BY DEF Unpack
<1>2. IsFile(format, file) /\ Len(file) \in Nat
  BY LineFileOK
<1>3. Delivered \in Nat /\ Delivered = Before(events, Len(events) + 1)
  BY <1>2, DeliveredIsBefore
<1>4. HitsAreBlock
  BY <1>1 DEF Unpacks
<1>5. /\ hits \in Seq(Hits) /\ hits # <<>> /\ Len(hits) \in Nat
      /\ IsBlock(format, file, hits, Delivered + 1)
      /\ NextParted(format, file, events, Delivered + 1)
  BY <1>4 DEF HitsAreBlock, IsBlock
<1>6. IsBlock(format, file, x.hits, Delivered + 1) /\ Len(x.hits) = Len(hits)
  <2>1. IsBlock(format, file, x.hits, Delivered + 1)
    BY <1>2, <1>5, BlockShifted
  <2>2. Len(x.hits) = Len(hits)
    BY <1>5, <2>1 DEF IsBlock
  <2> QED BY <2>1, <2>2
<1>7. x \in [hits : Seq(Hits), raw : Raws]
  <2>1. x.hits \in Seq(Hits)
    BY <1>6 DEF IsBlock
  <2> QED BY <1>5, <2>1, RawOfHits
<1> HIDE DEF x
<1>8. /\ AreEvents(format, file, Append(events, x))
      /\ Before(Append(events, x), Len(events) + 2) = Delivered + Len(x.hits)
  BY <1>2, <1>3, <1>5, <1>6, <1>7, EventsGrow
<1>9. AreEvents(format', file', events')
  BY <1>1, <1>8
<1>10. /\ events \in Seq([hits : Seq(Hits), raw : Raws]) /\ Len(events') = Len(events) + 1
       /\ events' # <<>> /\ events'[Len(events')] = x /\ Len(events) \in Nat
  <2>1. events \in Seq([hits : Seq(Hits), raw : Raws]) /\ Len(events) \in Nat
    BY DEF TypeOK
  <2>2. /\ Len(Append(events, x)) = Len(events) + 1
        /\ Append(events, x)[Len(events) + 1] = x /\ Append(events, x) # <<>>
    BY <1>7, <2>1
  <2> QED BY <1>1, <2>1, <2>2
<1>11. Delivered' = Delivered + Len(hits)
  <2>1. Delivered' = LastLine(events'[Len(events')].hits)
    BY <1>10 DEF Delivered
  <2>2. LastLine(x.hits) = Delivered + 1 + Len(x.hits) - 1
    BY <1>2, <1>6, LastOfBlock
  <2> QED BY <1>3, <1>5, <1>6, <1>10, <2>1, <2>2
<1>12. TypeOK'
  BY <1>1, <1>7, <1>10 DEF TypeOK
<1>13. Position'
  BY <1>1 DEF Position
<1>14. Calls'
  <2>1. CASE state = "DONE"
    <3>1. Delivered + Len(hits) = AllLines
      BY <1>1, <2>1 DEF Unpacks
    <3> QED BY <1>1, <1>11, <2>1, <3>1 DEF Calls, AllLines
  <2>2. CASE state = "READING"
    <3>1. /\ Begins(format, file, hit_cache, next) /\ next = Delivered + Len(hits) + 1
          /\ Parted(format, file, hits, next)
      BY <1>1, <2>2 DEF Unpacks
    <3>2. x.hits[1].line = hits[1].line
      BY <1>2, <1>5, <1>6, LastOfBlock
    <3>3. NextParted(format', file', events', next')
      BY <1>1, <1>10, <3>1, <3>2 DEF NextParted, Parted
    <3>4. next' = Delivered' + 1
      BY <1>1, <1>11, <3>1
    <3> QED BY <1>1, <2>2, <3>1, <3>3, <3>4 DEF Calls
  <2> QED BY <1>1, <2>1, <2>2 DEF Unpacks
<1> QED BY <1>1, <1>5, <1>9, <1>11, <1>12, <1>13, <1>14 DEF Reads, Unpacks

LEMMA UnpackFailsStep == LineInv /\ UnpackFails => LineInv'
<1> SUFFICES ASSUME LineInv, UnpackFails PROVE LineInv'
  OBVIOUS
<1> USE DEF LineInv
<1>1. /\ pc = "unpack" /\ pc' = "failed"
      /\ UNCHANGED <<format, file, newline, next, state, hit_cache, hits, events>>
  BY DEF UnpackFails
<1>2. AreEvents(format, file, events)'
  BY <1>1, Kept
<1>3. TypeOK'
  BY <1>1 DEF TypeOK
<1>4. Position'
  BY <1>1 DEF Position
<1> QED BY <1>1, <1>2, <1>3, <1>4 DEF Calls, Reads, Unpacks
-----------------------------------------------------------------------------
(* Part 5: the theorems.  LineInv is kept by every step of the source.     *)
LEMMA LineInvNext == LineInv /\ [Next]_vars => LineInv'
<1>1. LineInv /\ UNCHANGED vars => LineInv'
  BY DEF vars, LineInv, TypeOK, AreEvents, Calls, Reads, Unpacks, Position, HitsAreBlock,
         Delivered, AllLines, LastLine
<1> QED BY <1>1, CallInitStep, CallReadingStep, CallDoneStep, ReadSameEventStep,
           ReadNextEventStep, ReadEndStep, UnpackStep, UnpackFailsStep DEF Next

(* So it holds throughout.                                                 *)
THEOREM LineInvCorrect == Spec => []LineInv
BY LineInitInv, LineInvNext, PTL DEF Spec

(* Lines, hits and events have their types.                                *)
THEOREM LineTypeCorrect == Spec => []TypeOK
<1>1. LineInv => TypeOK
  BY DEF LineInv
<1> QED BY <1>1, LineInvCorrect, PTL

(* The invariant says where the stream is at the end.                      *)
LEMMA NothingLeftInv == LineInv => NothingLeft
BY DEF LineInv, Position, NothingLeft, AllLines

(* All lines have been delivered when the source ends, but a last one      *)
(* without a newline.                                                      *)
THEOREM NothingLeftCorrect == Spec => []NothingLeft
BY NothingLeftInv, LineInvCorrect, PTL

(* What belongs to an event, line by line.                                 *)
LEMMA EventLines ==
  ASSUME LineInv, NEW e \in 1 .. Len(events)
  PROVE  LET hs == events[e].hits
             b == hs[1].line
         IN /\ hs \in Seq(Hits) /\ Len(hs) \in Nat \ {0} /\ b \in 1 .. Len(file)
            /\ LastLine(hs) = b + Len(hs) - 1
            /\ \A k \in 1 .. Len(hs) : Belongs(format, file, hs[k], b + k - 1, b)
<1>1. PICK hs : hs = events[e].hits
  OBVIOUS
<1>2. IsBlock(format, file, hs, Before(events, e) + 1) /\ IsFile(format, file)
  BY <1>1, LineFileOK DEF LineInv, AreEvents
<1>3. PICK b \in Nat \ {0} : b = Before(events, e) + 1
  BY <1>2 DEF IsBlock
<1>4. LastLine(hs) = b + Len(hs) - 1 /\ hs[1].line = b
  BY <1>2, <1>3, LastOfBlock
<1>5. hs \in Seq(Hits) /\ Len(hs) \in Nat \ {0} /\ b + Len(hs) - 1 <= Len(file) /\ Len(file) \in Nat
  BY <1>2, <1>3 DEF IsBlock, IsFile
<1>6. b \in 1 .. Len(file)
  BY <1>5
<1>7. \A k \in 1 .. Len(hs) : Belongs(format, file, hs[k], b + k - 1, b)
  BY <1>2, <1>3 DEF IsBlock
<1> QED BY <1>1, <1>4, <1>5, <1>6, <1>7

LEMMA LineOfBlock ==
  ASSUME NEW fmt, NEW fl, NEW hs, NEW b \in Nat, Len(hs) \in Nat,
         \A k \in 1 .. Len(hs) : Belongs(fmt, fl, hs[k], b + k - 1, b),
         NEW n \in b .. b + Len(hs) - 1
  PROVE  \E k \in 1 .. Len(hs) : Belongs(fmt, fl, hs[k], n, b)
<1>1. PICK m \in Nat : m = Len(hs)
  OBVIOUS
<1>2. n - b + 1 \in 1 .. m /\ b + (n - b + 1) - 1 = n
  BY <1>1
<1>3. Belongs(fmt, fl, hs[n - b + 1], b + (n - b + 1) - 1, b)
  BY <1>1, <1>2
<1> QED BY <1>1, <1>2, <1>3

(* The blocks of the invariant have the right ends.                        *)
LEMMA SplitInv == LineInv => EventsAreSplit
<1> SUFFICES ASSUME LineInv PROVE EventsAreSplit
  OBVIOUS
<1> USE DEF LineInv
<1> SUFFICES ASSUME NEW e \in 1 .. Len(events), NEW hs, hs = events[e].hits,
                    NEW b, b = hs[1].line, NEW last, last = LastLine(hs)
             PROVE  IF format = "PMI"
                      THEN /\ \A n \in b .. last : InWindow(file[b], file[n])
                           /\ e < Len(events) => ~InWindow(file[b], file[last + 1])
                      ELSE \A n \in b .. last : file[n].begins <=> n = b
  <2>1. DOMAIN events = 1 .. Len(events)
    BY DEF TypeOK
  <2> QED BY <2>1 DEF EventsAreSplit
<1>1. /\ Len(hs) \in Nat \ {0} /\ b \in 1 .. Len(file) /\ last = b + Len(hs) - 1
      /\ \A k \in 1 .. Len(hs) : Belongs(format, file, hs[k], b + k - 1, b)
  BY EventLines
<1>2. ASSUME NEW n \in b .. last
      PROVE  IF format = "PMI" THEN InWindow(file[b], file[n]) ELSE file[n].begins <=> n = b
  <2>1. n \in b .. b + Len(hs) - 1 /\ b \in Nat /\ Len(hs) \in Nat
    BY <1>1, <1>2
  <2>2. PICK k \in 1 .. Len(hs) : Belongs(format, file, hs[k], n, b)
    BY <1>1, <2>1, LineOfBlock
  <2> QED BY <2>2 DEF Belongs
<1>3. ASSUME format = "PMI", e < Len(events) PROVE ~InWindow(file[b], file[last + 1])
  <2>1. e \in 1 .. Len(events) - 1
    BY <1>3 DEF TypeOK
  <2> QED BY <1>3, <2>1 DEF AreEvents, Parted
<1> QED BY <1>2, <1>3

(* The events have the right ends: their lines belong together and the     *)
(* line that follows does not belong to them.                              *)
THEOREM SplitCorrect == Spec => []EventsAreSplit
BY SplitInv, LineInvCorrect, PTL

(* And their hits have the stamps of their lines.                          *)
LEMMA StampsInv == LineInv => StampsAreShared
<1> SUFFICES ASSUME LineInv PROVE StampsAreShared
  OBVIOUS
<1> USE DEF LineInv
<1> SUFFICES ASSUME format = "CB", NEW e \in 1 .. Len(events), NEW hs, hs = events[e].hits,
                    NEW k \in 1 .. Len(hs), NEW b, b = hs[1].line
             PROVE  Stamp(hs[k]) = file[b].stamp
  <2>1. DOMAIN events = 1 .. Len(events)
    BY DEF TypeOK
  <2>2. ASSUME NEW e \in 1 .. Len(events) PROVE DOMAIN events[e].hits = 1 .. Len(events[e].hits)
    <3>1. events[e].hits \in Seq(Hits)
      BY <2>2, EventLines
    <3> QED BY <3>1
  <2> QED BY <2>1, <2>2 DEF StampsAreShared
<1>1. Belongs(format, file, hs[k], b + k - 1, b)
  BY EventLines
<1> QED BY <1>1 DEF Belongs

(* Every hit of a Citiroc event has the time stamp of its first line.      *)
THEOREM StampsCorrect == Spec => []StampsAreShared
BY StampsInv, LineInvCorrect, PTL
-----------------------------------------------------------------------------
(* Part 6: the source implements RecordStream.                             *)
BlockOf(hs) == [k \in 1 .. Len(hs) |-> hs[k].line]
BlocksOf(ev) == [e \in 1 .. Len(ev) |-> BlockOf(ev[e].hits)]

LEMMA BlocksGrow ==
  ASSUME NEW ev \in Seq([hits : Seq(Hits), raw : Raws]),
         NEW x \in [hits : Seq(Hits), raw : Raws]
  PROVE  BlocksOf(Append(ev, x)) = Append(BlocksOf(ev), BlockOf(x.hits))
<1> DEFINE E == [hits : Seq(Hits), raw : Raws]
<1>0. PICK v : v = Append(ev, x)
  OBVIOUS
<1>1. /\ Len(ev) \in Nat /\ Len(v) = Len(ev) + 1
      /\ v[Len(ev) + 1] = x /\ \A e \in 1 .. Len(ev) : v[e] = ev[e]
  <2>1. ev \in Seq(E) /\ x \in E
    OBVIOUS
  <2> HIDE DEF E
  <2> QED BY <1>0, <2>1, AppendProperties
<1>2. ASSUME NEW y \in [hits : Seq(Hits), raw : Raws] PROVE BlockOf(y.hits) \in Seq(Int)
  <2>1. y.hits \in Seq(Hits)
    BY <1>2
  <2>2. \A h \in Hits : h.line \in Int
    BY DEF Hits
  <2>3. Len(y.hits) \in Nat /\ \A k \in 1 .. Len(y.hits) : y.hits[k].line \in Int
    BY <2>1, <2>2
  <2> QED BY <2>3 DEF BlockOf
<1>3. BlocksOf(ev) \in Seq(Seq(Int)) /\ Len(BlocksOf(ev)) = Len(ev)
  <2>1. \A e \in 1 .. Len(ev) : ev[e] \in [hits : Seq(Hits), raw : Raws]
    BY ElementOfSeq
  <2>2. \A e \in 1 .. Len(ev) : BlockOf(ev[e].hits) \in Seq(Int)
    BY <1>2, <2>1
  <2> QED BY <1>1, <2>2 DEF BlocksOf
<1>4. PICK s \in Seq(Seq(Int)), y \in Seq(Int) : s = BlocksOf(ev) /\ y = BlockOf(x.hits)
  BY <1>2, <1>3
<1>9. PICK t : t = Append(s, y)
  OBVIOUS
<1>5. /\ t \in Seq(Seq(Int)) /\ Len(t) = Len(ev) + 1
      /\ t[Len(ev) + 1] = y /\ \A e \in 1 .. Len(ev) : t[e] = s[e]
  BY <1>3, <1>4, <1>9, AppendProperties
<1>6. BlocksOf(v) = [e \in 1 .. Len(ev) + 1 |-> BlockOf(v[e].hits)]
  BY <1>1 DEF BlocksOf
<1>7. ASSUME NEW e \in 1 .. Len(ev) + 1 PROVE t[e] = BlockOf(v[e].hits)
  <2>1. CASE e = Len(ev) + 1
    BY <1>1, <1>4, <1>5, <2>1
  <2>2. CASE e \in 1 .. Len(ev)
    <3>1. s[e] = BlockOf(ev[e].hits)
      BY <1>4, <2>2 DEF BlocksOf
    <3> QED BY <1>1, <1>5, <2>2, <3>1
  <2> QED BY <1>1, <1>7, <2>1, <2>2
<1>8. t = [e \in 1 .. Len(ev) + 1 |-> t[e]]
  <2>1. t = [e \in 1 .. Len(t) |-> t[e]]
    BY <1>5
  <2> QED BY <1>5, <2>1
<1> QED BY <1>0, <1>4, <1>9, <1>6, <1>7, <1>8

LEMMA BlockIsConsecutive ==
  ASSUME NEW fmt, NEW fl, NEW hs, NEW d \in Nat, IsBlock(fmt, fl, hs, d + 1)
  PROVE  BlockOf(hs) = [k \in 1 .. Len(hs) |-> d + k]
<1>1. ASSUME NEW k \in 1 .. Len(hs) PROVE hs[k].line = d + k
  <2>1. hs[k].line = d + 1 + k - 1 /\ Len(hs) \in Nat
    BY DEF IsBlock, Belongs
  <2> QED BY <2>1
<1> QED BY <1>1 DEF BlockOf

(* unpack() delivers the next block of lines, no other step delivers any.  *)
LEMMA LineStreamStep == LineInv /\ [Next]_vars => [Stream!StreamNext]_(Stream!streamVars)
<1> SUFFICES ASSUME LineInv, [Next]_vars PROVE [Stream!StreamNext]_(Stream!streamVars)
  OBVIOUS
<1> USE DEF LineInv
<1>1. CASE Unpack
  <2> DEFINE x == [hits |-> [k \in DOMAIN hits |-> Shifted(hits[k])], raw |-> Raw]
  <2>1. /\ pc = "unpack" /\ pc' = "call" /\ events' = Append(events, x) /\ file' = file
        /\ format' = format
    BY <1>1 DEF Unpack
  <2>2. IsBlock(format, file, hits, Delivered + 1) /\ Delivered' = Delivered + Len(hits) /\ LineInv'
    BY <1>1, UnpackStep
  <2>3. Delivered \in Nat /\ Len(file) \in Nat /\ IsFile(format, file)
    BY LineFileOK, DeliveredIsBefore
  <2>4. /\ Len(hits) \in Nat /\ Len(hits) # 0 /\ Delivered + Len(hits) <= Len(file)
        /\ hits \in Seq(Hits) /\ hits # <<>>
    BY <2>2, <2>3 DEF IsBlock
  <2>5. IsBlock(format, file, x.hits, Delivered + 1) /\ Len(x.hits) = Len(hits)
    <3>1. IsBlock(format, file, x.hits, Delivered + 1)
      BY <2>2, <2>3, BlockShifted
    <3>2. x.hits \in Seq(Hits)
      BY <3>1 DEF IsBlock
    <3>3. DOMAIN x.hits = DOMAIN hits
      OBVIOUS
    <3>4. Len(x.hits) = Len(hits)
      <4> HIDE DEF x
      <4> QED BY <2>4, <3>2, <3>3, LenProperties
    <3> QED BY <3>1, <3>4
  <2>6. x \in [hits : Seq(Hits), raw : Raws]
    <3>1. x.hits \in Seq(Hits)
      BY <2>5 DEF IsBlock
    <3>2. Raw \in Raws
      BY <2>4, RawOfHits
    <3> QED BY <3>1, <3>2
  <2> HIDE DEF x
  <2>7. events \in Seq([hits : Seq(Hits), raw : Raws])
    BY DEF TypeOK
  <2>8. BlocksOf(events') = Append(BlocksOf(events), [k \in 1 .. Len(hits) |-> Delivered + k])
    <3>1. BlockOf(x.hits) = [k \in 1 .. Len(hits) |-> Delivered + k]
      BY <2>3, <2>5, BlockIsConsecutive
    <3>2. BlocksOf(Append(events, x)) = Append(BlocksOf(events), BlockOf(x.hits))
      BY <2>6, <2>7, BlocksGrow
    <3> QED BY <2>1, <3>1, <3>2
  <2>9. PICK n \in 1 .. Len(file) - Delivered : n = Len(hits)
    BY <2>3, <2>4
  <2>10. /\ ~(pc \in {"ended", "failed"}) /\ ~(pc' \in {"ended", "failed"})
         /\ Len(file') = Len(file)
    BY <2>1
  <2>11. Stream!Deliver(n)
    <3>1. BlocksOf(events)' = Append(BlocksOf(events), [k \in 1 .. Len(hits) |-> Delivered + k])
      BY <2>8
    <3>2. (pc \in {"ended", "failed"})' = (pc \in {"ended", "failed"})
      BY <2>10
    <3>3. Len(file)' = Len(file)
      BY <2>10
    <3> QED BY <2>2, <2>4, <2>9, <2>10, <3>1, <3>2, <3>3 DEF Stream!Deliver, BlocksOf, BlockOf
  <2> QED BY <2>11 DEF Stream!StreamNext
<1>2. CASE CallDone \/ UnpackFails
  <2>1. pc \notin {"ended", "failed"} /\ pc' \in {"ended", "failed"} /\ UNCHANGED <<file, events>>
    BY <1>2 DEF CallDone, UnpackFails
  <2> QED BY <2>1 DEF Stream!StreamNext, Stream!End, Delivered, LastLine
<1>3. CASE CallInit \/ CallReading \/ ReadSameEvent \/ ReadNextEvent \/ ReadEnd \/ UNCHANGED vars
  <2>1. UNCHANGED <<file, events, pc>>
        \/ (pc \in {"call", "lines"} /\ pc' \in {"lines", "unpack"} /\ UNCHANGED <<file, events>>)
    BY <1>3 DEF CallInit, CallReading, ReadSameEvent, ReadNextEvent, ReadEnd, vars
  <2> QED BY <2>1 DEF Stream!streamVars, Delivered, LastLine
<1> QED BY <1>1, <1>2, <1>3 DEF Next

(* Nothing is delivered in the beginning.                                  *)
LEMMA LineStreamInit == Init => Stream!StreamInit
<1> SUFFICES ASSUME Init PROVE Stream!StreamInit
  OBVIOUS
<1>1. pc = "call" /\ events = <<>> /\ Len(file) \in Nat
  BY LineInitInv, LineFileOK DEF Init, LineInv
<1> QED BY <1>1 DEF Stream!StreamInit, Delivered

(* Every event is the next block of lines, none is skipped or delivered    *)
(* twice, and nothing is delivered after the end.                          *)
THEOREM LineSourceImplementsStream == Spec => DeliversStream
BY LineStreamInit, LineStreamStep, LineInvCorrect, PTL
   DEF Spec, DeliversStream, Stream!StreamSpec

-----------------------------------------------------------------------------
R == Records!Records
Least(a, b) == IF a <= b THEN a ELSE b

Streaming == {"DD", "KS", "Petiroc", "HLD"}
Running == {"setup", "call", "execute"}
Stopped == {"notopen", "aborted", "ended", "exited", "stopped"}

-----------------------------------------------------------------------------
(* Part 7: the inductive invariant, in terms of the member each kind of    *)
(* source counts its records with.                                         *)
FileOK == kind \in Kinds /\ size \in Nat /\ limit \in Nat

Counted ==
  /\ step \in Running \cup Stopped
  /\ current_event \in Nat /\ (step = "setup" => current_event = 0)
  /\ delivered = [e \in 1 .. current_event |-> delivered[e]]

(* What has been delivered, and what is loaded for the next event.         *)
InOrder ==
  /\ \A e \in 1 .. current_event : delivered[e].record = Least(e, R)
  /\ step = "execute" => loaded = Least(current_event + 1, R)

(* DD, KS, Petiroc and HLD take records from a stream.                     *)
StreamAt ==
  kind \in Streaming =>
    /\ taken \in Nat /\ taken <= R /\ current_event <= R
    /\ step \in {"setup", "call"} => taken = current_event
    /\ step = "execute" => taken = current_event + 1
    /\ step = "ended" => current_event = R

(* TTree and DR ask for the entry with the number of the event.            *)
EntryAt ==
  kind \in {"TTree", "DR"} =>
    /\ step = "call" => loaded = Least(IF current_event = 0 THEN 1 ELSE current_event, R)
    /\ kind = "TTree" => current_event <= R + 1 /\ (step = "execute" => current_event <= R)
    /\ step = "ended" => kind = "TTree" /\ current_event = R + 1

(* TP counts the entries and looks at the count after it has read.         *)
CounterAt ==
  kind = "TP" =>
    /\ counter \in Nat /\ (R # 0 => counter <= R /\ current_event <= R)
    /\ step \in {"setup", "call"} => counter = current_event
    /\ step = "execute" => counter = current_event + 1
    /\ step \in Running => (mode = "DONE" <=> R # 0 /\ counter = R)
    /\ step = "ended" => current_event = R

RecordsInv == FileOK /\ Counted /\ InOrder /\ StreamAt /\ EntryAt /\ CounterAt

Inv == IF kind = "none" THEN NoRecords ELSE RecordsInv

LEMMA KindsAre ==
  /\ \A k \in Kinds : k \in Streaming \/ k \in {"TTree", "DR"} \/ k = "TP"
  /\ "none" \notin Kinds
BY KindsAssumption DEF Streaming

LEMMA Quotients ==
  /\ \A a \in Nat, b \in Nat \ {0} : a \div b \in Nat
  /\ \A a \in Nat : a \div 1 = a
OBVIOUS

(* The number of complete records; a tree has as many as entries.          *)
LEMMA RecordsCounted ==
  ASSUME size \in Nat
  PROVE  R \in Nat /\ (kind \notin {"DD", "KS"} => R = size)
<1>1. CASE kind \in {"DD", "KS"}
  BY <1>1, RecordSizeAssumption, Quotients DEF R, Records!Records, Records!BlocksOf
<1>2. CASE kind \notin {"DD", "KS"}
  BY <1>2, Quotients DEF R, Records!Records, Records!BlocksOf
<1> QED BY <1>1, <1>2

LEMMA AppendAny ==
  ASSUME NEW n \in Nat, NEW s, s = [k \in 1 .. n |-> s[k]], NEW x, NEW t, t = Append(s, x)
  PROVE  /\ t = [k \in 1 .. n + 1 |-> t[k]] /\ t[n + 1] = x
         /\ \A k \in 1 .. n : t[k] = s[k]
<1>1. PICK S : S = {s[k] : k \in 1 .. n} \cup {x}
  OBVIOUS
<1>2. s \in Seq(S) /\ Len(s) = n /\ x \in S
  BY <1>1
<1>3. t \in Seq(S) /\ Len(t) = n + 1 /\ t[n + 1] = x /\ \A k \in 1 .. n : t[k] = s[k]
  BY <1>2, AppendProperties
<1> QED BY <1>3
-----------------------------------------------------------------------------
(* Part 8: the initial states.                                             *)
LEMMA InitInv == SourcesInit => Inv
<1>1. CASE Init /\ NoRecords
  BY <1>1 DEF NoRecords, Inv
<1>2. CASE Records!Init /\ NoLines
  <2> USE <1>2 DEF Records!Init
  <2>1. /\ step = "setup" /\ kind \in Kinds /\ size \in Sizes[kind] /\ limit \in Limits
        /\ current_event = 0 /\ taken = 0 /\ counter = 0 /\ mode = "READING"
        /\ delivered = <<>>
    OBVIOUS
  <2>2. FileOK
    BY <2>1, SizesAssumption, LimitsAssumption DEF FileOK
  <2>3. R \in Nat
    BY <2>2, RecordsCounted DEF FileOK
  <2>4. delivered = [e \in 1 .. 0 |-> delivered[e]]
    BY <2>1
  <2>5. Counted
    BY <2>1, <2>4 DEF Counted, Running
  <2>6. InOrder
    BY <2>1 DEF InOrder
  <2>7. StreamAt /\ EntryAt /\ CounterAt
    BY <2>1, <2>3 DEF StreamAt, EntryAt, CounterAt, Running
  <2> QED BY <2>1, <2>2, <2>5, <2>6, <2>7, KindsAre DEF Inv, RecordsInv
<1> QED BY <1>1, <1>2 DEF SourcesInit
-----------------------------------------------------------------------------
(* Part 9: the steps.  What every one of them leaves alone.                *)
Same == UNCHANGED <<kind, size, ends, content, subevent, limit>>

LEMMA SameRecords == Same => R' = R
BY DEF Same, R, Records!Records, Records!BlocksOf

(* A step that is neither a read nor the end of an event.                  *)
Idle ==
  /\ Same /\ UNCHANGED <<current_event, delivered, taken, counter, mode>>
  /\ \/ step = "setup" /\ step' \in {"setup", "notopen", "aborted"}
     \/ /\ step = "setup" /\ step' = "call"
        /\ kind \in {"TTree", "DR"} => loaded' = IF size > 0 THEN 1 ELSE 0
     \/ step = "execute" /\ step' = "execute" /\ loaded' = loaded
     \/ step \in {"call", "execute"} /\ step' \in {"exited", "stopped"}

LEMMA OpenIsIdle ==
  ASSUME Records!Open
  PROVE  Idle
<1>1. ASSUME NEW rec, Records!OpenUnpackers(rec),
             kind \in {"TTree", "DR"} => rec = IF size > 0 THEN 1 ELSE 0
      PROVE  Idle
  <2>1. step = "setup" /\ step' \in {"notopen", "aborted", "call"} /\ loaded' = rec
    BY <1>1 DEF Records!OpenUnpackers
  <2>2. Same /\ UNCHANGED <<current_event, delivered, taken, counter, mode>>
    BY <1>1 DEF Records!OpenUnpackers, Records!file, Records!stream, Same
  <2> QED BY <1>1, <2>1, <2>2 DEF Idle
<1>2. CASE Records!KSOpenRefused
  BY <1>2 DEF Records!KSOpenRefused, Records!file, Records!stream, Same, Idle
<1>3. CASE Records!DDOpen \/ Records!KSOpen \/ Records!PetirocOpen \/ Records!HLDOpen \/ Records!TPOpen
  BY <1>1, <1>3 DEF Records!DDOpen, Records!KSOpen, Records!PetirocOpen, Records!HLDOpen, Records!TPOpen
<1>4. CASE Records!TTreeOpen \/ Records!DROpen
  BY <1>1, <1>4 DEF Records!TTreeOpen, Records!DROpen
<1> QED BY <1>2, <1>3, <1>4 DEF Records!Open

LEMMA ExecuteIsIdle ==
  ASSUME Records!Execute
  PROVE  Idle
<1>1. step = "execute"
  BY DEF Records!Execute, Records!DDExecute, Records!PetirocExecute, Records!HLDExecute,
         Records!TTreeExecute, Records!TPExecute, Records!UnknownChannel, Records!DRExecute,
         Records!DRSkip, Records!Calling
<1>2. CASE Records!UnknownChannel
  BY <1>1, <1>2 DEF Records!UnknownChannel, Records!file, Records!stream, Same, Idle
<1>3. CASE Records!DRExecute \/ Records!DRSkip
  BY <1>1, <1>3 DEF Records!DRExecute, Records!DRSkip, Records!file, Records!stream, Same, Idle
<1>4. CASE \/ Records!DDExecute \/ Records!PetirocExecute \/ Records!HLDExecute
           \/ Records!TTreeExecute \/ Records!TPExecute
  <2>1. Records!Executed
    BY <1>4 DEF Records!DDExecute, Records!PetirocExecute, Records!HLDExecute,
                Records!TTreeExecute, Records!TPExecute, Records!SetBoth
  <2> QED BY <1>1, <2>1 DEF Records!Executed, Records!file, Records!stream, Same, Idle
<1> QED BY <1>2, <1>3, <1>4 DEF Records!Execute

LEMMA IdleInv ==
  ASSUME RecordsInv, Idle
  PROVE  RecordsInv'
<1> USE DEF RecordsInv
<1>1. Same /\ UNCHANGED <<current_event, delivered, taken, counter, mode>> /\ R' = R
  BY SameRecords DEF Idle
<1>2. R \in Nat /\ (kind \in {"TTree", "DR"} => R = size)
  BY RecordsCounted DEF FileOK
<1>3. FileOK' /\ Counted'
  BY <1>1 DEF FileOK, Counted, Same, Idle, Running, Stopped
<1>4. (step = "execute" /\ loaded' = loaded) \/ step' # "execute"
  BY DEF Idle
<1>5. InOrder'
  BY <1>1, <1>4 DEF InOrder
<1>6. kind' = kind /\ step' # "ended" /\ (step' \in {"setup", "call"} => step = "setup")
  BY <1>1 DEF Idle, Same
<1>7. StreamAt'
  BY <1>1, <1>4, <1>6 DEF StreamAt
<1>8. EntryAt'
  <2>1. step' = "call" /\ kind \in {"TTree", "DR"} => loaded' = Least(1, R) /\ current_event = 0
    BY <1>2, <1>6 DEF Idle, Least, FileOK, Counted
  <2> QED BY <1>1, <1>4, <1>6, <2>1 DEF EntryAt
<1>9. CounterAt'
  <2>1. step' \in Running => step \in Running
    BY DEF Idle, Running
  <2> QED BY <1>1, <1>4, <1>6, <2>1 DEF CounterAt
<1> QED BY <1>3, <1>5, <1>7, <1>8, <1>9

(* A read: the next record is loaded, or the source ends.                  *)
Loads(rec) ==
  /\ Same /\ UNCHANGED <<current_event, delivered>>
  /\ step = "call" /\ step' = "execute" /\ loaded' = rec
Stops ==
  /\ Same /\ UNCHANGED <<current_event, delivered, taken, counter, mode>>
  /\ step = "call" /\ step' = "ended"

LEMMA LoadLoads ==
  ASSUME NEW rec, Records!Asked, Records!Load(rec)
  PROVE  Loads(rec)
BY DEF Records!Asked, Records!Load, Records!file, Loads, Same

LEMMA EndsStops ==
  ASSUME Records!Asked, Records!Ends
  PROVE  Stops
BY DEF Records!Asked, Records!Ends, Records!file, Records!stream, Stops, Same

LEMMA StreamReadInv ==
  ASSUME RecordsInv, kind \in Streaming, Records!Asked, Records!ReadOn
  PROVE  RecordsInv' /\ UNCHANGED delivered
<1> USE DEF RecordsInv
<1>1. /\ taken \in Nat /\ taken <= R /\ taken = current_event /\ R \in Nat
      /\ kind \notin {"TTree", "DR", "TP"}
  BY RecordsCounted DEF StreamAt, Records!Asked, FileOK, Streaming
<1>2. CASE taken < R
  <2>1. Loads(taken + 1) /\ taken' = taken + 1
    BY <1>2, LoadLoads DEF Records!ReadOn, Records!Advance, R
  <2>2. /\ R' = R /\ kind' = kind /\ step = "call" /\ step' = "execute"
        /\ UNCHANGED <<current_event, delivered>> /\ loaded' = taken + 1 /\ Same
    BY <2>1, SameRecords DEF Loads, Same
  <2>3. FileOK' /\ Counted'
    BY <2>2 DEF FileOK, Counted, Same, Running
  <2>4. InOrder'
    BY <1>1, <1>2, <2>2 DEF InOrder, Least
  <2>5. StreamAt'
    BY <1>1, <1>2, <2>1, <2>2 DEF StreamAt
  <2>6. EntryAt' /\ CounterAt'
    BY <1>1, <2>2 DEF EntryAt, CounterAt
  <2> QED BY <2>2, <2>3, <2>4, <2>5, <2>6
<1>3. CASE ~(taken < R)
  <2>1. Stops
    BY <1>3, EndsStops DEF Records!ReadOn, R
  <2>2. /\ R' = R /\ kind' = kind /\ step = "call" /\ step' = "ended"
        /\ UNCHANGED <<current_event, delivered, taken>> /\ Same
    BY <2>1, SameRecords DEF Stops, Same
  <2>3. FileOK' /\ Counted'
    BY <2>2 DEF FileOK, Counted, Same, Stopped
  <2>4. InOrder'
    BY <2>2 DEF InOrder
  <2>5. StreamAt'
    BY <1>1, <1>3, <2>2 DEF StreamAt
  <2>6. EntryAt' /\ CounterAt'
    BY <1>1, <2>2 DEF EntryAt, CounterAt
  <2> QED BY <2>2, <2>3, <2>4, <2>5, <2>6
<1> QED BY <1>2, <1>3

(* TTree ends one event after its last entry, DR does not end.             *)
LEMMA EntryReadInv ==
  ASSUME RecordsInv, Records!TTreeRead \/ Records!DRRead
  PROVE  RecordsInv' /\ UNCHANGED delivered
<1> USE DEF RecordsInv
<1>1. kind \in {"TTree", "DR"} /\ kind \notin Streaming /\ kind # "TP"
      /\ step = "call" /\ Records!Asked
  BY DEF Records!TTreeRead, Records!DRRead, Records!Asked, Streaming
<1>2. /\ R = size /\ R \in Nat /\ current_event \in Nat
      /\ loaded = Least(IF current_event = 0 THEN 1 ELSE current_event, R)
  BY <1>1, RecordsCounted DEF FileOK, Counted, EntryAt
<1>3. PICK rec : rec = IF current_event < size THEN current_event + 1 ELSE loaded
  OBVIOUS
<1>4. rec = Least(current_event + 1, R)
  BY <1>2, <1>3 DEF Least
<1>5. CASE Records!Load(rec) /\ (kind = "TTree" => current_event <= R)
  <2>1. Loads(rec)
    BY <1>1, <1>5, LoadLoads
  <2>2. /\ R' = R /\ kind' = kind /\ step' = "execute" /\ loaded' = rec
        /\ UNCHANGED <<current_event, delivered>> /\ Same
    BY <2>1, SameRecords DEF Loads, Same
  <2>3. FileOK' /\ Counted'
    BY <1>1, <2>2 DEF FileOK, Counted, Same, Running
  <2>4. InOrder'
    BY <1>4, <2>2 DEF InOrder
  <2>5. EntryAt'
    BY <1>5, <2>2 DEF EntryAt
  <2>6. StreamAt' /\ CounterAt'
    BY <1>1, <2>2 DEF StreamAt, CounterAt
  <2> QED BY <2>2, <2>3, <2>4, <2>5, <2>6
<1>6. CASE Records!Ends /\ kind = "TTree" /\ current_event > R
  <2>1. Stops
    BY <1>1, <1>6, EndsStops
  <2>2. /\ R' = R /\ kind' = kind /\ step' = "ended"
        /\ UNCHANGED <<current_event, delivered>> /\ Same
    BY <2>1, SameRecords DEF Stops, Same
  <2>3. FileOK' /\ Counted'
    BY <1>1, <2>2 DEF FileOK, Counted, Same, Stopped
  <2>4. InOrder'
    BY <2>2 DEF InOrder
  <2>5. current_event = R + 1
    BY <1>2, <1>6 DEF EntryAt
  <2>6. EntryAt'
    BY <1>1, <1>6, <2>2, <2>5 DEF EntryAt
  <2>7. StreamAt' /\ CounterAt'
    BY <1>1, <2>2 DEF StreamAt, CounterAt
  <2> QED BY <2>2, <2>3, <2>4, <2>6, <2>7
<1>7. CASE Records!TTreeRead
  BY <1>2, <1>3, <1>5, <1>6, <1>7 DEF Records!TTreeRead
<1>8. CASE Records!DRRead
  BY <1>3, <1>5, <1>8 DEF Records!DRRead
<1> QED BY <1>7, <1>8

(* TP ends with its last entry, or never when there is none.               *)
LEMMA CounterReadInv ==
  ASSUME RecordsInv, Records!TPRead
  PROVE  RecordsInv' /\ UNCHANGED delivered
<1> USE DEF RecordsInv
<1>1. kind = "TP" /\ kind \notin Streaming /\ kind \notin {"TTree", "DR"}
      /\ step = "call" /\ Records!Asked
  BY DEF Records!TPRead, Records!Asked, Streaming
<1>2. /\ R = size /\ R \in Nat /\ current_event \in Nat /\ counter = current_event
      /\ (R # 0 => counter <= R) /\ (mode = "DONE" <=> R # 0 /\ counter = R)
  BY <1>1, RecordsCounted DEF FileOK, Counted, CounterAt, Running
<1>3. CASE mode = "DONE"
  <2>1. Stops
    BY <1>1, <1>3, EndsStops DEF Records!TPRead
  <2>2. /\ R' = R /\ kind' = kind /\ step' = "ended"
        /\ UNCHANGED <<current_event, delivered, counter, mode>> /\ Same
    BY <2>1, SameRecords DEF Stops, Same
  <2>3. FileOK' /\ Counted'
    BY <1>1, <2>2 DEF FileOK, Counted, Same, Stopped
  <2>4. InOrder'
    BY <2>2 DEF InOrder
  <2>5. CounterAt'
    BY <1>1, <1>2, <1>3, <2>2 DEF CounterAt, Running
  <2>6. StreamAt' /\ EntryAt'
    BY <1>1, <2>2 DEF StreamAt, EntryAt
  <2> QED BY <2>2, <2>3, <2>4, <2>5, <2>6
<1>4. CASE mode # "DONE"
  <2>1. PICK rec : rec = IF current_event < size THEN current_event + 1 ELSE 0
    OBVIOUS
  <2>2. Loads(rec) /\ counter' = counter + 1 /\ mode' = IF counter' = size THEN "DONE" ELSE mode
    BY <1>1, <1>4, <2>1, LoadLoads DEF Records!TPRead
  <2>3. /\ R' = R /\ kind' = kind /\ step' = "execute" /\ loaded' = rec
        /\ UNCHANGED <<current_event, delivered>> /\ Same
    BY <2>2, SameRecords DEF Loads, Same
  <2>4. FileOK' /\ Counted'
    BY <1>1, <2>3 DEF FileOK, Counted, Same, Running
  <2>5. rec = Least(current_event + 1, R)
    BY <1>2, <1>4, <2>1 DEF Least
  <2>6. InOrder'
    BY <2>3, <2>5 DEF InOrder
  <2>7. CounterAt'
    <3>1. counter' \in Nat /\ counter' = current_event + 1 /\ (R # 0 => counter' <= R)
      BY <1>2, <1>4, <2>2
    <3>2. mode' = "DONE" <=> R # 0 /\ counter' = R
      BY <1>2, <1>4, <2>2, <3>1
    <3>3. R # 0 => current_event <= R
      BY <1>2
    <3> QED BY <2>3, <3>1, <3>2, <3>3 DEF CounterAt
  <2>8. StreamAt' /\ EntryAt'
    BY <1>1, <2>3 DEF StreamAt, EntryAt
  <2> QED BY <2>3, <2>4, <2>6, <2>7, <2>8
<1> QED BY <1>3, <1>4

LEMMA ReadInv ==
  ASSUME RecordsInv, Records!Read
  PROVE  RecordsInv' /\ UNCHANGED delivered
<1>1. CASE Records!DDRead \/ Records!KSRead \/ Records!PetirocRead \/ Records!HLDRead
  BY <1>1, StreamReadInv DEF Records!DDRead, Records!KSRead, Records!PetirocRead, Records!HLDRead, Streaming
<1>2. CASE Records!TTreeRead \/ Records!DRRead
  BY <1>2, EntryReadInv
<1>3. CASE Records!TPRead
  BY <1>3, CounterReadInv
<1> QED BY <1>1, <1>2, <1>3 DEF Records!Read

(* The event is written and counted.                                       *)
LEMMA EventDoneInv ==
  ASSUME RecordsInv, Records!EventDone
  PROVE  /\ RecordsInv'
         /\ step = "execute" /\ step' = "call" /\ Same
         /\ current_event' = current_event + 1
         /\ delivered'[current_event + 1].record = Least(current_event + 1, R)
         /\ \A e \in 1 .. current_event : delivered'[e] = delivered[e]
<1> USE DEF RecordsInv
<1>1. /\ step = "execute" /\ step' = "call" /\ current_event' = current_event + 1
      /\ delivered' = Append(delivered, [record |-> loaded, raw |-> raw, tracks |-> tracks])
      /\ UNCHANGED <<taken, counter, mode, loaded>> /\ Same
  BY DEF Records!EventDone, Records!file, Records!stream, Same
<1>2. R' = R /\ kind' = kind /\ R \in Nat
  BY <1>1, SameRecords, RecordsCounted DEF Same, FileOK
<1>3. PICK n \in Nat : n = current_event
  BY DEF Counted
<1>4. PICK x, t : x = [record |-> loaded, raw |-> raw, tracks |-> tracks] /\ t = delivered'
  OBVIOUS
<1>5. /\ t = [k \in 1 .. n + 1 |-> t[k]] /\ t[n + 1] = x
      /\ \A k \in 1 .. n : t[k] = delivered[k]
  BY <1>1, <1>3, <1>4, AppendAny DEF Counted
<1>6. loaded = Least(n + 1, R) /\ x.record = Least(n + 1, R)
  BY <1>1, <1>3, <1>4 DEF InOrder
<1>7. FileOK' /\ Counted'
  BY <1>1, <1>3, <1>4, <1>5 DEF FileOK, Counted, Same, Running
<1>8. InOrder'
  <2>1. \A e \in 1 .. n + 1 : t[e].record = Least(e, R)
    <3>1. \A e \in 1 .. n + 1 : e \in 1 .. n \/ e = n + 1
      OBVIOUS
    <3> QED BY <1>3, <1>5, <1>6, <3>1 DEF InOrder
  <2> QED BY <1>1, <1>2, <1>3, <1>4, <2>1 DEF InOrder
<1>9. StreamAt'
  BY <1>1, <1>2, <1>3 DEF StreamAt
<1>10. EntryAt'
  BY <1>1, <1>2, <1>3, <1>6 DEF EntryAt
<1>11. CounterAt'
  BY <1>1, <1>2, <1>3 DEF CounterAt, Running
<1> QED BY <1>1, <1>3, <1>4, <1>5, <1>6, <1>7, <1>8, <1>9, <1>10, <1>11
-----------------------------------------------------------------------------
(* Part 10: the theorems.                                                  *)
allVars == <<vars, records>>

LEMMA SetupIsIdle ==
  ASSUME NEW u, NEW addr, Records!AddUnpacker(u, addr) \/ Records!AddUnpackerAborts(addr)
  PROVE  Idle
BY DEF Records!AddUnpacker, Records!AddUnpackerAborts, Records!file, Records!stream, Same, Idle

LEMMA LimitIsIdle ==
  ASSUME Records!LimitReached
  PROVE  Idle
BY DEF Records!LimitReached, Records!file, Records!stream, Same, Idle

(* A step of a source with a record per event.                             *)
LEMMA RecordsNextCases ==
  ASSUME Records!Next
  PROVE  Idle \/ Records!Read \/ Records!EventDone
BY SetupIsIdle, LimitIsIdle, OpenIsIdle, ExecuteIsIdle DEF Records!Next

LEMMA StutterInv ==
  ASSUME Inv, UNCHANGED records
  PROVE  Inv'
<1> USE DEF records
<1>1. R' = R /\ kind' = kind
  BY DEF R, Records!Records, Records!BlocksOf
<1>2. NoRecords => NoRecords'
  BY DEF NoRecords
<1>3. ASSUME RecordsInv PROVE RecordsInv'
  <2> USE <1>1, <1>3 DEF RecordsInv
  <2>1. FileOK' /\ Counted' /\ InOrder'
    BY DEF FileOK, Counted, InOrder
  <2>2. StreamAt' /\ EntryAt' /\ CounterAt'
    BY DEF StreamAt, EntryAt, CounterAt
  <2> QED BY <2>1, <2>2
<1> QED BY <1>1, <1>2, <1>3 DEF Inv

LEMMA NextInv ==
  ASSUME Inv, [SourcesNext]_allVars
  PROVE  Inv'
<1>1. CASE UNCHANGED records
  BY <1>1, StutterInv
<1>2. CASE RecordsNext
  <2>1. RecordsInv /\ kind # "none"
    BY <1>2 DEF RecordsNext, Inv
  <2>2. RecordsInv'
    BY <1>2, <2>1, RecordsNextCases, IdleInv, ReadInv, EventDoneInv DEF RecordsNext
  <2>3. kind' # "none"
    BY <2>2, KindsAre DEF RecordsInv, FileOK
  <2> QED BY <2>2, <2>3 DEF Inv
<1> QED BY <1>1, <1>2 DEF SourcesNext, LinesNext, allVars

(* Whatever the source, its counters agree with what it has delivered.     *)
THEOREM InvCorrect == SourcesSpec => []Inv
<1>1. SourcesInit => Inv
  BY InitInv
<1>2. Inv /\ [SourcesNext]_<<vars, records>> => Inv'
  BY NextInv DEF allVars
<1> QED BY <1>1, <1>2, PTL DEF SourcesSpec

(* Each source with a record per event answers false when its last record  *)
(* has been delivered; TTree one event later, TP without entries and DR    *)
(* never.                                                                  *)
THEOREM EndsCorrect == SourcesSpec => []EndsAfterLastRecord
<1>1. Inv => EndsAfterLastRecord
  <2> SUFFICES ASSUME Inv, kind # "none" PROVE Records!EndsAfterLastRecord
    BY DEF EndsAfterLastRecord
  <2> USE DEF Inv, RecordsInv
  <2>1. R \in Nat /\ current_event \in Nat /\ Len(delivered) = current_event
    BY RecordsCounted DEF FileOK, Counted
  <2>2. kind \in Streaming \/ kind \in {"TTree", "DR"} \/ kind = "TP"
    BY KindsAre DEF FileOK
  <2>3. step = "ended" => current_event = IF kind = "TTree" THEN R + 1 ELSE R
    BY <2>2 DEF StreamAt, EntryAt, CounterAt, Streaming
  <2>4. current_event > R => kind \in {"TTree", "DR"} \/ (kind = "TP" /\ R = 0)
    BY <2>1, <2>2 DEF StreamAt, CounterAt
  <2>5. \A e \in R + 1 .. current_event : delivered[e].record = R
    BY <2>1 DEF InOrder, Least
  <2> QED BY <2>1, <2>3, <2>4, <2>5 DEF Records!EndsAfterLastRecord, R
<1> QED BY <1>1, InvCorrect, PTL

(* Each of them implements RecordStream.                                   *)
LEMMA DeliveredIs ==
  ASSUME RecordsInv
  PROVE  /\ Records!Delivered = Least(current_event, R)
         /\ R \in Nat /\ current_event \in Nat /\ Records!Delivered \in Nat
<1>1. R \in Nat /\ current_event \in Nat /\ Len(delivered) = current_event
  BY RecordsCounted DEF RecordsInv, FileOK, Counted
<1> QED BY <1>1 DEF Records!Delivered, R, Least

LEMMA EventDoneStream ==
  ASSUME RecordsInv, Records!EventDone
  PROVE  [Records!Stream!StreamNext]_(Records!Stream!streamVars)
<1>1. /\ step = "execute" /\ step' = "call" /\ R' = R /\ RecordsInv'
      /\ current_event' = current_event + 1
      /\ delivered'[current_event + 1].record = Least(current_event + 1, R)
      /\ \A e \in 1 .. current_event : delivered'[e] = delivered[e]
  BY EventDoneInv, SameRecords
<1>2. PICK r \in Nat, n \in Nat : r = R /\ n = current_event
  BY DeliveredIs
<1>3. Records!Delivered = Least(n, r) /\ Records!Delivered' = Least(n + 1, r)
  <2>1. Records!Delivered = Least(n, r)
    BY <1>2, DeliveredIs
  <2>2. delivered' = [e \in 1 .. n + 1 |-> delivered'[e]]
    BY <1>1, <1>2 DEF RecordsInv, Counted
  <2>3. Len(delivered') = n + 1 /\ Records!Records' = r
    BY <1>1, <1>2, <2>2 DEF R
  <2>4. Records!Delivered' = Least(n + 1, r)
    BY <1>2, <2>3 DEF Records!Delivered, Least
  <2> QED BY <2>1, <2>4
<1>4. PICK b, c : /\ b = [e \in 1 .. Records!Delivered |-> <<delivered[e].record>>]
                  /\ c = [e \in 1 .. Records!Delivered' |-> <<delivered'[e].record>>]
  OBVIOUS
<1>5. CASE n < r
  <2>1. Records!Delivered = n /\ Records!Delivered' = n + 1
    BY <1>3, <1>5 DEF Least
  <2>2. c = [e \in 1 .. n + 1 |-> IF e = n + 1 THEN <<n + 1>> ELSE b[e]]
    <3>1. delivered'[n + 1].record = n + 1
      BY <1>1, <1>2, <1>5 DEF Least
    <3>2. \A e \in 1 .. n + 1 : e # n + 1 => e \in 1 .. n
      OBVIOUS
    <3> QED BY <1>1, <1>2, <1>4, <2>1, <3>1, <3>2
  <2>3. c = Append(b, <<n + 1>>)
    <3>1. b = [e \in 1 .. n |-> b[e]]
      BY <1>4, <2>1
    <3>2. PICK t : t = Append(b, <<n + 1>>)
      OBVIOUS
    <3>3. t = [e \in 1 .. n + 1 |-> t[e]] /\ t[n + 1] = <<n + 1>> /\ \A e \in 1 .. n : t[e] = b[e]
      BY <3>1, <3>2, AppendAny
    <3> QED BY <2>2, <3>2, <3>3
  <2>4. [k \in 1 .. 1 |-> n + k] = <<n + 1>>
    OBVIOUS
  <2>5. Records!Stream!Deliver(1)
    BY <1>1, <1>2, <1>4, <1>5, <2>1, <2>3, <2>4 DEF Records!Stream!Deliver, R
  <2>6. 1 \in 1 .. Records!Records - Records!Delivered
    BY <1>2, <1>5, <2>1 DEF R
  <2> QED BY <2>5, <2>6 DEF Records!Stream!StreamNext
<1>6. CASE ~(n < r)
  <2>1. Records!Delivered = r /\ Records!Delivered' = r
    BY <1>3, <1>6 DEF Least
  <2>2. \A e \in 1 .. r : delivered'[e] = delivered[e]
    BY <1>1, <1>2, <1>6
  <2>3. b = c
    BY <1>4, <2>1, <2>2
  <2> QED BY <1>1, <1>2, <1>4, <2>1, <2>3 DEF Records!Stream!streamVars, R
<1> QED BY <1>5, <1>6

LEMMA OtherStream ==
  ASSUME UNCHANGED delivered, R' = R, step \in Running, step' \in Running \cup Stopped
  PROVE  [Records!Stream!StreamNext]_(Records!Stream!streamVars)
<1>1. Records!Delivered' = Records!Delivered
  BY DEF Records!Delivered, R
<1>2. CASE step' \in Running
  BY <1>1, <1>2 DEF Records!Stream!streamVars, R, Running
<1>3. CASE step' \in Stopped
  <2>1. Records!Stream!End
    BY <1>1, <1>3 DEF Records!Stream!End, R, Running, Stopped
  <2> QED BY <2>1 DEF Records!Stream!StreamNext
<1> QED BY <1>2, <1>3

LEMMA StepStream ==
  ASSUME Inv, [SourcesNext]_allVars
  PROVE  [Records!Stream!StreamNext]_(Records!Stream!streamVars)
<1>1. CASE UNCHANGED records
  <2>1. R' = R /\ delivered' = delivered /\ step' = step
    BY <1>1 DEF records, R, Records!Records, Records!BlocksOf
  <2>2. Records!Delivered' = Records!Delivered
    BY <2>1 DEF Records!Delivered, R
  <2> QED BY <2>1, <2>2 DEF Records!Stream!streamVars, R
<1>2. CASE RecordsNext
  <2>1. RecordsInv /\ RecordsInv' /\ Records!Next
    <3>1. RecordsInv /\ Records!Next
      BY <1>2 DEF RecordsNext, Inv
    <3> QED BY <3>1, RecordsNextCases, IdleInv, ReadInv, EventDoneInv
  <2>2. CASE Records!EventDone
    BY <2>1, <2>2, EventDoneStream
  <2>3. CASE Idle
    <3>1. R' = R /\ UNCHANGED delivered /\ step \in Running
      BY <2>3, SameRecords DEF Idle, Running
    <3> QED BY <2>1, <3>1, OtherStream DEF RecordsInv, Counted
  <2>4. CASE Records!Read
    <3>1. UNCHANGED delivered
      BY <2>1, <2>4, ReadInv
    <3>2. Same /\ step \in Running
      BY <2>4 DEF Records!Read, Records!DDRead, Records!KSRead, Records!PetirocRead,
                  Records!HLDRead, Records!TTreeRead, Records!TPRead, Records!DRRead,
                  Records!ReadOn, Records!Load, Records!Ends, Records!Asked, Records!file,
                  Same, Running
    <3>3. R' = R
      BY <3>2, SameRecords
    <3> QED BY <2>1, <3>1, <3>2, <3>3, OtherStream DEF RecordsInv, Counted
  <2> QED BY <2>1, <2>2, <2>3, <2>4, RecordsNextCases
<1> QED BY <1>1, <1>2 DEF SourcesNext, LinesNext, allVars

THEOREM RecordsImplementStream == SourcesSpec => RecordsDeliverStream
<1>1. SourcesInit => Records!Stream!StreamInit
  <2>1. SUFFICES ASSUME SourcesInit PROVE Records!Stream!StreamInit
    OBVIOUS
  <2>2. step = "setup" /\ delivered = <<>>
    BY <2>1 DEF SourcesInit, NoRecords, Records!Init
  <2>3. size \in Nat
    <3>1. CASE NoRecords
      BY <3>1 DEF NoRecords
    <3>2. CASE Records!Init
      <4>1. kind \in Kinds /\ size \in Sizes[kind]
        BY <3>2 DEF Records!Init
      <4> QED BY <4>1, SizesAssumption
    <3> QED BY <2>1, <3>1, <3>2 DEF SourcesInit
  <2>4. Records!Records \in Nat
    BY <2>3, RecordsCounted DEF R
  <2>5. Records!Delivered = 0
    BY <2>2, <2>4 DEF Records!Delivered
  <2> QED BY <2>2, <2>4, <2>5 DEF Records!Stream!StreamInit
<1>2. Inv /\ [SourcesNext]_<<vars, records>> =>
        [Records!Stream!StreamNext]_(Records!Stream!streamVars)
  BY StepStream DEF allVars
<1> QED BY <1>1, <1>2, InvCorrect, PTL
     DEF SourcesSpec, RecordsDeliverStream, Records!DeliversStream, Records!Stream!StreamSpec
-----------------------------------------------------------------------------
(* Part 11: the calls of execute for a record.  A finite set of numbers in *)
(* its order has all of its elements.                                      *)
Below(S, x) == Cardinality({y \in S : y < x})

(* How many numbers of S are below p tells p from the others.              *)
LEMMA BelowIsNumber ==
  ASSUME NEW S \in SUBSET Nat, IsFiniteSet(S), NEW p \in S
  PROVE  Below(S, p) \in 0 .. Cardinality(S) - 1
<1> DEFINE A == {y \in S : y < p}
<1>1. A \in SUBSET S /\ p \notin A
  OBVIOUS
<1>2. IsFiniteSet(A) /\ Cardinality(A) <= Cardinality(S) /\ Cardinality(A) # Cardinality(S)
  BY <1>1, FS_Subset
<1>3. Cardinality(A) \in Nat /\ Cardinality(S) \in Nat
  BY <1>2, FS_CardinalityType
<1> QED BY <1>2, <1>3 DEF Below

LEMMA BelowGrows ==
  ASSUME NEW S \in SUBSET Nat, IsFiniteSet(S), NEW p \in S, NEW q \in S, p < q
  PROVE  Below(S, p) # Below(S, q)
<1> DEFINE A == {y \in S : y < p}
           B == {y \in S : y < q}
<1>1. A \in SUBSET B /\ p \in B /\ p \notin A /\ B \in SUBSET S
  <2>1. \A y \in S : y < p => y < q
    OBVIOUS
  <2>2. ~(p < p)
    OBVIOUS
  <2> QED BY <2>1, <2>2
<1>2. IsFiniteSet(B)
  BY <1>1, FS_Subset
<1>3. Cardinality(A) # Cardinality(B)
  BY <1>1, <1>2, FS_Subset
<1> QED BY <1>3 DEF Below

(* RecordSource has these operators from the same modules.                 *)
LEMMA SameOperators ==
  /\ \A S : Records!Cardinality(S) = Cardinality(S)
  /\ \A s : Records!FlattenSeq(s) = FlattenSeq(s)
BY Zenon DEF Records!Cardinality, Cardinality, Records!FlattenSeq, FlattenSeq

LEMMA AscendingHas ==
  ASSUME NEW S \in SUBSET Nat, IsFiniteSet(S)
  PROVE  Records!Ascending(S) \in Seq(S) /\ ToSet(Records!Ascending(S)) = S
<1> DEFINE n == Cardinality(S)
           T == 0 .. n - 1
           f == [p \in S |-> Below(S, p)]
           s == Records!Ascending(S)
<1>1. n \in Nat
  BY FS_CardinalityType
<1>2. IsFiniteSet(T) /\ Cardinality(T) = n
  <2>1. 0 \in Int /\ n - 1 \in Int
    BY <1>1
  <2> QED BY <1>1, <2>1, FS_Interval
<1>3. \A p, q \in S : Below(S, p) = Below(S, q) => p = q
  <2> SUFFICES ASSUME NEW p \in S, NEW q \in S, p # q PROVE Below(S, p) # Below(S, q)
    OBVIOUS
  <2>1. p < q \/ q < p
    OBVIOUS
  <2> QED BY <2>1, BelowGrows
<1>4. f \in Injection(S, T)
  <2>1. f \in [S -> T]
    BY BelowIsNumber
  <2> QED BY <1>3, <2>1, Fun_IsInj
<1>5. f \in Surjection(S, T)
  <2>1. Cardinality(S) = Cardinality(T)
    BY <1>2
  <2> HIDE DEF T, f, n
  <2> QED BY <1>2, <1>4, <2>1, FS_Injection
<1>6. \A t \in T : \E p \in S : Below(S, p) = t
  BY <1>5 DEF Surjection
<1>7. s = [k \in 1 .. n |-> CHOOSE x \in S : Below(S, x) = k - 1]
  BY Zenon DEF Records!Ascending, Below, Records!Cardinality, Cardinality
<1>8. ASSUME NEW k \in 1 .. n PROVE s[k] \in S /\ Below(S, s[k]) = k - 1
  <2>1. k - 1 \in T
    BY <1>1
  <2>2. \E x \in S : Below(S, x) = k - 1
    BY <1>6, <2>1
  <2>3. s[k] = CHOOSE x \in S : Below(S, x) = k - 1
    BY <1>7
  <2> QED BY <2>2, <2>3
<1> HIDE DEF s
<1>9. s \in Seq(S) /\ DOMAIN s = 1 .. n
  BY <1>1, <1>7, <1>8
<1>10. ASSUME NEW x \in S PROVE \E k \in 1 .. n : s[k] = x
  <2>1. Below(S, x) \in T
    BY BelowIsNumber
  <2>2. Below(S, x) + 1 \in 1 .. n /\ (Below(S, x) + 1) - 1 = Below(S, x)
    BY <1>1, <2>1
  <2>3. s[Below(S, x) + 1] \in S /\ Below(S, s[Below(S, x) + 1]) = Below(S, x)
    BY <1>8, <2>2
  <2>4. s[Below(S, x) + 1] = x
    BY <1>3, <2>3
  <2> QED BY <2>2, <2>4
<1> QED BY <1>8, <1>9, <1>10 DEF ToSet, s

(* Induction, for a set of numbers.                                        *)
LEMMA NatIsIn ==
  ASSUME NEW S, 0 \in S, \A n \in Nat : n \in S => n + 1 \in S
  PROVE  Nat \subseteq S
<1> SUFFICES ASSUME NEW bad \in Nat, bad \notin S PROVE FALSE
  OBVIOUS
<1>1. IsWellFoundedOn(OpToRel(<, Nat), Nat)
  BY NatLessThanWellFounded
<1> DEFINE T == Nat \ S
<1>2. T \subseteq Nat /\ T # {}
  OBVIOUS
<1>3. PICK x \in T : \A y \in T : ~(<<y, x>> \in OpToRel(<, Nat))
  <2> HIDE DEF T
  <2> QED BY <1>1, <1>2, WFMin
<1>4. x \in Nat /\ x # 0
  OBVIOUS
<1>5. x - 1 \in Nat /\ x - 1 < x /\ (x - 1) + 1 = x
  BY <1>4
<1>6. x - 1 \in T
  BY <1>4, <1>5
<1> QED BY <1>3, <1>5, <1>6 DEF OpToRel

LEMMA ConcatHas ==
  ASSUME NEW V, NEW s \in Seq(V), NEW t \in Seq(V)
  PROVE  s \o t \in Seq(V) /\ ToSet(s \o t) = ToSet(s) \cup ToSet(t)
<1>1. /\ s \o t \in Seq(V) /\ Len(s \o t) = Len(s) + Len(t)
      /\ \A i \in 1 .. Len(s) : (s \o t)[i] = s[i]
      /\ \A i \in 1 .. Len(t) : (s \o t)[Len(s) + i] = t[i]
      /\ Len(s) \in Nat /\ Len(t) \in Nat
  BY ConcatProperties
<1>2. DOMAIN s = 1 .. Len(s) /\ DOMAIN t = 1 .. Len(t) /\ DOMAIN (s \o t) = 1 .. Len(s) + Len(t)
  BY <1>1, LenProperties
<1> DEFINE u == s \o t
           m == Len(s)
           n == Len(t)
<1>3. /\ m \in Nat /\ n \in Nat /\ DOMAIN s = 1 .. m /\ DOMAIN t = 1 .. n /\ DOMAIN u = 1 .. m + n
      /\ \A i \in 1 .. m : u[i] = s[i]
      /\ \A i \in 1 .. n : u[m + i] = t[i]
  BY <1>1, <1>2
<1> HIDE DEF u, m, n
<1>4. \A i \in 1 .. m + n : i \in 1 .. m \/ (i - m \in 1 .. n /\ i = m + (i - m))
  BY <1>3
<1>5. (\A i \in 1 .. m : i \in 1 .. m + n) /\ (\A i \in 1 .. n : m + i \in 1 .. m + n)
  BY <1>3
<1>6. ToSet(u) \subseteq ToSet(s) \cup ToSet(t)
  <2> SUFFICES ASSUME NEW i \in 1 .. m + n PROVE u[i] \in ToSet(s) \cup ToSet(t)
    BY <1>3 DEF ToSet
  <2> QED BY <1>3, <1>4 DEF ToSet
<1>7. ToSet(s) \cup ToSet(t) \subseteq ToSet(u)
  <2>1. ASSUME NEW i \in 1 .. m PROVE s[i] \in ToSet(u)
    BY <1>3, <1>5 DEF ToSet
  <2>2. ASSUME NEW i \in 1 .. n PROVE t[i] \in ToSet(u)
    BY <1>3, <1>5 DEF ToSet
  <2> QED BY <1>3, <2>1, <2>2 DEF ToSet
<1> QED BY <1>1, <1>6, <1>7 DEF u

(* Sequences one after the other have the elements of all.                 *)
LEMMA FlattenHas ==
  ASSUME NEW V, NEW seqs \in Seq(Seq(V))
  PROVE  /\ FlattenSeq(seqs) \in Seq(V)
         /\ ToSet(FlattenSeq(seqs)) = UNION {ToSet(seqs[k]) : k \in 1 .. Len(seqs)}
<1> DEFINE n == Len(seqs)
           Body(f, i) == IF i = 1 THEN seqs[i] ELSE f[i - 1] \o seqs[i]
           flat == CHOOSE f : f = [i \in 1 .. n |-> Body(f, i)]
           Partly(f, m) == /\ f \in [1 .. m -> Seq(V)]
                         /\ \A i \in 1 .. m : f[i] = Body(f, i)
           S == {m \in Nat : m <= n => \E f : Partly(f, m)}
           Has(m) == UNION {ToSet(seqs[k]) : k \in 1 .. m}
<1>1. n \in Nat /\ \A i \in 1 .. n : seqs[i] \in Seq(V)
  OBVIOUS
<1>2. CASE n = 0
  <2>1. seqs = <<>> /\ FlattenSeq(seqs) = <<>>
    BY <1>2 DEF FlattenSeq
  <2>2. ToSet(<<>>) = {} /\ 1 .. 0 = {}
    BY DEF ToSet
  <2>3. <<>> \in Seq(V)
    OBVIOUS
  <2>4. Has(n) = {}
    BY <1>2, <2>2
  <2> QED BY <2>1, <2>2, <2>3, <2>4
<1>3. CASE n # 0
  <2>1. 0 \in S
    <3>1. 1 .. 0 = {}
      OBVIOUS
    <3>2. [i \in 1 .. 0 |-> <<>>] \in [1 .. 0 -> Seq(V)]
      BY <3>1
    <3>3. Partly([i \in 1 .. 0 |-> <<>>], 0)
      BY <3>1, <3>2
    <3> HIDE DEF Partly
    <3> QED BY <3>3
  <2>2. ASSUME NEW m \in Nat, m \in S PROVE m + 1 \in S
    <3> HIDE DEF Partly, n
    <3> SUFFICES ASSUME m + 1 <= n PROVE \E f : Partly(f, m + 1)
      OBVIOUS
    <3>0. m <= n
      BY <1>1
    <3>1. PICK f : Partly(f, m)
      BY <2>2, <3>0
    <3> USE DEF Partly, n
    <3> DEFINE g == [i \in 1 .. m + 1 |-> IF i = m + 1 THEN Body(f, i) ELSE f[i]]
    <3>2. seqs[m + 1] \in Seq(V)
      BY <1>1
    <3>3. Body(f, m + 1) \in Seq(V)
      <4>1. CASE m = 0
        BY <3>2, <4>1
      <4>2. CASE m # 0
        <5>1. m \in 1 .. m /\ (m + 1) - 1 = m /\ m + 1 # 1
          BY <4>2
        <5>2. f[m] \in Seq(V)
          BY <3>1, <5>1
        <5>3. f[m] \o seqs[m + 1] \in Seq(V)
          BY <3>2, <5>2
        <5> QED BY <5>1, <5>3
      <4> QED BY <4>1, <4>2
    <3> HIDE DEF Body
    <3>4. g \in [1 .. m + 1 -> Seq(V)]
      BY <3>1, <3>3
    <3>5. ASSUME NEW i \in 1 .. m + 1 PROVE g[i] = Body(g, i)
      <4>1. g[i] = Body(f, i)
        BY <3>1
      <4>2. i = 1 \/ (i - 1 \in 1 .. m + 1 /\ i - 1 # m + 1 /\ g[i - 1] = f[i - 1])
        OBVIOUS
      <4> HIDE DEF g
      <4> QED BY <4>1, <4>2 DEF Body
    <3> HIDE DEF g
    <3>6. Partly(g, m + 1)
      BY <3>4, <3>5
    <3> HIDE DEF Partly
    <3> QED BY <3>6
  <2> HIDE DEF S, Body
  <2>3. n \in S
    BY <1>1, <2>1, <2>2, NatIsIn
  <2>4. PICK f : Partly(f, n)
    BY <1>1, <2>3 DEF S
  <2>5. f = [i \in 1 .. n |-> Body(f, i)]
    BY <2>4
  <2>6. flat = [i \in 1 .. n |-> Body(flat, i)]
    BY <2>5
  <2>7. FlattenSeq(seqs) = flat[n]
    BY <1>3 DEF FlattenSeq, Body
  <2> HIDE DEF flat
  <2> DEFINE T == {m \in Nat : m \in 1 .. n => flat[m] \in Seq(V) /\ ToSet(flat[m]) = Has(m)}
  <2>8. 0 \in T
    OBVIOUS
  <2>9. ASSUME NEW m \in Nat, m \in T PROVE m + 1 \in T
    <3> SUFFICES ASSUME m + 1 \in 1 .. n
                 PROVE  flat[m + 1] \in Seq(V) /\ ToSet(flat[m + 1]) = Has(m + 1)
      OBVIOUS
    <3>1. flat[m + 1] = Body(flat, m + 1) /\ seqs[m + 1] \in Seq(V)
      BY <1>1, <2>6
    <3>2. Has(m + 1) = Has(m) \cup ToSet(seqs[m + 1])
      <4>1. 1 .. m + 1 = (1 .. m) \cup {m + 1}
        OBVIOUS
      <4> QED BY <4>1, Zenon
    <3> HIDE DEF Has
    <3>3. CASE m = 0
      <4>1. flat[m + 1] = seqs[m + 1]
        BY <3>1, <3>3 DEF Body
      <4>2. 1 .. 0 = {}
        OBVIOUS
      <4>3. Has(m) = {}
        BY <3>3, <4>2 DEF Has
      <4> QED BY <3>1, <3>2, <4>1, <4>3
    <3>4. CASE m # 0
      <4>1. m \in 1 .. n /\ (m + 1) - 1 = m /\ m + 1 # 1
        BY <1>1, <3>4
      <4>2. flat[m] \in Seq(V) /\ ToSet(flat[m]) = Has(m)
        BY <2>9, <4>1
      <4>3. /\ flat[m] \o seqs[m + 1] \in Seq(V)
            /\ ToSet(flat[m] \o seqs[m + 1]) = Has(m) \cup ToSet(seqs[m + 1])
        BY <3>1, <4>2, ConcatHas
      <4> QED BY <3>1, <3>2, <4>1, <4>3 DEF Body
    <3> QED BY <3>3, <3>4
  <2> HIDE DEF T
  <2>10. n \in T /\ n \in 1 .. n
    <3>1. Nat \subseteq T
      BY <2>8, <2>9, NatIsIn
    <3> HIDE DEF n
    <3> QED BY <1>1, <1>3, <3>1
  <2> QED BY <2>7, <2>10 DEF T
<1> QED BY <1>2, <1>3
-----------------------------------------------------------------------------
(* Part 12: what the calls that are made leave in the category.  A record  *)
(* is that of a source of kind k, r its number, A the addresses called.    *)
HitsIn(k, record) ==
  CASE k = "HLD" -> 1 .. record.hits
    [] k = "DR" -> record.lit
    [] OTHER -> {1}
CallsOf(k, record, A) == [address : A, hit : HitsIn(k, record)]

(* The sides of fibre f that the calls of D set.                           *)
SetBy(k, record, D, f) ==
  CASE k \in {"DD", "KS"} -> {Lookup[x.address].side : x \in {y \in D : Records!FiberIs(y.address, f)}}
    [] k \in {"Petiroc", "HLD"} -> IF D # {} /\ Records!FiberIs(0, f) THEN Sides ELSE {}
    [] k = "TTree" -> IF D # {} /\ Records!FiberIs(record.channel, f) THEN Sides ELSE {}
    [] k = "TP" ->
         IF D # {} /\ Records!FiberIs(record.channel, f) THEN {Lookup[record.channel].side} ELSE {}
    [] k = "DR" ->
         {Records!Side(x.hit) : x \in {y \in D : y.hit % Fold = f /\ f \in record.located}}

Other(k) == IF k = "TP" THEN -100 ELSE 0
Filled(k, sides, r) ==
  IF sides = {} THEN None ELSE [s \in Sides |-> IF s \in sides THEN r ELSE Other(k)]
RawOf(k, record, r, D) == [f \in 0 .. Fold - 1 |-> Filled(k, SetBy(k, record, D, f), r)]

(* Whether one of the calls of D has a fibre that is located.              *)
Usable(record, D) == \E x \in D : x.hit % Fold \in record.located
TracksOf(k, record, r, D) == IF k = "DR" /\ Usable(record, D) THEN <<r>> ELSE <<>>

Started == step \notin {"setup", "notopen", "aborted"}
ContentOK == content \in [0 .. R -> Contents[kind]]
Listening ==
  IF Started THEN Records!Called # {} /\ Records!Called \subseteq Addresses
  ELSE current_event = 0

(* Between two calls of execute: the calls made and those to be made are   *)
(* all calls of the record.                                                *)
MadeBy(k, record, r, A, todos, rw, tr, ki) ==
  \E D \in SUBSET CallsOf(k, record, A) :
    /\ todos \in Seq(CallsOf(k, record, A))
    /\ D \cup ToSet(todos) = CallsOf(k, record, A)
    /\ rw = RawOf(k, record, r, D)
    /\ tr = TracksOf(k, record, r, D)
    /\ k = "DR" => ki = IF Usable(record, D) THEN None ELSE r
Executing ==
  step = "execute" => MadeBy(kind, content[loaded], loaded, Records!Called, todo, raw, tracks, kine)

(* An event that is delivered has been made by all calls of its record.    *)
MadeByAll(k, cont, A, event) ==
  LET D == CallsOf(k, cont[event.record], A) IN
  /\ event.raw = RawOf(k, cont[event.record], event.record, D)
  /\ event.tracks = TracksOf(k, cont[event.record], event.record, D)
AllMade == \A e \in 1 .. current_event : MadeByAll(kind, content, Records!Called, delivered[e])

CallsInv == ContentOK /\ Listening /\ Executing /\ AllMade
WholeInv == IF kind = "none" THEN NoRecords ELSE RecordsInv /\ CallsInv

(* What a record can hold.                                                 *)
LEMMA ContentIs ==
  ASSUME RecordsInv, ContentOK, NEW r \in 0 .. R
  PROVE  /\ content[r].channel \in DOMAIN Lookup /\ content[r].hits \in Nat
         /\ content[r].lit \subseteq 0 .. 2 * Fold - 1 /\ content[r].located \subseteq 0 .. Fold - 1
<1>1. content[r] \in Contents[kind] /\ kind \in Kinds
  BY DEF ContentOK, RecordsInv, FileOK
<1>2. content[r] \in [channel : DOMAIN Lookup, hits : Nat, lit : SUBSET (0 .. 2 * Fold - 1),
                      located : SUBSET (0 .. Fold - 1)]
  BY <1>1, ContentsAssumption
<1> QED BY <1>2

(* A channel of the lookup table is a side of a fibre.                     *)
LEMMA LookupIs ==
  ASSUME NEW c \in DOMAIN Lookup, Lookup[c] # None
  PROVE  Lookup[c].fiber \in 0 .. Fold - 1 /\ Lookup[c].side \in Sides
<1>1. Lookup[c] \in [fiber : 0 .. Fold - 1, side : Sides]
  BY LookupAssumption
<1> QED BY <1>1

(* todo is made of the calls of the record, each once in the order.        *)
LEMMA CallsAre ==
  ASSUME RecordsInv, ContentOK, NEW r \in 0 .. R, Records!Called \subseteq Addresses
  PROVE  LET all == CallsOf(kind, content[r], Records!Called) IN
         Records!Calls(r) \in Seq(all) /\ ToSet(Records!Calls(r)) = all
<1> DEFINE A == Records!Called
           H == HitsIn(kind, content[r])
           all == CallsOf(kind, content[r], A)
           addrs == Records!Ascending(A)
           hs == Records!Hits(r)
           blocks == [k \in DOMAIN addrs |-> [h \in DOMAIN hs |-> [address |-> addrs[k], hit |-> hs[h]]]]
<1>1. A \in SUBSET Nat /\ IsFiniteSet(A)
  BY AddressesAssumption, FS_Subset
<1>2. addrs \in Seq(A) /\ ToSet(addrs) = A
  BY <1>1, AscendingHas
<1>3. hs \in Seq(H) /\ ToSet(hs) = H
  <2>1. CASE kind = "HLD"
    <3>1. content[r].hits \in Nat
      BY ContentIs
    <3>2. hs = [h \in 1 .. content[r].hits |-> h] /\ H = 1 .. content[r].hits
      BY <2>1 DEF Records!Hits, HitsIn
    <3> QED BY <3>1, <3>2 DEF ToSet
  <2>2. CASE kind = "DR"
    <3>1. content[r].lit \subseteq 0 .. 2 * Fold - 1
      BY ContentIs
    <3>2. 0 \in Int /\ 2 * Fold - 1 \in Int
      BY FoldAssumption
    <3>3. IsFiniteSet(0 .. 2 * Fold - 1)
      BY <3>2, FS_Interval
    <3>4. content[r].lit \in SUBSET Nat /\ IsFiniteSet(content[r].lit)
      <4>1. content[r].lit \in SUBSET (0 .. 2 * Fold - 1)
        BY <3>1
      <4>2. IsFiniteSet(content[r].lit)
        BY <3>3, <4>1, FS_Subset
      <4>3. 0 .. 2 * Fold - 1 \subseteq Nat
        BY FoldAssumption
      <4> QED BY <4>1, <4>2, <4>3
    <3>5. hs = Records!Ascending(content[r].lit) /\ H = content[r].lit
      BY <2>2 DEF Records!Hits, HitsIn
    <3> QED BY <3>4, <3>5, AscendingHas
  <2>3. CASE kind \notin {"HLD", "DR"}
    <3>1. hs = <<1>> /\ H = {1}
      BY <2>3 DEF Records!Hits, HitsIn
    <3> QED BY <3>1 DEF ToSet
  <2> QED BY <2>1, <2>2, <2>3
<1>4. Records!Calls(r) = FlattenSeq(blocks)
  BY SameOperators DEF Records!Calls
<1> HIDE DEF addrs, hs, A, H
<1>5. PICK m \in Nat, n \in Nat : DOMAIN addrs = 1 .. m /\ DOMAIN hs = 1 .. n
  BY <1>2, <1>3
<1>6. ASSUME NEW k \in 1 .. m
      PROVE  /\ blocks[k] \in Seq(all)
             /\ ToSet(blocks[k]) = {c \in all : c.address = addrs[k]}
  <2>1. addrs[k] \in A
    BY <1>2, <1>5
  <2>2. \A h \in 1 .. n : hs[h] \in H
    BY <1>3, <1>5
  <2>3. blocks[k] = [h \in 1 .. n |-> [address |-> addrs[k], hit |-> hs[h]]]
    BY <1>5
  <2>4. all = [address : A, hit : H]
    BY DEF CallsOf, A, H
  <2>5. blocks[k] \in Seq(all)
    <3>1. \A h \in 1 .. n : [address |-> addrs[k], hit |-> hs[h]] \in all
      BY <2>1, <2>2, <2>4
    <3>2. blocks[k] \in [1 .. n -> all]
      BY <2>3, <3>1
    <3> HIDE DEF blocks, all
    <3> QED BY <3>2
  <2>6. ASSUME NEW c \in all, c.address = addrs[k] PROVE \E h \in 1 .. n : blocks[k][h] = c
    <3>1. c.hit \in H /\ c = [address |-> c.address, hit |-> c.hit]
      BY <2>4
    <3>2. PICK h \in 1 .. n : hs[h] = c.hit
      BY <1>3, <1>5, <3>1 DEF ToSet
    <3> QED BY <2>3, <2>6, <3>1, <3>2
  <2>7. \A h \in 1 .. n : blocks[k][h] \in all /\ blocks[k][h].address = addrs[k]
    BY <2>1, <2>2, <2>3, <2>4
  <2>8. DOMAIN blocks[k] = 1 .. n
    BY <2>3
  <2> HIDE DEF blocks, all
  <2> QED BY <2>5, <2>6, <2>7, <2>8 DEF ToSet
<1>7. blocks \in Seq(Seq(all)) /\ Len(blocks) = m
  <2>1. blocks \in [1 .. m -> Seq(all)]
    BY <1>5, <1>6
  <2> HIDE DEF blocks, all
  <2> QED BY <1>5, <2>1
<1>8. UNION {ToSet(blocks[k]) : k \in 1 .. m} = all
  <2>1. \A c \in all : \E k \in 1 .. m : c.address = addrs[k]
    <3>1. \A c \in all : c.address \in A
      BY DEF CallsOf, A
    <3> QED BY <1>2, <1>5, <3>1 DEF ToSet
  <2> HIDE DEF blocks, all
  <2>2. \A k \in 1 .. m : ToSet(blocks[k]) = {c \in all : c.address = addrs[k]}
    BY <1>6
  <2>3. UNION {ToSet(blocks[k]) : k \in 1 .. m} \subseteq all
    BY <2>2
  <2>4. \A c \in all : \E k \in 1 .. m : c \in ToSet(blocks[k])
    BY <2>1, <2>2
  <2> QED BY <2>3, <2>4
<1> HIDE DEF blocks
<1>9. FlattenSeq(blocks) \in Seq(all) /\ ToSet(FlattenSeq(blocks)) = all
  <2> HIDE DEF all
  <2> QED BY <1>7, <1>8, FlattenHas
<1> QED BY <1>4, <1>9 DEF all, A
-----------------------------------------------------------------------------
(* Part 13: a call adds its sides, whatever the calls before it were.      *)
AllKinds == {"DD", "KS", "Petiroc", "TTree", "TP", "HLD", "DR"}

(* The calls with one more, and the sides of that one.                     *)
After(D, call) == D \cup {call}
SetOne(k, record, call, f) == SetBy(k, record, {call}, f)

(* A call adds its sides and takes none away.                              *)
LEMMA SetByMore ==
  ASSUME NEW k \in AllKinds, NEW record, NEW D, NEW call, NEW f
  PROVE  /\ SetBy(k, record, After(D, call), f) = SetBy(k, record, D, f) \cup SetOne(k, record, call, f)
         /\ SetBy(k, record, {}, f) = {}
<1>1. CASE k \in {"DD", "KS"}
  BY <1>1 DEF SetBy, SetOne, After
<1>2. CASE k \in {"Petiroc", "HLD"}
  BY <1>2 DEF SetBy, SetOne, After
<1>3. CASE k = "TTree"
  BY <1>3 DEF SetBy, SetOne, After
<1>4. CASE k = "TP"
  BY <1>4 DEF SetBy, SetOne, After
<1>5. CASE k = "DR"
  BY <1>5 DEF SetBy, SetOne, After
<1> QED BY <1>1, <1>2, <1>3, <1>4, <1>5 DEF AllKinds

(* The sides that a single call sets.                                      *)
LEMMA SetByOne ==
  ASSUME NEW k \in AllKinds, NEW record, NEW call, NEW f
  PROVE  /\ k \in {"DD", "KS"} =>
              SetOne(k, record, call, f) =
                IF Records!FiberIs(call.address, f) THEN {Lookup[call.address].side} ELSE {}
         /\ k \in {"Petiroc", "HLD"} =>
              SetOne(k, record, call, f) = IF Records!FiberIs(0, f) THEN Sides ELSE {}
         /\ k = "TTree" =>
              SetOne(k, record, call, f) = IF Records!FiberIs(record.channel, f) THEN Sides ELSE {}
         /\ k = "TP" =>
              SetOne(k, record, call, f) =
                IF Records!FiberIs(record.channel, f) THEN {Lookup[record.channel].side} ELSE {}
         /\ k = "DR" =>
              SetOne(k, record, call, f) =
                IF call.hit % Fold = f /\ f \in record.located THEN {Records!Side(call.hit)} ELSE {}
<1>1. CASE k \in {"DD", "KS"}
  BY <1>1 DEF SetBy, SetOne, After
<1>2. CASE k \in {"Petiroc", "HLD"}
  BY <1>2 DEF SetBy, SetOne, After
<1>3. CASE k = "TTree"
  BY <1>3 DEF SetBy, SetOne, After
<1>4. CASE k = "TP"
  BY <1>4 DEF SetBy, SetOne, After
<1>5. CASE k = "DR"
  BY <1>5 DEF SetBy, SetOne, After
<1> QED BY <1>1, <1>2, <1>3, <1>4, <1>5 DEF AllKinds

(* The object of fibre g is rewritten, and the call is about no other.     *)
LEMMA Updated ==
  ASSUME NEW k \in AllKinds, NEW record, NEW r, NEW D, NEW call, NEW g \in 0 .. Fold - 1,
         NEW rw, rw = RawOf(k, record, r, D),
         \A f \in 0 .. Fold - 1 : f # g => SetOne(k, record, call, f) = {}
  PROVE  [rw EXCEPT ![g] = Filled(k, SetBy(k, record, After(D, call), g), r)]
           = RawOf(k, record, r, After(D, call))
<1>1. ASSUME NEW f PROVE
        SetBy(k, record, After(D, call), f) = SetBy(k, record, D, f) \cup SetOne(k, record, call, f)
  <2>1. k \in AllKinds
    OBVIOUS
  <2> QED BY <2>1, SetByMore
<1>2. \A f \in 0 .. Fold - 1 :
        SetBy(k, record, After(D, call), f) = SetBy(k, record, D, f) \cup SetOne(k, record, call, f)
  BY <1>1
<1>3. \A f \in 0 .. Fold - 1 : f # g => SetBy(k, record, After(D, call), f) = SetBy(k, record, D, f)
  BY <1>2
<1> QED BY <1>2, <1>3 DEF RawOf

(* A call that is about no fibre.                                          *)
LEMMA NotUpdated ==
  ASSUME NEW k \in AllKinds, NEW record, NEW r, NEW D, NEW call,
         \A f \in 0 .. Fold - 1 : SetOne(k, record, call, f) = {}
  PROVE  RawOf(k, record, r, After(D, call)) = RawOf(k, record, r, D)
<1>1. \A f \in 0 .. Fold - 1 :
        SetBy(k, record, After(D, call), f) = SetBy(k, record, D, f) \cup SetOne(k, record, call, f)
  BY SetByMore
<1>2. \A f \in 0 .. Fold - 1 : SetBy(k, record, After(D, call), f) = SetBy(k, record, D, f)
  BY <1>1
<1> QED BY <1>2 DEF RawOf

LEMMA Pair ==
  ASSUME NEW a, NEW b
  PROVE  [l |-> a, r |-> b] = [s \in Sides |-> IF s = "l" THEN a ELSE b]
<1> DEFINE x == [l |-> a, r |-> b]
<1>1. x = [s \in DOMAIN x |-> x[s]]
  OBVIOUS
<1>2. DOMAIN x = Sides /\ x["l"] = a /\ x["r"] = b
  BY DEF Sides
<1> HIDE DEF x
<1> QED BY <1>1, <1>2 DEF Sides

LEMMA SamePair == \A a : [l |-> a, r |-> a] = [s \in Sides |-> a]
<1> SUFFICES ASSUME NEW a PROVE [l |-> a, r |-> a] = [s \in Sides |-> a]
  OBVIOUS
<1>1. [l |-> a, r |-> a] = [s \in Sides |-> IF s = "l" THEN a ELSE a]
  BY Pair
<1> QED BY <1>1

(* A fibre without sides has no object, any other has one.                 *)
LEMMA FilledIsObject ==
  ASSUME NEW k, NEW sides, NEW r \in Nat
  PROVE  (Filled(k, sides, r) = None) <=> (sides = {})
<1>1. ASSUME sides # {} PROVE Filled(k, sides, r) # None
  <2>1. Filled(k, sides, r) \in [Sides -> Int]
    BY <1>1 DEF Filled, Other
  <2> QED BY <2>1, NoObjectAssumption
<1> QED BY <1>1 DEF Filled

(* getObject, or a new object with zeros, as the calls before left it.     *)
LEMMA ObjectIs ==
  ASSUME NEW record, NEW D, raw = RawOf(kind, record, loaded, D), loaded \in Nat, kind # "TP",
         NEW g \in 0 .. Fold - 1
  PROVE  Records!Object(g) =
           [s \in Sides |-> IF s \in SetBy(kind, record, D, g) THEN loaded ELSE 0]
<1> DEFINE ss == SetBy(kind, record, D, g)
<1>1. raw[g] = Filled(kind, ss, loaded)
  BY DEF RawOf
<1>2. Other(kind) = 0
  BY DEF Other
<1> HIDE DEF ss
<1>3. CASE ss = {}
  <2>1. raw[g] = None
    BY <1>1, <1>3 DEF Filled
  <2>2. Records!Object(g) = [s \in Sides |-> 0]
    BY <2>1, SamePair DEF Records!Object
  <2> QED BY <1>3, <2>2 DEF ss
<1>4. CASE ss # {}
  <2>1. raw[g] # None
    BY <1>1, <1>4, FilledIsObject, Zenon
  <2>2. raw[g] = [s \in Sides |-> IF s \in ss THEN loaded ELSE 0]
    BY <1>1, <1>2, <1>4 DEF Filled
  <2> QED BY <2>1, <2>2 DEF Records!Object, ss
<1> QED BY <1>3, <1>4

(* The step of each unpacker, given the calls D before it.                 *)
LEMMA SamplesAdd ==
  ASSUME Records!DDExecute, NEW record, NEW D, raw = RawOf(kind, record, loaded, D), loaded \in Nat,
         Head(todo).address \in DOMAIN Lookup
  PROVE  raw' = RawOf(kind, record, loaded, After(D, Head(todo)))
<1> DEFINE c == Head(todo)
           lc == Lookup[c.address]
           g == lc.fiber
           ss == SetBy(kind, record, D, g)
<1>1. kind \in {"DD", "KS"} /\ kind \in AllKinds /\ kind # "TP"
  BY DEF Records!DDExecute, Records!Calling, AllKinds
<1>2. lc # None /\ raw' = [raw EXCEPT ![g] = [Records!Object(g) EXCEPT ![lc.side] = loaded]]
  BY <1>1 DEF Records!DDExecute, Records!Channel, Records!SetSides
<1>3. g \in 0 .. Fold - 1 /\ lc.side \in Sides
  BY <1>2, LookupIs
<1>4. \A f : SetOne(kind, record, c, f) = IF f = g THEN {lc.side} ELSE {}
  BY <1>1, <1>2, SetByOne DEF Records!FiberIs
<1>5. Records!Object(g) = [s \in Sides |-> IF s \in ss THEN loaded ELSE 0]
  BY <1>1, <1>3, ObjectIs
<1> DEFINE after == SetBy(kind, record, After(D, c), g)
<1>6. after = ss \cup SetOne(kind, record, c, g)
  BY <1>1, SetByMore
<1> HIDE DEF ss, g, lc, c, after
<1>7. after = ss \cup {lc.side}
  BY <1>4, <1>6
<1>8. Filled(kind, after, loaded) = [s \in Sides |-> IF s \in after THEN loaded ELSE 0]
  BY <1>1, <1>7 DEF Filled, Other
<1>9. [Records!Object(g) EXCEPT ![lc.side] = loaded] = Filled(kind, after, loaded)
  BY <1>3, <1>5, <1>8, <1>7
<1>10. raw' = [raw EXCEPT ![g] = Filled(kind, SetBy(kind, record, After(D, c), g), loaded)]
  BY <1>2, <1>9 DEF after
<1>11. \A f \in 0 .. Fold - 1 : f # g => SetOne(kind, record, c, f) = {}
  BY <1>4
<1>12. kind \in AllKinds /\ g \in 0 .. Fold - 1 /\ raw = RawOf(kind, record, loaded, D)
  BY <1>1, <1>3
<1>13. [raw EXCEPT ![g] = Filled(kind, SetBy(kind, record, After(D, c), g), loaded)]
         = RawOf(kind, record, loaded, After(D, c))
  BY <1>11, <1>12, Updated
<1> QED BY <1>10, <1>13 DEF c

LEMMA BothAdd ==
  ASSUME Records!SetBoth, kind \in {"Petiroc", "HLD", "TTree"}, NEW D,
         raw = RawOf(kind, content[loaded], loaded, D), loaded \in Nat,
         content[loaded].channel \in DOMAIN Lookup
  PROVE  raw' = RawOf(kind, content[loaded], loaded, After(D, Head(todo)))
<1> DEFINE record == content[loaded]
           c == Head(todo)
           ch == IF kind = "TTree" THEN record.channel ELSE 0
           lc == Lookup[ch]
           g == lc.fiber
           ss == SetBy(kind, record, D, g)
<1>1. kind \in AllKinds /\ Records!Channel(c) = ch
  BY DEF AllKinds, Records!Channel
<1>2. lc # None /\ raw' = [raw EXCEPT ![g] = [l |-> loaded, r |-> loaded]]
  BY <1>1 DEF Records!SetBoth, Records!SetSides
<1>3. g \in 0 .. Fold - 1
  <2>1. 0 \in DOMAIN Lookup
    BY LookupAssumption
  <2> QED BY <1>2, <2>1, LookupIs
<1>4. \A f : SetOne(kind, record, c, f) = IF f = g THEN Sides ELSE {}
  <2>1. \A f : SetOne(kind, record, c, f) = IF Records!FiberIs(ch, f) THEN Sides ELSE {}
    <3> HIDE DEF c, record
    <3>1. CASE kind = "TTree"
      BY <1>1, <3>1, SetByOne
    <3>2. CASE kind \in {"Petiroc", "HLD"}
      BY <1>1, <3>2, SetByOne
    <3> QED BY <3>1, <3>2
  <2> QED BY <1>2, <2>1 DEF Records!FiberIs
<1> DEFINE after == SetBy(kind, record, After(D, c), g)
<1>5. after = ss \cup SetOne(kind, record, c, g)
  BY <1>1, SetByMore
<1> HIDE DEF ss, g, lc, c, ch, after
<1>6. Filled(kind, after, loaded) = [l |-> loaded, r |-> loaded]
  <2>1. after # {} /\ \A s \in Sides : s \in after
    BY <1>4, <1>5 DEF Sides
  <2>2. Filled(kind, after, loaded) = [s \in Sides |-> loaded]
    BY <2>1 DEF Filled
  <2> QED BY <2>2, SamePair
<1>7. raw' = [raw EXCEPT ![g] = Filled(kind, SetBy(kind, record, After(D, c), g), loaded)]
  BY <1>2, <1>6 DEF after
<1>8. \A f \in 0 .. Fold - 1 : f # g => SetOne(kind, record, c, f) = {}
  BY <1>4
<1> QED BY <1>1, <1>3, <1>7, <1>8, Updated DEF c

LEMMA OneSideAdds ==
  ASSUME Records!TPExecute, NEW D, raw = RawOf(kind, content[loaded], loaded, D), loaded \in Nat,
         content[loaded].channel \in DOMAIN Lookup
  PROVE  raw' = RawOf(kind, content[loaded], loaded, After(D, Head(todo)))
<1> DEFINE record == content[loaded]
           c == Head(todo)
           lc == Lookup[record.channel]
           g == lc.fiber
           ss == SetBy(kind, record, D, g)
           empty == [l |-> -100, r |-> -100]
<1>1. kind = "TP" /\ kind \in AllKinds /\ Records!Channel(c) = record.channel
  BY DEF Records!TPExecute, Records!Calling, AllKinds, Records!Channel
<1>2. CASE lc = None
  <2>1. raw' = raw
    BY <1>1, <1>2 DEF Records!TPExecute
  <2>2. \A f : SetOne(kind, record, c, f) = {}
    BY <1>1, <1>2, SetByOne DEF Records!FiberIs
  <2> QED BY <1>1, <2>1, <2>2, NotUpdated
<1>3. CASE lc # None
  <2>1. raw' = [raw EXCEPT ![g] = [empty EXCEPT ![lc.side] = loaded]]
    BY <1>1, <1>3 DEF Records!TPExecute, Records!SetSides, Records!Missing
  <2>2. g \in 0 .. Fold - 1 /\ lc.side \in Sides
    BY <1>3, LookupIs
  <2>3. \A f : SetOne(kind, record, c, f) = IF f = g THEN {lc.side} ELSE {}
    BY <1>1, <1>3, SetByOne DEF Records!FiberIs
  <2>4. ss \subseteq {lc.side}
    BY <1>1 DEF SetBy
  <2> DEFINE after == SetBy(kind, record, After(D, c), g)
  <2>5. after = ss \cup SetOne(kind, record, c, g)
    BY <1>1, SetByMore
  <2>6. empty = [s \in Sides |-> -100]
    BY SamePair
  <2> HIDE DEF ss, g, lc, c, empty, after
  <2>7. after = {lc.side}
    BY <2>3, <2>4, <2>5
  <2>8. Filled(kind, after, loaded) = [s \in Sides |-> IF s = lc.side THEN loaded ELSE -100]
    BY <1>1, <2>7 DEF Filled, Other
  <2>9. [empty EXCEPT ![lc.side] = loaded] = Filled(kind, after, loaded)
    BY <2>2, <2>8, <2>6
  <2>10. raw' = [raw EXCEPT ![g] = Filled(kind, SetBy(kind, record, After(D, c), g), loaded)]
    BY <2>1, <2>9 DEF after
  <2>11. \A f \in 0 .. Fold - 1 : f # g => SetOne(kind, record, c, f) = {}
    BY <2>3
  <2> QED BY <1>1, <2>2, <2>10, <2>11, Updated DEF c
<1> QED BY <1>2, <1>3

LEMMA SiPMAdds ==
  ASSUME Records!DRExecute \/ Records!DRSkip, NEW D,
         raw = RawOf(kind, content[loaded], loaded, D), loaded \in Nat, Head(todo).hit \in Nat
  PROVE  raw' = RawOf(kind, content[loaded], loaded, After(D, Head(todo)))
<1> DEFINE record == content[loaded]
           c == Head(todo)
           g == c.hit % Fold
           side == Records!Side(c.hit)
           ss == SetBy(kind, record, D, g)
           o == Records!Object(g)
<1>1. kind = "DR" /\ kind \in AllKinds /\ kind # "TP"
  BY DEF Records!DRExecute, Records!DRSkip, Records!Calling, AllKinds
<1>2. CASE Records!DRSkip
  <2>1. raw' = raw /\ g \notin record.located
    BY <1>2 DEF Records!DRSkip, Records!Located
  <2>2. \A f : SetOne(kind, record, c, f) = {}
    BY <1>1, <2>1, SetByOne
  <2> QED BY <1>1, <2>1, <2>2, NotUpdated
<1>3. CASE Records!DRExecute
  <2>1. /\ g \in record.located
        /\ raw' = [raw EXCEPT ![g] = IF o[side] = 0 THEN [o EXCEPT ![side] = loaded] ELSE o]
    BY <1>3 DEF Records!DRExecute, Records!Located, Records!SetSides
  <2>2. g \in 0 .. Fold - 1
    BY FoldAssumption
  <2>3. side \in Sides
    BY DEF Records!Side, Sides
  <2>4. \A f : SetOne(kind, record, c, f) = IF f = g THEN {side} ELSE {}
    BY <1>1, <2>1, SetByOne
  <2>5. o = [s \in Sides |-> IF s \in ss THEN loaded ELSE 0]
    BY <1>1, <2>2, ObjectIs
  <2> DEFINE after == SetBy(kind, record, After(D, c), g)
  <2>6. after = ss \cup SetOne(kind, record, c, g)
    BY <1>1, SetByMore
  <2> HIDE DEF ss, g, c, o, side, after
  <2>7. after = ss \cup {side}
    BY <2>4, <2>6
  <2>8. Filled(kind, after, loaded) = [s \in Sides |-> IF s \in after THEN loaded ELSE 0]
    BY <1>1, <2>7 DEF Filled, Other
  <2>9. (IF o[side] = 0 THEN [o EXCEPT ![side] = loaded] ELSE o) = Filled(kind, after, loaded)
    <3>1. CASE o[side] = 0
      BY <2>3, <2>5, <2>8, <2>7, <3>1
    <3>2. CASE o[side] # 0
      <4>1. side \in ss
        BY <2>3, <2>5, <3>2
      <4>2. after = ss
        BY <2>7, <4>1
      <4> QED BY <2>5, <2>8, <3>2, <4>2
    <3> QED BY <3>1, <3>2
  <2>10. raw' = [raw EXCEPT ![g] = Filled(kind, SetBy(kind, record, After(D, c), g), loaded)]
    BY <2>1, <2>9 DEF after
  <2>11. \A f \in 0 .. Fold - 1 : f # g => SetOne(kind, record, c, f) = {}
    BY <2>4
  <2> QED BY <1>1, <2>2, <2>10, <2>11, Updated DEF c
<1> QED BY <1>2, <1>3
-----------------------------------------------------------------------------
(* Part 14: the steps keep what parts 12 and 13 say.                       *)
LEMMA TailHas ==
  ASSUME NEW V, NEW s \in Seq(V), s # <<>>
  PROVE  /\ Head(s) \in V /\ Tail(s) \in Seq(V)
         /\ ToSet(s) = ToSet(Tail(s)) \cup {Head(s)}
<1> DEFINE n == Len(s)
           t == Tail(s)
<1>1. n \in Nat /\ n >= 1 /\ DOMAIN s = 1 .. n /\ \A i \in 1 .. n : s[i] \in V
  BY EmptySeq, LenProperties
<1>2. t \in Seq(V) /\ Len(t) = n - 1 /\ \A i \in 1 .. n - 1 : t[i] = s[i + 1]
  BY HeadTailProperties
<1>3. DOMAIN t = 1 .. n - 1 /\ Head(s) = s[1] /\ 1 \in 1 .. n
  BY <1>1, <1>2, LenProperties
<1> HIDE DEF t, n
<1>4. ToSet(t) \subseteq ToSet(s)
  <2>1. \A i \in 1 .. n - 1 : i + 1 \in 1 .. n /\ t[i] = s[i + 1]
    BY <1>1, <1>2
  <2> QED BY <1>1, <1>3, <2>1 DEF ToSet
<1>5. \A i \in 1 .. n : s[i] = Head(s) \/ s[i] \in ToSet(t)
  <2> TAKE i \in 1 .. n
  <2>1. i = 1 \/ (i - 1 \in 1 .. n - 1 /\ t[i - 1] = s[i])
    BY <1>1, <1>2
  <2> QED BY <1>3, <2>1 DEF ToSet
<1>6. Head(s) \in ToSet(s)
  BY <1>1, <1>3 DEF ToSet
<1>7. ToSet(s) \subseteq ToSet(t) \cup {Head(s)}
  BY <1>1, <1>5 DEF ToSet
<1> QED BY <1>1, <1>2, <1>3, <1>4, <1>6, <1>7 DEF t

LEMMA LoadedIs ==
  ASSUME RecordsInv, step = "execute"
  PROVE  loaded \in 0 .. R /\ loaded \in Nat
<1>1. loaded = Least(current_event + 1, R) /\ current_event \in Nat /\ R \in Nat
  BY RecordsCounted DEF RecordsInv, InOrder, Counted, FileOK
<1> QED BY <1>1 DEF Least

(* Each unpacker writes the sides of its call to the category.             *)
LEMMA ExecuteWrites ==
  ASSUME RecordsInv, ContentOK, Listening, Records!Execute, step' = "execute", NEW D,
         NEW todos, todos = todo, todos \in Seq(CallsOf(kind, content[loaded], Records!Called)),
         raw = RawOf(kind, content[loaded], loaded, D)
  PROVE  /\ todo # <<>> /\ todo' = Tail(todo)
         /\ raw' = RawOf(kind, content[loaded], loaded, After(D, Head(todo)))
<1>1. step = "execute" /\ todo # <<>>
  BY DEF Records!Execute, Records!DDExecute, Records!PetirocExecute, Records!HLDExecute,
         Records!TTreeExecute, Records!TPExecute, Records!UnknownChannel, Records!DRExecute,
         Records!DRSkip, Records!Calling
<1>2. ~Records!UnknownChannel
  BY DEF Records!UnknownChannel
<1>3. todo' = Tail(todo)
  BY <1>2 DEF Records!Execute, Records!DDExecute, Records!PetirocExecute, Records!HLDExecute,
         Records!TTreeExecute, Records!TPExecute, Records!DRExecute,
         Records!DRSkip, Records!SetBoth, Records!Executed
<1>4. loaded \in 0 .. R /\ loaded \in Nat
  BY <1>1, LoadedIs
<1>5. /\ content[loaded].channel \in DOMAIN Lookup
      /\ content[loaded].lit \subseteq 0 .. 2 * Fold - 1
  BY <1>4, ContentIs
<1>6. Head(todo) \in CallsOf(kind, content[loaded], Records!Called)
  BY <1>1, TailHas
<1>7. Head(todo).address \in DOMAIN Lookup
  <2>1. Records!Called \subseteq Addresses
    BY <1>1 DEF Listening, Started
  <2> QED BY <1>6, <2>1, LookupAssumption DEF CallsOf
<1>8. kind = "DR" => Head(todo).hit \in Nat
  <2>1. kind = "DR" => Head(todo).hit \in 0 .. 2 * Fold - 1
    BY <1>5, <1>6 DEF CallsOf, HitsIn
  <2> QED BY <2>1, FoldAssumption
<1>9. CASE Records!DDExecute
  BY <1>1, <1>3, <1>4, <1>7, <1>9, SamplesAdd
<1>10. CASE Records!PetirocExecute \/ Records!HLDExecute \/ Records!TTreeExecute
  <2>1. Records!SetBoth /\ kind \in {"Petiroc", "HLD", "TTree"}
    BY <1>10 DEF Records!PetirocExecute, Records!HLDExecute, Records!TTreeExecute, Records!Calling
  <2> QED BY <1>1, <1>3, <1>4, <1>5, <2>1, BothAdd
<1>11. CASE Records!TPExecute
  BY <1>1, <1>3, <1>4, <1>5, <1>11, OneSideAdds
<1>12. CASE Records!DRExecute \/ Records!DRSkip
  <2>1. kind = "DR"
    BY <1>12 DEF Records!DRExecute, Records!DRSkip, Records!Calling
  <2> QED BY <1>1, <1>3, <1>4, <1>8, <1>12, <2>1, SiPMAdds
<1> QED BY <1>2, <1>9, <1>10, <1>11, <1>12 DEF Records!Execute

(* The first usable SiPM brings the tracks, the others find kine empty.    *)
LEMMA ExecuteTracks ==
  ASSUME Records!Execute, step' = "execute", loaded \in Nat, NEW D,
         tracks = TracksOf(kind, content[loaded], loaded, D),
         kind = "DR" => kine = IF Usable(content[loaded], D) THEN None ELSE loaded
  PROVE  LET E == After(D, Head(todo)) IN
         /\ tracks' = TracksOf(kind, content[loaded], loaded, E)
         /\ kind = "DR" => kine' = IF Usable(content[loaded], E) THEN None ELSE loaded
<1> DEFINE E == After(D, Head(todo))
           record == content[loaded]
<1>1. ~Records!UnknownChannel
  BY DEF Records!UnknownChannel
<1>2. Usable(record, E) <=> Usable(record, D) \/ Head(todo).hit % Fold \in record.located
  BY DEF Usable, After
<1> HIDE DEF E
<1>3. CASE kind # "DR"
  <2>1. tracks' = tracks
    BY <1>1, <1>3 DEF Records!Execute, Records!DDExecute, Records!PetirocExecute, Records!HLDExecute,
           Records!TTreeExecute, Records!TPExecute, Records!DRExecute, Records!DRSkip,
           Records!Calling, Records!SetBoth, Records!Executed
  <2> QED BY <1>3, <2>1 DEF TracksOf, E
<1>4. CASE kind = "DR"
  <2>1. Records!DRExecute \/ Records!DRSkip
    BY <1>1, <1>4 DEF Records!Execute, Records!DDExecute, Records!PetirocExecute, Records!HLDExecute,
           Records!TTreeExecute, Records!TPExecute, Records!Calling
  <2>2. CASE Records!DRSkip
    <3>1. tracks' = tracks /\ kine' = kine /\ ~(Head(todo).hit % Fold \in record.located)
      BY <2>2 DEF Records!DRSkip, Records!Located
    <3>2. Usable(record, E) <=> Usable(record, D)
      BY <1>2, <3>1
    <3> QED BY <1>4, <3>1, <3>2 DEF TracksOf, E
  <2>3. CASE Records!DRExecute
    <3>1. /\ tracks' = IF kine = None THEN tracks ELSE Append(tracks, kine)
          /\ kine' = None /\ Head(todo).hit % Fold \in record.located
      BY <2>3 DEF Records!DRExecute, Records!Located
    <3>2. Usable(record, E)
      BY <1>2, <3>1
    <3>3. tracks' = <<loaded>>
      <4>1. CASE Usable(record, D)
        BY <1>4, <3>1, <4>1 DEF TracksOf
      <4>2. CASE ~Usable(record, D)
        <5>1. kine = loaded /\ loaded # None /\ tracks = <<>>
          BY <1>4, <4>2, NoObjectAssumption DEF TracksOf
        <5> QED BY <3>1, <5>1
      <4> QED BY <4>1, <4>2
    <3> QED BY <1>4, <3>1, <3>2, <3>3 DEF TracksOf, E
  <2> QED BY <2>1, <2>2, <2>3
<1> QED BY <1>3, <1>4

(* One call less to be made, one more that has been.                       *)
LEMMA ExecuteMade ==
  ASSUME RecordsInv, ContentOK, Listening, Executing, Records!Execute, step' = "execute"
  PROVE  MadeBy(kind, content[loaded], loaded, Records!Called, todo', raw', tracks', kine')
<1>1. step = "execute"
  BY DEF Records!Execute, Records!DDExecute, Records!PetirocExecute, Records!HLDExecute,
         Records!TTreeExecute, Records!TPExecute, Records!UnknownChannel, Records!DRExecute,
         Records!DRSkip, Records!Calling
<1> DEFINE all == CallsOf(kind, content[loaded], Records!Called)
<1>2. PICK D \in SUBSET all :
        /\ todo \in Seq(all) /\ D \cup ToSet(todo) = all
        /\ raw = RawOf(kind, content[loaded], loaded, D)
        /\ tracks = TracksOf(kind, content[loaded], loaded, D)
        /\ kind = "DR" => kine = IF Usable(content[loaded], D) THEN None ELSE loaded
  BY <1>1 DEF Executing, MadeBy
<1> DEFINE E == After(D, Head(todo))
<1>3. /\ todo # <<>> /\ todo' = Tail(todo)
      /\ raw' = RawOf(kind, content[loaded], loaded, E)
  BY <1>2, ExecuteWrites
<1>4. /\ tracks' = TracksOf(kind, content[loaded], loaded, E)
      /\ kind = "DR" => kine' = IF Usable(content[loaded], E) THEN None ELSE loaded
  BY <1>1, <1>2, LoadedIs, ExecuteTracks
<1>5. /\ Head(todo) \in all /\ Tail(todo) \in Seq(all)
      /\ ToSet(todo) = ToSet(Tail(todo)) \cup {Head(todo)}
  BY <1>2, <1>3, TailHas
<1>6. E \in SUBSET all /\ E \cup ToSet(Tail(todo)) = all
  <2> HIDE DEF all
  <2> QED BY <1>2, <1>5 DEF After
<1>7. todo' \in Seq(all) /\ E \cup ToSet(todo') = all
  BY <1>3, <1>5, <1>6
<1> HIDE DEF E
<1> QED BY <1>3, <1>4, <1>6, <1>7 DEF MadeBy

(* A read starts with an empty category and all calls of its record.       *)
LEMMA ReadMade ==
  ASSUME RecordsInv, ContentOK, Listening, Records!Read, step' = "execute"
  PROVE  MadeBy(kind, content[loaded'], loaded', Records!Called, todo', raw', tracks', kine')
<1>1. step = "call" /\ Records!Asked
  BY DEF Records!Read, Records!DDRead, Records!KSRead, Records!PetirocRead, Records!HLDRead,
         Records!TTreeRead, Records!TPRead, Records!DRRead, Records!Asked
<1>2. ~Records!Ends
  BY DEF Records!Ends
<1>3. PICK rec : Records!Load(rec) /\ (kind = "DR" => kine' = rec)
  <2>1. CASE Records!DDRead \/ Records!KSRead \/ Records!PetirocRead \/ Records!HLDRead
    BY <1>2, <2>1 DEF Records!DDRead, Records!KSRead, Records!PetirocRead, Records!HLDRead, Records!ReadOn
  <2>2. CASE Records!TTreeRead
    BY <1>2, <2>2 DEF Records!TTreeRead
  <2>3. CASE Records!TPRead
    BY <1>2, <2>3 DEF Records!TPRead
  <2>4. CASE Records!DRRead
    BY <2>4 DEF Records!DRRead
  <2> QED BY <2>1, <2>2, <2>3, <2>4 DEF Records!Read
<1>4. /\ loaded' = rec /\ todo' = Records!Calls(rec) /\ raw' = Records!NoRaw /\ tracks' = <<>>
  BY <1>3 DEF Records!Load
<1>5. rec \in 0 .. R
  <2>1. Same
    BY <1>1, <1>3, LoadLoads DEF Loads
  <2>2. RecordsInv' /\ R' = R
    BY <2>1, ReadInv, SameRecords
  <2>3. loaded' = Least(current_event' + 1, R) /\ current_event' \in Nat /\ R \in Nat
    BY <2>2, RecordsCounted DEF RecordsInv, InOrder, Counted, FileOK
  <2>4. PICK n \in Nat : n = current_event'
    BY <2>3
  <2>5. rec = Least(n + 1, R) /\ R \in Nat
    BY <1>4, <2>3, <2>4
  <2> QED BY <2>5 DEF Least
<1> DEFINE all == CallsOf(kind, content[rec], Records!Called)
<1>6. Records!Calls(rec) \in Seq(all) /\ ToSet(Records!Calls(rec)) = all
  <2>1. Records!Called \subseteq Addresses
    BY <1>1 DEF Listening, Started
  <2> QED BY <1>5, <2>1, CallsAre
<1>7. Records!NoRaw = RawOf(kind, content[rec], rec, {})
  <2>1. kind \in AllKinds
    BY KindsAssumption DEF RecordsInv, FileOK, AllKinds
  <2>2. \A f : SetBy(kind, content[rec], {}, f) = {}
    BY <2>1, SetByMore
  <2>3. \A f : Filled(kind, SetBy(kind, content[rec], {}, f), rec) = None
    BY <2>2 DEF Filled
  <2> QED BY <2>3 DEF RawOf, Records!NoRaw, Records!FiberNumbers
<1>8. ~Usable(content[rec], {}) /\ TracksOf(kind, content[rec], rec, {}) = <<>>
  BY DEF Usable, TracksOf
<1> DEFINE D == {}
<1>9. /\ D \in SUBSET all /\ todo' \in Seq(all) /\ D \cup ToSet(todo') = all
      /\ raw' = RawOf(kind, content[rec], rec, D) /\ tracks' = TracksOf(kind, content[rec], rec, D)
      /\ kind = "DR" => kine' = IF Usable(content[rec], D) THEN None ELSE rec
  BY <1>3, <1>4, <1>6, <1>7, <1>8
<1> HIDE DEF D
<1> QED BY <1>4, <1>9 DEF MadeBy

(* When no call is left, all have been made.                               *)
LEMMA EventMade ==
  ASSUME RecordsInv, Executing, AllMade, Records!EventDone
  PROVE  \A e \in 1 .. current_event + 1 : MadeByAll(kind, content, Records!Called, delivered'[e])
<1>1. /\ step = "execute" /\ todo = <<>>
      /\ delivered' = Append(delivered, [record |-> loaded, raw |-> raw, tracks |-> tracks])
  BY DEF Records!EventDone
<1>2. PICK n \in Nat : n = current_event
  BY DEF RecordsInv, Counted
<1>3. PICK x : x = [record |-> loaded, raw |-> raw, tracks |-> tracks]
  OBVIOUS
<1>4. delivered'[n + 1] = x /\ \A e \in 1 .. n : delivered'[e] = delivered[e]
  BY <1>1, <1>2, <1>3, AppendAny DEF RecordsInv, Counted
<1> DEFINE all == CallsOf(kind, content[loaded], Records!Called)
<1>5. PICK D \in SUBSET all :
        /\ D \cup ToSet(todo) = all
        /\ raw = RawOf(kind, content[loaded], loaded, D)
        /\ tracks = TracksOf(kind, content[loaded], loaded, D)
  BY <1>1 DEF Executing, MadeBy
<1>6. D = all
  <2>1. ToSet(<<>>) = {}
    BY DEF ToSet
  <2> QED BY <1>1, <1>5, <2>1
<1>7. MadeByAll(kind, content, Records!Called, x)
  <2>1. x.record = loaded /\ x.raw = raw /\ x.tracks = tracks
    BY <1>3
  <2> QED BY <1>5, <1>6, <2>1 DEF MadeByAll
<1>8. \A e \in 1 .. n + 1 : e \in 1 .. n \/ e = n + 1
  OBVIOUS
<1> QED BY <1>2, <1>4, <1>7, <1>8 DEF AllMade

(* The unpackers are registered in the main, before the file is open.      *)
LEMMA OpenListens ==
  ASSUME Records!Open, step' = "call"
  PROVE  Records!Called' # {} /\ Records!Called' \subseteq Addresses
<1>1. PICK rec : Records!OpenUnpackers(rec)
  BY DEF Records!Open, Records!DDOpen, Records!KSOpen, Records!PetirocOpen, Records!HLDOpen,
         Records!TPOpen, Records!TTreeOpen, Records!DROpen, Records!KSOpenRefused
<1>2. /\ Records!Registered # {} /\ Records!Called \subseteq Records!Registered
      /\ UNCHANGED <<subevent, unpackers>>
  BY <1>1 DEF Records!OpenUnpackers, Records!file
<1>3. Records!Called # {}
  BY <1>2 DEF Records!Called
<1>4. Records!Called' = Records!Called
  BY <1>2 DEF Records!Called, Records!Registered
<1> QED BY <1>2, <1>3, <1>4 DEF Records!Registered

LEMMA UnpackersStay ==
  ASSUME Records!Next, step # "setup"
  PROVE  UNCHANGED <<subevent, unpackers>>
<1>1. \A u, addr : ~Records!AddUnpacker(u, addr) /\ ~Records!AddUnpackerAborts(addr)
  BY DEF Records!AddUnpacker, Records!AddUnpackerAborts
<1>2. ~Records!Open
  BY DEF Records!Open, Records!DDOpen, Records!KSOpen, Records!PetirocOpen, Records!HLDOpen,
         Records!TPOpen, Records!TTreeOpen, Records!DROpen, Records!KSOpenRefused, Records!OpenUnpackers
<1>3. CASE Records!Read
  BY <1>3 DEF Records!Read, Records!DDRead, Records!KSRead, Records!PetirocRead, Records!HLDRead,
         Records!TTreeRead, Records!TPRead, Records!DRRead, Records!ReadOn, Records!Load,
         Records!Ends, Records!file
<1>4. CASE Records!Execute
  BY <1>4 DEF Records!Execute, Records!DDExecute, Records!PetirocExecute, Records!HLDExecute,
         Records!TTreeExecute, Records!TPExecute, Records!UnknownChannel, Records!DRExecute,
         Records!DRSkip, Records!SetBoth, Records!Executed, Records!file
<1>5. CASE Records!EventDone \/ Records!LimitReached
  BY <1>5 DEF Records!EventDone, Records!LimitReached, Records!file
<1> QED BY <1>1, <1>2, <1>3, <1>4, <1>5 DEF Records!Next

(* Every step of the event loop, the sources and the unpackers.            *)
LEMMA CallsInvNext ==
  ASSUME RecordsInv, CallsInv, Records!Next
  PROVE  CallsInv'
<1> USE DEF CallsInv
<1>1. RecordsInv'
  BY RecordsNextCases, IdleInv, ReadInv, EventDoneInv
<1>2. Same
  <2>1. CASE Idle
    BY <2>1 DEF Idle
  <2>2. CASE Records!Read
    BY <2>2 DEF Records!Read, Records!DDRead, Records!KSRead, Records!PetirocRead, Records!HLDRead,
         Records!TTreeRead, Records!TPRead, Records!DRRead, Records!ReadOn, Records!Load,
         Records!Ends, Records!file, Same
  <2>3. CASE Records!EventDone
    BY <2>3, EventDoneInv
  <2> QED BY <2>1, <2>2, <2>3, RecordsNextCases
<1>3. kind' = kind /\ content' = content /\ R' = R
  BY <1>2, SameRecords DEF Same
<1>4. ContentOK'
  BY <1>3 DEF ContentOK
<1>5. CASE step = "setup"
  <2>1. Idle /\ current_event = 0 /\ current_event' = 0
    <3>1. ~Records!Read /\ ~Records!EventDone
      BY <1>5 DEF Records!Read, Records!DDRead, Records!KSRead, Records!PetirocRead, Records!HLDRead,
         Records!TTreeRead, Records!TPRead, Records!DRRead, Records!Asked, Records!EventDone
    <3> QED BY <1>5, <3>1, RecordsNextCases DEF Idle, Listening, Started
  <2>2. step' \in {"setup", "notopen", "aborted", "call"}
    BY <1>5, <2>1 DEF Idle
  <2>3. step' = "call" => Records!Open
    <3>1. \A u, addr : Records!AddUnpacker(u, addr) \/ Records!AddUnpackerAborts(addr) => step' # "call"
      BY <1>5 DEF Records!AddUnpacker, Records!AddUnpackerAborts
    <3>2. ~Records!Read /\ ~Records!EventDone /\ ~Records!LimitReached /\ ~Records!Execute
      BY <1>5 DEF Records!Read, Records!DDRead, Records!KSRead, Records!PetirocRead, Records!HLDRead,
         Records!TTreeRead, Records!TPRead, Records!DRRead, Records!Asked, Records!EventDone,
         Records!LimitReached, Records!Execute, Records!DDExecute, Records!PetirocExecute,
         Records!HLDExecute, Records!TTreeExecute, Records!TPExecute, Records!UnknownChannel,
         Records!DRExecute, Records!DRSkip, Records!Calling
    <3> QED BY <3>1, <3>2 DEF Records!Next
  <2>4. Listening'
    BY <2>1, <2>2, <2>3, OpenListens DEF Listening, Started
  <2>5. Executing' /\ AllMade'
    <3>1. 1 .. 0 = {}
      OBVIOUS
    <3> QED BY <2>1, <2>2, <3>1 DEF Executing, AllMade
  <2> QED BY <1>4, <2>4, <2>5
<1>6. CASE step # "setup"
  <2>1. Records!Called' = Records!Called
    BY <1>6, UnpackersStay DEF Records!Called, Records!Registered
  <2>2. CASE Records!EventDone
    <3>1. step = "execute" /\ step' = "call" /\ current_event' = current_event + 1
      BY <2>2, EventDoneInv
    <3>2. Listening'
      BY <2>1, <3>1 DEF Listening, Started
    <3>3. AllMade'
      BY <1>3, <2>1, <2>2, <3>1, EventMade DEF AllMade
    <3>4. Executing'
      BY <3>1 DEF Executing
    <3> QED BY <1>4, <3>2, <3>3, <3>4
  <2>3. CASE Records!Read
    <3>1. step = "call" /\ step' \in {"execute", "ended"} /\ UNCHANGED <<current_event, delivered>>
      <4>1. step = "call" /\ delivered' = delivered
        BY <2>3, ReadInv DEF Records!Read, Records!DDRead, Records!KSRead, Records!PetirocRead,
           Records!HLDRead, Records!TTreeRead, Records!TPRead, Records!DRRead, Records!Asked
      <4>2. step' \in {"execute", "ended"} /\ current_event' = current_event
        BY <2>3 DEF Records!Read, Records!DDRead, Records!KSRead, Records!PetirocRead, Records!HLDRead,
         Records!TTreeRead, Records!TPRead, Records!DRRead, Records!ReadOn, Records!Load, Records!Ends
      <4> QED BY <4>1, <4>2
    <3>2. Listening'
      BY <2>1, <3>1 DEF Listening, Started
    <3>3. AllMade'
      BY <1>3, <2>1, <3>1 DEF AllMade
    <3>4. Executing'
      <4> SUFFICES ASSUME step' = "execute"
                   PROVE  MadeBy(kind', content'[loaded'], loaded', Records!Called', todo', raw', tracks', kine')
        BY DEF Executing
      <4>1. MadeBy(kind, content[loaded'], loaded', Records!Called, todo', raw', tracks', kine')
        BY <2>3, ReadMade
      <4> QED BY <1>3, <2>1, <4>1
    <3> QED BY <1>4, <3>2, <3>3, <3>4
  <2>4. CASE Idle
    <3>1. /\ step \in {"call", "execute"} /\ step' \in {"execute", "exited", "stopped"}
          /\ UNCHANGED <<current_event, delivered>>
      BY <1>6, <2>4 DEF Idle
    <3>2. Listening'
      BY <2>1, <3>1 DEF Listening, Started
    <3>3. AllMade'
      BY <1>3, <2>1, <3>1 DEF AllMade
    <3>4. Executing'
      <4> SUFFICES ASSUME step' = "execute"
                   PROVE  MadeBy(kind', content'[loaded'], loaded', Records!Called', todo', raw', tracks', kine')
        BY DEF Executing
      <4>1. step = "execute" /\ loaded' = loaded
        BY <1>6, <2>4 DEF Idle
      <4>2. Records!Execute
        <5>1. ~Records!LimitReached /\ ~Records!Read /\ ~Records!EventDone /\ ~Records!Open
              /\ \A u, addr : ~Records!AddUnpacker(u, addr) /\ ~Records!AddUnpackerAborts(addr)
          BY <4>1 DEF Records!LimitReached, Records!EventDone,
             Records!Read, Records!DDRead, Records!KSRead, Records!PetirocRead, Records!HLDRead,
             Records!TTreeRead, Records!TPRead, Records!DRRead, Records!Asked,
             Records!Open, Records!DDOpen, Records!KSOpen, Records!PetirocOpen, Records!HLDOpen,
             Records!TPOpen, Records!TTreeOpen, Records!DROpen, Records!KSOpenRefused,
             Records!OpenUnpackers, Records!AddUnpacker, Records!AddUnpackerAborts
        <5> QED BY <5>1 DEF Records!Next
      <4>3. MadeBy(kind, content[loaded], loaded, Records!Called, todo', raw', tracks', kine')
        BY <4>2, ExecuteMade
      <4> QED BY <1>3, <2>1, <4>1, <4>3
    <3> QED BY <1>4, <3>2, <3>3, <3>4
  <2> QED BY <2>2, <2>3, <2>4, RecordsNextCases
<1> QED BY <1>5, <1>6

LEMMA WholeInvInit == SourcesInit => WholeInv
<1>1. CASE Init /\ NoRecords
  BY <1>1 DEF NoRecords, WholeInv
<1>2. CASE Records!Init /\ NoLines
  <2> USE <1>2 DEF Records!Init
  <2>1. RecordsInv /\ kind # "none"
    BY InitInv, KindsAre DEF Inv, SourcesInit
  <2>2. /\ step = "setup" /\ current_event = 0 /\ content \in [0 .. R -> Contents[kind]]
    BY DEF R
  <2>3. ContentOK /\ Listening /\ Executing
    BY <2>2 DEF ContentOK, Listening, Started, Executing
  <2>4. AllMade
    <3>1. 1 .. 0 = {}
      OBVIOUS
    <3> QED BY <2>2, <3>1 DEF AllMade
  <2> QED BY <2>1, <2>3, <2>4 DEF WholeInv, CallsInv
<1> QED BY <1>1, <1>2 DEF SourcesInit

LEMMA WholeInvNext ==
  ASSUME WholeInv, [SourcesNext]_allVars
  PROVE  WholeInv'
<1>1. Inv /\ Inv'
  BY NextInv DEF WholeInv, Inv
<1>2. CASE UNCHANGED records
  <2>1. kind' = kind
    BY <1>2 DEF records
  <2>2. CallsInv => CallsInv'
    BY <1>2 DEF records, CallsInv, ContentOK, Listening, Started, Executing, AllMade, R,
       Records!Records, Records!BlocksOf, Records!Called, Records!Registered
  <2> QED BY <1>1, <2>1, <2>2 DEF WholeInv, Inv
<1>3. CASE RecordsNext
  <2>1. RecordsInv /\ CallsInv /\ kind # "none" /\ Records!Next
    BY <1>3 DEF RecordsNext, WholeInv
  <2>2. CallsInv'
    BY <2>1, CallsInvNext
  <2>3. kind' # "none" /\ RecordsInv'
    BY <1>1, <2>1, RecordsNextCases, IdleInv, ReadInv, EventDoneInv, KindsAre DEF RecordsInv, FileOK
  <2> QED BY <2>2, <2>3 DEF WholeInv
<1> QED BY <1>2, <1>3 DEF SourcesNext, LinesNext, allVars
-----------------------------------------------------------------------------
(* Part 15: what the category of an event has.                             *)
LEMMA WholeInvCorrect == SourcesSpec => []WholeInv
<1>1. WholeInv /\ [SourcesNext]_<<vars, records>> => WholeInv'
  BY WholeInvNext DEF allVars
<1> QED BY WholeInvInit, <1>1, PTL DEF SourcesSpec

(* An event that has been delivered, and the calls that have made it.      *)
LEMMA DeliveredByAll ==
  ASSUME WholeInv, kind # "none", NEW e \in DOMAIN delivered
  PROVE  LET r == delivered[e].record IN
         /\ r \in 0 .. R /\ r \in Nat /\ kind \in AllKinds
         /\ content[r].hits \in Nat
         /\ Records!Called # {}
         /\ delivered[e].raw = RawOf(kind, content[r], r, CallsOf(kind, content[r], Records!Called))
         /\ delivered[e].tracks = TracksOf(kind, content[r], r, CallsOf(kind, content[r], Records!Called))
<1>1. RecordsInv /\ CallsInv
  BY DEF WholeInv
<1>2. e \in 1 .. current_event /\ current_event \in Nat /\ R \in Nat
  BY <1>1, RecordsCounted DEF RecordsInv, Counted, FileOK
<1>3. delivered[e].record = Least(e, R)
  BY <1>1, <1>2 DEF RecordsInv, InOrder
<1>4. delivered[e].record \in 0 .. R /\ delivered[e].record \in Nat
  BY <1>2, <1>3 DEF Least
<1>5. content[delivered[e].record].hits \in Nat
  BY <1>1, <1>4, ContentIs DEF CallsInv
<1>6. Records!Called # {}
  BY <1>1, <1>2 DEF CallsInv, Listening
<1>7. kind \in AllKinds
  BY <1>1, KindsAssumption DEF RecordsInv, FileOK, AllKinds
<1> QED BY <1>1, <1>2, <1>4, <1>5, <1>6, <1>7 DEF CallsInv, AllMade, MadeByAll

(* All calls together set the sides the property names.                    *)
LEMMA SidesAreSet ==
  ASSUME kind \in AllKinds, NEW r, content[r].hits \in Nat, Records!Called # {}, NEW f
  PROVE  Records!SidesOf(f, r) = SetBy(kind, content[r], CallsOf(kind, content[r], Records!Called), f)
<1> DEFINE A == Records!Called
           H == HitsIn(kind, content[r])
           all == CallsOf(kind, content[r], A)
<1>1. /\ \A a \in A, h \in H : [address |-> a, hit |-> h] \in all
      /\ \A c \in all : c.address \in A /\ c.hit \in H
      /\ \A a \in A, h \in H : [address |-> a, hit |-> h].address = a /\ [address |-> a, hit |-> h].hit = h
  BY DEF CallsOf
<1>2. PICK a0 : a0 \in A
  OBVIOUS
<1> HIDE DEF all
<1>3. CASE kind \in {"DD", "KS"}
  <2>1. H = {1}
    BY <1>3 DEF HitsIn
  <2>2. \A a \in A : \E c \in all : c.address = a
    BY <1>1, <2>1
  <2>3. Records!SidesOf(f, r) = {Lookup[a].side : a \in {b \in A : Records!FiberIs(b, f)}}
    BY <1>3 DEF Records!SidesOf
  <2>4. SetBy(kind, content[r], all, f) = {Lookup[x.address].side : x \in {y \in all : Records!FiberIs(y.address, f)}}
    BY <1>3 DEF SetBy
  <2> HIDE DEF A, H
  <2> QED BY <1>1, <2>2, <2>3, <2>4 DEF all, A
<1>4. CASE kind = "Petiroc"
  <2>1. H = {1}
    BY <1>4 DEF HitsIn
  <2>2. all # {}
    BY <1>1, <1>2, <2>1
  <2> QED BY <1>4, <2>2 DEF Records!SidesOf, SetBy, all, Records!Sides, Sides
<1>5. CASE kind = "HLD"
  <2>1. H = 1 .. content[r].hits
    BY <1>5 DEF HitsIn
  <2>2. H # {} <=> content[r].hits > 0
    BY <2>1
  <2>3. all # {} <=> H # {}
    BY <1>1, <1>2
  <2> QED BY <1>5, <2>2, <2>3 DEF Records!SidesOf, SetBy, all, Records!Sides, Sides
<1>6. CASE kind \in {"TTree", "TP"}
  <2>1. H = {1}
    BY <1>6 DEF HitsIn
  <2>2. all # {}
    BY <1>1, <1>2, <2>1
  <2> QED BY <1>6, <2>2 DEF Records!SidesOf, SetBy, all, Records!Sides, Sides
<1>7. CASE kind = "DR"
  <2>1. H = content[r].lit
    BY <1>7 DEF HitsIn
  <2>2. \A h \in H : \E c \in all : c.hit = h
    <3> HIDE DEF A, H
    <3> QED BY <1>1, <1>2
  <2>3. Records!SidesOf(f, r) =
          {Records!Side(s) : s \in {t \in H : t % Fold = f /\ f \in content[r].located}}
    BY <1>7, <2>1 DEF Records!SidesOf
  <2>4. SetBy(kind, content[r], all, f) =
          {Records!Side(x.hit) : x \in {y \in all : y.hit % Fold = f /\ f \in content[r].located}}
    BY <1>7 DEF SetBy
  <2> HIDE DEF A, H
  <2> QED BY <1>1, <2>2, <2>3, <2>4 DEF all, A
<1> QED BY <1>3, <1>4, <1>5, <1>6, <1>7 DEF AllKinds

(* However the calls of execute build the category up, fibre by fibre and  *)
(* side by side, in the end it has what its own record says and nothing    *)
(* else.                                                                   *)
THEOREM RawCorrect == SourcesSpec => []RawIsOfItsRecord
<1>1. WholeInv => RawIsOfItsRecord
  <2> SUFFICES ASSUME WholeInv, kind # "none", NEW e \in DOMAIN delivered, NEW f \in 0 .. Fold - 1
               PROVE  LET r == delivered[e].record
                          other == IF kind = "TP" THEN Records!Missing ELSE 0
                      IN delivered[e].raw[f] =
                           IF Records!SidesOf(f, r) = {} THEN None
                           ELSE [s \in Sides |-> IF s \in Records!SidesOf(f, r) THEN r ELSE other]
    BY DEF RawIsOfItsRecord, Records!RawIsOfItsRecord, Records!FiberNumbers, Records!Sides, Sides
  <2> DEFINE r == delivered[e].record
             sides == Records!SidesOf(f, r)
  <2>1. /\ kind \in AllKinds /\ content[r].hits \in Nat /\ Records!Called # {}
        /\ delivered[e].raw = RawOf(kind, content[r], r, CallsOf(kind, content[r], Records!Called))
    BY DeliveredByAll
  <2>2. sides = SetBy(kind, content[r], CallsOf(kind, content[r], Records!Called), f)
    BY <2>1, SidesAreSet
  <2>3. delivered[e].raw[f] = Filled(kind, sides, r)
    BY <2>1, <2>2 DEF RawOf
  <2> HIDE DEF sides, r
  <2>4. delivered[e].raw[f] = IF sides = {} THEN None ELSE [s \in Sides |-> IF s \in sides THEN r ELSE Other(kind)]
    BY <2>3 DEF Filled
  <2> QED BY <2>4 DEF Other, Records!Missing, sides, r
<1> QED BY <1>1, WholeInvCorrect, PTL

(* The tracks of an event come with the first usable SiPM and only then.   *)
THEOREM TracksCorrect == SourcesSpec => []TracksComeOnce
<1>1. WholeInv => TracksComeOnce
  <2> SUFFICES ASSUME WholeInv, kind # "none", NEW e \in DOMAIN delivered
               PROVE  LET r == delivered[e].record IN
                      delivered[e].tracks =
                        IF kind = "DR" /\ \E s \in content[r].lit : s % Fold \in content[r].located
                          THEN <<r>> ELSE <<>>
    BY DEF TracksComeOnce, Records!TracksComeOnce
  <2> DEFINE r == delivered[e].record
             all == CallsOf(kind, content[r], Records!Called)
  <2>1. Records!Called # {} /\ delivered[e].tracks = TracksOf(kind, content[r], r, all)
    BY DeliveredByAll
  <2>2. CASE kind # "DR"
    BY <2>1, <2>2 DEF TracksOf
  <2>3. CASE kind = "DR"
    <3>1. PICK a0 : a0 \in Records!Called
      BY <2>1
    <3>2. all = [address : Records!Called, hit : content[r].lit]
      BY <2>3 DEF CallsOf, HitsIn
    <3>3. \A s \in content[r].lit : [address |-> a0, hit |-> s] \in all /\ [address |-> a0, hit |-> s].hit = s
      BY <3>1, <3>2
    <3>4. \A x \in all : x.hit \in content[r].lit
      BY <3>2
    <3>5. Usable(content[r], all) <=> \E s \in content[r].lit : s % Fold \in content[r].located
      <4> HIDE DEF all, r
      <4> QED BY <3>3, <3>4 DEF Usable
    <3> QED BY <2>1, <2>3, <3>5 DEF TracksOf
  <2> QED BY <2>2, <2>3
<1> QED BY <1>1, WholeInvCorrect, PTL
-----------------------------------------------------------------------------
(* Part 16: a program's source, of either kind.  A source of lines keeps   *)
(* the invariant of parts 4 and 5, the others never touch a line.          *)
LinesInv == IF kind = "none" THEN LineInv ELSE NoLines

LEMMA LinesInvInit == SourcesInit => LinesInv
<1>1. Init /\ NoRecords => LinesInv
  BY LineInitInv DEF NoRecords, LinesInv
<1>2. Records!Init /\ NoLines => LinesInv
  BY KindsAre DEF Records!Init, LinesInv
<1> QED BY <1>1, <1>2 DEF SourcesInit

(* A source does not change into another one.                              *)
LEMMA KindStays == Records!Next => kind' = kind
<1>1. ASSUME NEW rec, Records!Load(rec) PROVE kind' = kind
  BY <1>1 DEF Records!Load, Records!file
<1>2. Records!Ends => kind' = kind
  BY DEF Records!Ends, Records!file
<1>3. Records!ReadOn => kind' = kind
  BY <1>1, <1>2 DEF Records!ReadOn
<1>4. Records!DRRead => kind' = kind
  BY <1>1 DEF Records!DRRead
<1>5. Records!TTreeRead \/ Records!TPRead => kind' = kind
  BY <1>1, <1>2 DEF Records!TTreeRead, Records!TPRead
<1>6. Records!Read => kind' = kind
  BY <1>3, <1>4, <1>5 DEF Records!Read, Records!DDRead, Records!KSRead, Records!PetirocRead,
                          Records!HLDRead
<1>7. Records!EventDone => kind' = kind
  BY DEF Records!EventDone, Records!file
<1> QED BY <1>6, <1>7, RecordsNextCases DEF Idle, Same

(* So the lines are touched by their source alone.                         *)
LEMMA LinesInvNext == Inv /\ LinesInv /\ [SourcesNext]_allVars => LinesInv'
<1> SUFFICES ASSUME Inv, LinesInv, [SourcesNext]_allVars PROVE LinesInv'
  OBVIOUS
<1>1. NoLines /\ UNCHANGED vars => NoLines'
  BY DEF NoLines, vars
<1>2. CASE UNCHANGED records /\ [Next]_vars
  <2>1. kind' = kind
    BY <1>2 DEF records
  <2>2. CASE kind = "none"
    BY <1>2, <2>1, <2>2, LineInvNext DEF LinesInv
  <2>3. CASE kind # "none"
    <3>1. UNCHANGED vars
      BY <2>3 DEF SourcesNext, LinesNext, RecordsNext, allVars
    <3> QED BY <1>1, <2>1, <2>3, <3>1 DEF LinesInv
  <2> QED BY <2>2, <2>3
<1>3. CASE RecordsNext
  <2>1. Inv' /\ kind # "none" /\ UNCHANGED vars
    BY <1>3, NextInv DEF RecordsNext
  <2>2. kind' = kind
    BY <1>3, KindStays DEF RecordsNext
  <2> QED BY <1>1, <2>1, <2>2 DEF LinesInv
<1> QED BY <1>2, <1>3 DEF SourcesNext, LinesNext, allVars

(* Whichever source a program is started with, it keeps LinesInv.          *)
THEOREM LinesInvCorrect == SourcesSpec => []LinesInv
BY LinesInvInit, LinesInvNext, InvCorrect, PTL DEF SourcesSpec, allVars

(* The events of a program's source of lines have the right ends, their    *)
(* hits the time stamps of their events, and no line is left at the end.   *)
THEOREM LinesOfSources ==
  SourcesSpec => [](NothingLeft /\ EventsAreSplit /\ StampsAreShared)
<1>1. NoLines => NothingLeft /\ EventsAreSplit /\ StampsAreShared
  BY DEF NoLines, NothingLeft, EventsAreSplit, StampsAreShared
<1>2. LinesInv => NothingLeft /\ EventsAreSplit /\ StampsAreShared
  BY <1>1, NothingLeftInv, SplitInv, StampsInv DEF LinesInv
<1> QED BY <1>2, LinesInvCorrect, PTL

(* And every event is the next block of its lines.                         *)
THEOREM LinesImplementStream == SourcesSpec => DeliversStream
<1>1. SourcesInit => Stream!StreamInit
  <2>1. NoLines => Stream!StreamInit
    BY DEF NoLines, Stream!StreamInit, Delivered
  <2> QED BY <2>1, LineStreamInit DEF SourcesInit
<1>2. LinesInv /\ [SourcesNext]_<<vars, records>> => [Stream!StreamNext]_(Stream!streamVars)
  <2>1. UNCHANGED vars => UNCHANGED Stream!streamVars
    BY DEF vars, Stream!streamVars, Delivered, LastLine
  <2>2. LinesNext /\ LinesInv => LineInv /\ Next
    BY DEF LinesNext, LinesInv
  <2> QED BY <2>1, <2>2, LineStreamStep DEF SourcesNext, RecordsNext
<1> QED BY <1>1, <1>2, LinesInvCorrect, PTL DEF SourcesSpec, DeliversStream, Stream!StreamSpec
=============================================================================

------------------------------- MODULE Signals -------------------------------
(***************************************************************************)
(* Signals of the desktop digitizer: SFibersDDUnpacker with SDDSamples and *)
(* SDDSignal (lib/fibers, lib/base/datastruct), which finds amplitude,     *)
(* times and charge of a waveform and stores them at the address of its    *)
(* channel, and macros/SignalsViewer.C, which shows waveforms: CutAndView  *)
(* those of the events whose stored values pass a cut, the viewers         *)
(* directly from the files of the digitizer or of the oscilloscope.        *)
(*                                                                         *)
(* Samples are small integers, chosen so that the divisions below have no  *)
(* remainder; times are in 1/Unit of a sample, and in FibersRaw, whose     *)
(* times are integers, in whole samples.                                   *)
(***************************************************************************)
EXTENDS Integers, FiniteSets, SequencesExt

CONSTANTS
  Window,     (* samples of a waveform, 1024 in the code                   *)
  Before,     (* the integral begins as many samples before t0, 20         *)
  BaseLength, (* samples the base line is taken from, 50                   *)
  Unit,       (* a multiple of all differences of samples                  *)
  Campaigns,  (* bound: measurements [par, channels, files] and the calls  *)
              (* made for them: cuts, [ch, kind, range, first, last] of    *)
              (* CutAndView, and views, [kind, list, subtract, newline] of *)
              (* the viewers                                               *)
  RawSizes,   (* modules, layers and fibres of the detector                *)
  None        (* no value                                                  *)

ASSUME LengthsAssumption ==
  /\ Window \in Nat \ {0, 1} /\ Unit \in Nat \ {0}
  /\ Before \in Nat /\ BaseLength \in 1 .. Window
ASSUME RawSizesAssumption == RawSizes \in [1 .. 3 -> Nat \ {0}]

Samples == 0 .. Window - 1

(* The divisions have no remainder.                                        *)
UnitFits(w) ==
  \A i \in 1 .. Window - 1 : w[i] # w[i - 1] => \E d \in -Unit .. Unit : d * (w[i] - w[i - 1]) = Unit

ASSUME CampaignsAssumption ==
  \A c \in Campaigns :
    /\ c.par.pol \in {0, 1} /\ c.par.anamode \in {0, 1}
    /\ c.par.intmode \in Nat /\ c.par.deadtime \in Nat
    /\ c.par.thr \in Int /\ c.par.blmode \in Int
    /\ c.channels \in Seq([m : 0 .. RawSizes[1] - 1, l : 0 .. RawSizes[2] - 1,
                           s : 0 .. RawSizes[3] - 1, side : {"l", "r"}])
    /\ c.files \in Seq(Seq([Samples -> Int])) /\ Len(c.files) = Len(c.channels)
    /\ \A j \in DOMAIN c.files : c.files[j] # <<>> /\ \A n \in DOMAIN c.files[j] : UnitFits(c.files[j][n])
    /\ \A t \in c.cuts :
         /\ t.ch \in DOMAIN c.files
         /\ t.first \in Int /\ t.last \in Int /\ t.first <= t.last
    /\ \A v \in c.views :
         /\ v.kind \in {"DD", "Osc", "DDs", "Oscs"}
         /\ v.list \in Seq(DOMAIN c.files) /\ v.list # <<>>
         /\ v.kind \in {"DD", "Osc"} => Len(v.list) = 1
         /\ v.kind \in {"Osc", "Oscs"} => \A j \in DOMAIN c.files : Len(c.files[j]) = Len(c.files[1])
ASSUME NoneAssumption ==
  /\ None \notin Int \cup [qdc : Int] \cup [qdc : Int, time : Int]
  /\ \A c \in Campaigns : None \notin c.cuts \cup c.views

VARIABLES
  phase,     (* what is done with the measurement                          *)
  camp,      (* the measurement                                            *)
  chan,      (* the channels of this event that have been decoded          *)
  samples,   (* category DDSamples: the object at each position in use     *)
  raw,       (* category FibersRaw                                         *)
  saved,     (* the events written: their objects in the order of position *)
  cut, pass, (* CutAndView: the call and i                                 *)
  view,      (* the viewer: [kind, list, subtract, newline]                *)
  at, x,     (* how far its files have been read; the sample read last     *)
  shown      (* the signals drawn                                          *)

signalsVars == <<phase, camp, chan, samples, raw, saved, cut, pass, view, at, x, shown>>

Smallest(S) == CHOOSE a \in S : \A b \in S : a <= b
Largest(S) == CHOOSE a \in S : \A b \in S : b <= a
Values(w) == {w[i] : i \in DOMAIN w}
Sum(w, I) == FoldFunctionOnSet(LAMBDA a, b : a + b, 0, w, I)
-----------------------------------------------------------------------------
(* The signal is over the threshold, or on the other side of it.           *)
Over(p, thr, v) == IF p.pol = 1 THEN v > thr ELSE v < thr
Back(p, thr, v) == IF p.pol = 1 THEN v < thr ELSE v > thr

(* Where the line through the samples k-1 and k meets the threshold.       *)
Between(w, k, thr) ==
  LET step == w[k] - w[k - 1]
  IN (k - 1) * Unit + (IF step > 0 THEN ((thr - w[k - 1]) * Unit) \div step
                                   ELSE ((w[k - 1] - thr) * Unit) \div (-step))

(* FindT0.  None stands for -100, which is also the answer for a crossing  *)
(* at the last sample.                                                     *)
MutantFindT0(p, w, thr) ==   \* the last sample over the threshold
  LET over == {i \in Samples : Over(p, thr, w[i])}
      istop == IF over = {} THEN Window - 1 ELSE Largest(over)
  IN IF istop \notin {0, Window - 1} THEN Between(w, istop, thr)
     ELSE IF istop = 0 THEN 0 ELSE None
FindT0(p, w, thr) ==
  LET over == {i \in Samples : Over(p, thr, w[i])}
      istop == IF over = {} THEN Window - 1 ELSE Smallest(over)
  IN IF istop \notin {0, Window - 1} THEN Between(w, istop, thr)
     ELSE IF istop = 0 THEN 0 ELSE None

(* FindTMax from the sample _t0 on: where the signal is back, and whether  *)
(* it rises again within the dead time.  The answer for a signal that does *)
(* not come back is -1: the test for it compares with 0.                   *)
FindTMax(p, w, thr, _t0) ==
  LET back == {i \in _t0 .. Window - 1 : Back(p, thr, w[i])}
      first == Smallest(back)
  IN IF back = {} THEN [tmax |-> -Unit, pileup |-> 0]
     ELSE [tmax |-> Between(w, first, thr),
           pileup |-> IF \E i \in first .. Window - 1 :
                           i < _t0 + p.deadtime /\ Over(p, thr, w[i]) THEN 1 ELSE 0]

FindVeto(p, w) == IF \E i \in Samples : Back(p, p.veto_thr, w[i]) THEN 1 ELSE 0

Mean(w) == Sum(w, 0 .. BaseLength - 1) \div BaseLength
BaseLine(p, w) ==
  IF p.blmode = 0 THEN Mean(w) ELSE p.blmode
Minus(w, bl) == [i \in DOMAIN w |-> w[i] - bl]

(* What decode finds in a waveform.  The integral goes from offset_start   *)
(* to before offset_stop.                                                  *)
Amplitude(p, s) == IF p.pol = 1 THEN Largest(Values(s)) ELSE -Smallest(Values(s))
Threshold(p, s) == IF p.anamode = 0 THEN p.thr ELSE (p.thr * Amplitude(p, s)) \div 100
Ceil(t) == (t + Unit - 1) \div Unit

OffsetStart(_t0) == IF _t0 <= Before THEN 0 ELSE _t0 - Before
OffsetStop(p, _t0, _tmax) ==
  LET len == IF p.intmode <= 0 THEN _tmax - _t0 ELSE p.intmode
      _len == IF len + _t0 >= Window THEN Window - _t0 - 1 ELSE len
  IN _t0 + _len

Analysis(p, w) ==
  LET s == Minus(w, BaseLine(p, w))
      thr == Threshold(p, s)
      t0 == FindT0(p, s, thr)
      end == FindTMax(p, s, thr, Ceil(t0))
      stop == OffsetStop(p, Ceil(t0), end.tmax \div Unit)
      sum == Sum(s, OffsetStart(Ceil(t0)) .. stop - 1)
  IN [amp |-> Amplitude(p, s), bl |-> BaseLine(p, w), veto |-> FindVeto(p, s), t0 |-> t0,
      tot |-> IF t0 = None THEN None ELSE end.tmax - t0,
      charge |-> IF t0 = None THEN None ELSE IF p.pol = 0 THEN -sum ELSE sum,
      pileup |-> IF t0 = None THEN 0 ELSE end.pileup]

(* The end of the integral is before the waveform: accumulate runs from    *)
(* its beginning upwards and out of the memory of the program.             *)
RunsAway(p, w) ==
  LET s == Minus(w, BaseLine(p, w))
      thr == Threshold(p, s)
      t0 == FindT0(p, s, thr)
  IN /\ t0 # None
     /\ OffsetStop(p, Ceil(t0), FindTMax(p, s, thr, Ceil(t0)).tmax \div Unit) < 0
-----------------------------------------------------------------------------
(* The position of a fibre in a category of the given sizes.  DDSamples is *)
(* registered with 1, 1 and 16.                                            *)
Pos(sizes, f) == f.m + f.l * sizes[1] + f.s * sizes[1] * sizes[2]
SamplePos(f) == Pos(<<1, 1, 16>>, f)
RawPos(f) == Pos(RawSizes, f)

Fibre(c) == [m |-> c.m, l |-> c.l, s |-> c.s]

SignalsInit ==
  /\ camp \in Campaigns
  /\ phase = "ready"
  /\ chan = 0
  /\ samples = <<>> /\ raw = <<>>
  /\ saved = <<>>
  /\ cut = None /\ pass = 0
  /\ view = None /\ at = <<>> /\ x = None
  /\ shown = <<>>

Unpack ==
  /\ phase = "ready" /\ phase' = "unpack"
  /\ UNCHANGED <<camp, chan, samples, raw, saved, cut, pass, view, at, x, shown>>

Waveform == camp.files[chan + 1][Len(saved) + 1]
HasRecord == chan < Len(camp.channels) /\ Len(saved) < Len(camp.files[chan + 1])

(* getObject or getSlot, setAddress, and the values of the side.           *)
Stored(objects, pos, f, side, value) ==
  LET old == IF pos \in DOMAIN objects THEN objects[pos] ELSE [l |-> None, r |-> None]
      new == [fibre |-> f,
              l |-> IF side = "l" THEN value ELSE old.l,
              r |-> IF side = "r" THEN value ELSE old.r]
  IN [q \in DOMAIN objects \cup {pos} |-> IF q = pos THEN new ELSE objects[q]]

(* setTimeL and setTimeR take an integer: the time is cut off to the       *)
(* sample before it, 0 for a crossing in the first one; -100 stays.        *)
SampleOf(t) == IF t = None THEN None ELSE t \div Unit

Decode ==
  /\ phase = "unpack" /\ HasRecord /\ ~RunsAway(camp.par, Waveform)
  /\ LET c == camp.channels[chan + 1]
         sig == Analysis(camp.par, Waveform)
     IN /\ samples' = Stored(samples, SamplePos(c), Fibre(c), c.side, sig)
        /\ raw' = Stored(raw, RawPos(c), Fibre(c), c.side, [qdc |-> sig.charge, time |-> SampleOf(sig.t0)])
  /\ chan' = chan + 1
  /\ UNCHANGED <<phase, camp, saved, cut, pass, view, at, x, shown>>

DecodeCrashes ==
  /\ phase = "unpack" /\ HasRecord /\ RunsAway(camp.par, Waveform)
  /\ phase' = "crashed"
  /\ UNCHANGED <<camp, chan, samples, raw, saved, cut, pass, view, at, x, shown>>

(* The event is written: compressed, the objects are in the order of their *)
(* positions and are counted.                                              *)
Below(S, a) == Cardinality({b \in S : b < a})
Compressed(objects) ==
  [k \in 1 .. Cardinality(DOMAIN objects) |->
     objects[CHOOSE a \in DOMAIN objects : Below(DOMAIN objects, a) = k - 1]]

EventWritten ==
  /\ phase = "unpack" /\ chan = Len(camp.channels)
  /\ saved' = Append(saved, [samples |-> Compressed(samples), raw |-> Compressed(raw)])
  /\ chan' = 0 /\ samples' = <<>> /\ raw' = <<>>
  /\ UNCHANGED <<phase, camp, cut, pass, view, at, x, shown>>

(* A file without a further record ends the loop; what other channels of   *)
(* the event gave is not written.                                          *)
LoopEnds ==
  /\ phase = "unpack" /\ chan < Len(camp.channels) /\ ~HasRecord
  /\ phase' = "written"
  /\ chan' = 0 /\ samples' = <<>> /\ raw' = <<>>
  /\ UNCHANGED <<camp, saved, cut, pass, view, at, x, shown>>
-----------------------------------------------------------------------------
(* CutAndView for a channel.  Of the cuts there are one on a value of      *)
(* SDDSignal, one on a value of another category, and one on both.         *)
StartCut(c) ==
  /\ phase = "written" /\ phase' = "cut"
  /\ cut' = c
  /\ UNCHANGED <<camp, chan, samples, raw, saved, pass, view, at, x, shown>>

Within(v, range) == v # None /\ v > range[1] /\ v < range[2]
Passes(kind, range, sig, r) ==
  /\ kind \in {"amp", "both"} => Within(sig.amp, range)
  /\ kind \in {"charge", "both"} => r # None /\ Within(r.qdc, range)

NSig == cut.last - cut.first + 1
CutChannel == camp.channels[cut.ch]

(* The objects of an event whose address is that of the channel; the       *)
(* object of the other category is the one with the same number.           *)
MutantPassing(e) ==   \* the object that follows in the other category
  {j \in DOMAIN saved[e].samples :
     LET sig == saved[e].samples[j]
         other == saved[e].raw[IF j < Len(saved[e].raw) THEN j + 1 ELSE j]
     IN sig.fibre = Fibre(CutChannel)
        /\ Passes(cut.kind, cut.range, sig[CutChannel.side], other[CutChannel.side])}
Passing(e) ==
  {j \in DOMAIN saved[e].samples :
     LET sig == saved[e].samples[j] IN
       /\ sig.fibre = Fibre(CutChannel)
       /\ Passes(cut.kind, cut.range, sig[CutChannel.side], saved[e].raw[j][CutChannel.side])}

(* ReadOneSignal: record number e of the file of the channel, without the  *)
(* base line of the signal.                                                *)
ReadOneSignal(e, bl) == Minus(camp.files[cut.ch][e], bl)

CutPass ==
  /\ phase = "cut" /\ pass < Len(saved) /\ Len(shown) <= NSig - 1
  /\ pass' = pass + 1
  /\ shown' = shown \o
       [k \in 1 .. Cardinality(Passing(pass + 1)) |->
          ReadOneSignal(pass + 1,
            saved[pass + 1].samples[CHOOSE j \in Passing(pass + 1) : TRUE][CutChannel.side].bl)]
  /\ UNCHANGED <<phase, camp, chan, samples, raw, saved, cut, view, at, x>>

CutDone ==
  /\ phase = "cut" /\ (pass = Len(saved) \/ Len(shown) > NSig - 1)
  /\ phase' = "done"
  /\ UNCHANGED <<camp, chan, samples, raw, saved, cut, pass, view, at, x, shown>>
-----------------------------------------------------------------------------
(* SignalsViewerDD and SignalsViewerOsc, each for one channel or for a     *)
(* list ("DDs", "Oscs").  The oscilloscope has one file of rows with a     *)
(* sample of each channel, whose last row may have a newline.              *)
StartView(v) ==
  /\ phase = "ready" /\ phase' = "view"
  /\ view' = v
  /\ at' = [j \in DOMAIN v.list |-> 0]
  /\ UNCHANGED <<camp, chan, samples, raw, saved, cut, pass, x, shown>>

(* The samples of a file, one after the other.                             *)
File(j) == camp.files[view.list[j]]
Length(j) == Len(File(j)) * Window
Stream(j, n) == File(j)[(n - 1) \div Window + 1][(n - 1) % Window]

(* Reading past the end leaves the variable as it is: the sample before,   *)
(* which, with several files read in turn, is one of another channel.  In  *)
(* the text file the row is empty then; if its strings are still there,    *)
(* they are those of the row before.                                       *)
NChannels == Len(view.list)
Binary == view.kind \in {"DD", "DDs"}
Reads ==
  LET read[n \in 0 .. Window * NChannels] ==
        LET j == ((n - 1) % NChannels) + 1
            i == at[j] + (n - 1) \div NChannels + 1
        IN IF n = 0 THEN x
           ELSE IF i <= Length(j) THEN Stream(j, i)
           ELSE IF Binary THEN read[n - 1] ELSE Stream(j, Length(j))
  IN [n \in 1 .. Window * NChannels |-> read[n]]
PastEnd(j) == at[j] + Window > Length(j)

(* Only the first file is asked whether it is good.                        *)
MutantGood ==   \* a file that has been read to its end is not good
  at[1] < Length(1)
Good ==
  at[1] < Length(1) \/ (at[1] = Length(1) /\ (Binary \/ view.newline))

(* GetT0 of a histogram, whose bin 0, in front of the samples, is empty.   *)
(* A signal that does not cross gets no -100 but where the line of its     *)
(* last samples meets the threshold, if it does.                           *)
GetT0(w, thr) ==
  LET low == Smallest(Values(w))
      high == Largest(Values(w))
      sum == Sum(w, Samples)
      Abs(a) == IF a < 0 THEN -a ELSE a
      negative == IF view.subtract THEN Abs(low) > Abs(high)
                  ELSE Abs(low * Window - sum) > Abs(high * Window - sum)
      bins == [i \in 0 .. Window |-> IF i = 0 THEN 0 ELSE w[i - 1]]
      over == {i \in 1 .. Window : IF negative THEN bins[i] < thr ELSE bins[i] > thr}
      istop == IF over = {} THEN Window ELSE Smallest(over)
  IN IF istop = Window - 1 THEN IF istop = 1 THEN 0 ELSE None
     ELSE IF bins[istop] = bins[istop - 1] THEN None
     ELSE Between(bins, istop, thr)

(* One pass of the loop: a signal of each channel is drawn, in the viewers *)
(* of a single channel with its t0.                                        *)
Drawn(w) == IF view.subtract THEN Minus(w, Mean(w)) ELSE w
TrueThreshold(w) == IF view.subtract THEN camp.par.thr ELSE Mean(w) + camp.par.thr

ViewPass(kind) ==
  /\ phase = "view" /\ view.kind = kind /\ Good
  /\ LET reads == Reads
         read == [j \in DOMAIN view.list |-> [i \in Samples |-> reads[i * NChannels + j]]]
     IN /\ shown' = Append(shown,
             [signals |-> [j \in DOMAIN read |-> Drawn(read[j])],
              t0 |-> IF kind \in {"DD", "Osc"} THEN GetT0(Drawn(read[1]), TrueThreshold(read[1]))
                     ELSE None])
        /\ x' = reads[Window * NChannels]
  /\ at' = [j \in DOMAIN at |-> at[j] + Window]
  /\ UNCHANGED <<phase, camp, chan, samples, raw, saved, cut, pass, view>>

SignalsViewerDD == ViewPass("DD")
SignalsViewerOsc == ViewPass("Osc")
SignalsViewerDDs == ViewPass("DDs")
SignalsViewerOscs == ViewPass("Oscs")

(* A row behind the last one is empty, and its columns do not exist.       *)
ViewCrashes ==
  /\ phase = "view" /\ Good /\ ~Binary /\ PastEnd(1)
  /\ phase' = "crashed"
  /\ UNCHANGED <<camp, chan, samples, raw, saved, cut, pass, view, at, x, shown>>

ViewDone ==
  /\ phase = "view" /\ ~Good
  /\ phase' = "done"
  /\ UNCHANGED <<camp, chan, samples, raw, saved, cut, pass, view, at, x, shown>>

SignalsNext ==
  \/ Unpack \/ Decode \/ DecodeCrashes \/ EventWritten \/ LoopEnds
  \/ \E c \in camp.cuts : StartCut(c)
  \/ CutPass \/ CutDone
  \/ \E v \in camp.views : StartView(v)
  \/ SignalsViewerDD \/ SignalsViewerOsc \/ SignalsViewerDDs \/ SignalsViewerOscs
  \/ ViewCrashes \/ ViewDone

SignalsSpec == SignalsInit /\ [][SignalsNext]_signalsVars
-----------------------------------------------------------------------------
(* What is found in a waveform, said without the search for it: the line   *)
(* through the samples meets the threshold at t0 and at t0 + tot, nothing  *)
(* is over it before and nothing back in between; there is no t0 if only   *)
(* the last sample, or none, is over; the charge has the samples from      *)
(* before t0 up to the end of the signal or of the given length.           *)
LineAt(s, t) ==
  LET i == t \div Unit
  IN IF t % Unit = 0 THEN s[i] * Unit
     ELSE s[i] * (Unit - (t % Unit)) + s[i + 1] * (t % Unit)

IsAnalysisOf(p, sig, w) ==
  LET s == Minus(w, sig.bl)
      thr == IF p.anamode = 0 THEN p.thr ELSE (p.thr * sig.amp) \div 100
      end == sig.t0 + sig.tot
      returns == \E i \in Samples : i * Unit >= sig.t0 /\ Back(p, thr, s[i])
      last == Smallest({IF p.intmode > 0 THEN Ceil(sig.t0) + p.intmode ELSE end \div Unit,
                        Window - 1})
      charge == Sum(s, {i \in Samples : Ceil(sig.t0) - Before <= i /\ i < last})
  IN /\ \E i \in Samples : s[i] = IF p.pol = 1 THEN sig.amp ELSE -sig.amp
     /\ \A i \in Samples : IF p.pol = 1 THEN s[i] <= sig.amp ELSE s[i] >= -sig.amp
     /\ sig.t0 = None <=> \A i \in 0 .. Window - 2 : ~Over(p, thr, s[i])
     /\ sig.t0 # None =>
          /\ (sig.t0 = 0 /\ Over(p, thr, s[0])) \/ LineAt(s, sig.t0) = thr * Unit
          /\ \E i \in Samples : Over(p, thr, s[i]) /\ (i - 1) * Unit <= sig.t0
          /\ \A i \in Samples : i * Unit < sig.t0 => ~Over(p, thr, s[i])
          /\ IF returns
               THEN /\ LineAt(s, end) = thr * Unit
                    /\ \A i \in Samples : i * Unit \in sig.t0 .. end => ~Back(p, thr, s[i])
                    /\ sig.pileup = 1 <=>
                         \E i \in Samples : /\ i * Unit > end /\ Over(p, thr, s[i])
                                            /\ i < Ceil(sig.t0) + p.deadtime
               ELSE p.intmode > 0 /\ end = -Unit
          /\ sig.charge = IF p.pol = 0 THEN -charge ELSE charge

(* The time in FibersRaw is the number of the last sample not after t0.    *)
IsSampleOf(n, t) ==
  IF t = None THEN n = None ELSE n * Unit <= t /\ t < (n + 1) * Unit

(* Every channel of an event finds its signal at its position and side, in *)
(* both categories, unless a later channel has the same: in DDSamples that *)
(* may be one of another fibre; FibersRaw has its charge and the sample of *)
(* its t0.  And the program crashes in this only on a signal that stays    *)
(* over the threshold to the end of the waveform, when it is integrated    *)
(* over its length.                                                        *)
SignalsAreAnalysed ==
  /\ \A c \in 1 .. chan :
       LET ch == camp.channels[c]
           later == {camp.channels[d] : d \in c + 1 .. chan}
           sig == samples[SamplePos(ch)][ch.side]
           r == raw[RawPos(ch)][ch.side]
       IN /\ (\A d \in later : SamplePos(d) # SamplePos(ch) \/ d.side # ch.side) =>
               /\ IsAnalysisOf(camp.par, sig, camp.files[c][Len(saved) + 1])
               /\ (\A d \in later : d # ch) => r.qdc = sig.charge /\ IsSampleOf(r.time, sig.t0)
  /\ phase = "crashed" /\ view = None =>
       LET p == camp.par
           s == Minus(Waveform, BaseLine(p, Waveform))
           thr == Threshold(p, s)
       IN /\ p.intmode = 0
          /\ \E i \in Samples : Over(p, thr, s[i]) /\ \A k \in i .. Window - 1 : ~Back(p, thr, s[k])

(* CutAndView shows, of the events up to the one it has come to, the first *)
(* ones whose signal of the channel passes the cut, as many as asked for,  *)
(* each as its record of the file: if the fibres have positions of their   *)
(* own and the same order in both categories.  Else it may take the values *)
(* of another fibre, but the records are still those of the channel.       *)
Aligned ==
  \A c, d \in DOMAIN camp.channels :
    LET a == camp.channels[c]
        b == camp.channels[d]
    IN /\ SamplePos(a) < SamplePos(b) <=> RawPos(a) < RawPos(b)
       /\ c # d => a # b

CutShowsItsSignals ==
  cut # None =>
    LET file == camp.files[cut.ch]
        sig(e) == Analysis(camp.par, file[e])
        passing == {e \in 1 .. pass :
                      Passes(cut.kind, cut.range, sig(e), [qdc |-> sig(e).charge])}
        place(e) == Cardinality({d \in passing : d <= e})
    IN /\ Len(shown) <= NSig
       /\ \A k \in DOMAIN shown : \E e \in 1 .. pass :
            \A i, j \in Samples : shown[k][i] - shown[k][j] = file[e][i] - file[e][j]
       /\ Aligned =>
            /\ Len(shown) = Smallest({Cardinality(passing), NSig})
            /\ \A e \in passing :
                 place(e) <= NSig => shown[place(e)] = Minus(file[e], sig(e).bl)

(* The viewers show every record of each file, in order; and then one more *)
(* that is in no file, because a file that has been read to its end is     *)
(* still good: only rows without a newline at the end have none.  It is    *)
(* flat, if a single channel is shown.  Reading rows, the program may      *)
(* crash there, and only there.                                            *)
ViewersShowTheFiles ==
  view # None =>
    LET extra == IF Binary \/ view.newline THEN 1 ELSE 0
    IN /\ Len(shown) <= Len(File(1)) + extra
       /\ phase = "done" => Len(shown) = Len(File(1)) + extra
       /\ \A k \in DOMAIN shown : \A j \in DOMAIN view.list :
            IF k <= Len(File(j)) THEN shown[k].signals[j] = Drawn(File(j)[k])
            ELSE NChannels = 1 => \A i \in Samples : shown[k].signals[j][i] = shown[k].signals[j][0]
       /\ phase = "crashed" => ~Binary /\ view.newline /\ Len(shown) = Len(File(1))
=============================================================================

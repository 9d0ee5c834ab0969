---------------------------- MODULE SignalsProofs ----------------------------
(***************************************************************************)
(* For all waveforms, parameters, layouts of channels and files: that the  *)
(* signals of an event are what a definition without the search says of    *)
(* its waveforms, that CutAndView shows the signals that pass, and that    *)
(* the viewers show the records of the files.                              *)
(***************************************************************************)
EXTENDS Signals, SequenceTheorems, FiniteSetTheorems, FunctionTheorems, WellFoundedInduction, TLAPS

-----------------------------------------------------------------------------
(* Part 1: lists, the phases of the program, and the files of the          *)
(* viewers.                                                                *)

Waveforms == [Samples -> Int]
Used == {"ready", "unpack", "written"}

(* A list, of whatever elements.                                           *)
IsList(s) == s \in Seq({s[k] : k \in DOMAIN s})

(* A list is defined on 1 .. its length.                                   *)
LEMMA ListIs ==
  ASSUME NEW s, IsList(s)
  PROVE  Len(s) \in Nat /\ DOMAIN s = 1 .. Len(s)
BY DEF IsList

(* A list with one more element is a list with it at its end.              *)
LEMMA ListAppend ==
  ASSUME NEW s, IsList(s), NEW e
  PROVE  /\ IsList(Append(s, e)) /\ Len(Append(s, e)) = Len(s) + 1
         /\ \A k \in 1 .. Len(s) : Append(s, e)[k] = s[k]
         /\ Append(s, e)[Len(s) + 1] = e
<1> DEFINE T == {s[k] : k \in DOMAIN s} \cup {e}
           t == Append(s, e)
<1>1. s \in Seq(T) /\ e \in T
  BY DEF IsList
<1>2. /\ t \in Seq(T) /\ Len(t) = Len(s) + 1 /\ t[Len(s) + 1] = e
      /\ \A k \in 1 .. Len(s) : t[k] = s[k]
  <2> HIDE DEF T
  <2> QED BY <1>1, AppendProperties
<1>3. t \in Seq({t[k] : k \in DOMAIN t})
  <2> HIDE DEF t, T
  <2> QED BY <1>2
<1> QED BY <1>2, <1>3 DEF IsList

(* What the program is doing.                                              *)
PhaseOK ==
  /\ phase \in Used \cup {"cut", "view", "done", "crashed"}
  /\ camp \in Campaigns
  /\ phase \in Used => view = None /\ cut = None /\ shown = <<>> /\ pass = 0
  /\ phase = "cut" => cut # None /\ view = None
  /\ phase = "view" => view # None
  /\ cut # None => cut \in camp.cuts /\ view = None
  /\ view # None => view \in camp.views
  /\ IsList(shown)

(* Each file has been read as far as the signals that are drawn.           *)
ReadSoFar == at = [j \in DOMAIN view.list |-> Len(shown) * Window]
Extra == IF Binary \/ view.newline THEN 1 ELSE 0
ShownIs(j, k) ==
  IF k <= Len(File(j)) THEN shown[k].signals[j] = Drawn(File(j)[k])
  ELSE NChannels = 1 => \A i \in Samples : shown[k].signals[j][i] = shown[k].signals[j][0]
FilesShown ==
  /\ Len(shown) <= Len(File(1)) + Extra
  /\ \A k \in DOMAIN shown : \A j \in DOMAIN view.list : ShownIs(j, k)
ViewInv ==
  view # None =>
    /\ ReadSoFar /\ FilesShown
    /\ phase \in {"view", "done", "crashed"}
    /\ phase = "done" => Len(shown) = Len(File(1)) + Extra
    /\ phase = "crashed" => ~Binary /\ view.newline /\ Len(shown) = Len(File(1))

(* What is assumed of the measurement: its files belong to its channels,   *)
(* and the calls name them.                                                *)
LEMMA CampIs ==
  ASSUME PhaseOK
  PROVE  /\ camp.files \in Seq(Seq(Waveforms)) /\ Len(camp.files) = Len(camp.channels)
         /\ \A j \in DOMAIN camp.files : camp.files[j] # <<>>
         /\ \A t \in camp.cuts : t.ch \in DOMAIN camp.files
         /\ None \notin camp.cuts /\ None \notin camp.views
         /\ \A v \in camp.views :
              /\ v.list \in Seq(DOMAIN camp.files) /\ v.list # <<>>
              /\ v.kind \in {"DD", "Osc", "DDs", "Oscs"}
BY CampaignsAssumption, NoneAssumption DEF PhaseOK, Waveforms

(* A file of the viewer, and where a sample of it is found.                *)
LEMMA FileIs ==
  ASSUME PhaseOK, view # None, NEW j \in DOMAIN view.list
  PROVE  /\ File(j) \in Seq(Waveforms) /\ Len(File(j)) \in Nat \ {0}
         /\ NChannels \in Nat \ {0} /\ DOMAIN view.list = 1 .. NChannels
<1>1. /\ view.list \in Seq(DOMAIN camp.files) /\ view.list # <<>>
      /\ camp.files \in Seq(Seq(Waveforms)) /\ camp.files[view.list[j]] # <<>>
  <2>1. view \in camp.views
    BY DEF PhaseOK
  <2>2. view.list[j] \in DOMAIN camp.files
    BY <2>1, CampIs
  <2> QED BY <2>1, <2>2, CampIs
<1>2. view.list[j] \in DOMAIN camp.files /\ NChannels \in Nat \ {0} /\ DOMAIN view.list = 1 .. NChannels
  <2> DEFINE D == DOMAIN camp.files
  <2>1. view.list \in Seq(D)
    BY <1>1
  <2> HIDE DEF D
  <2>2. view.list[j] \in D /\ NChannels \in Nat \ {0} /\ DOMAIN view.list = 1 .. NChannels
    BY <1>1, <2>1 DEF NChannels
  <2> QED BY <2>2 DEF D
<1>3. File(j) \in Seq(Waveforms) /\ File(j) # <<>>
  BY <1>1, <1>2 DEF File
<1> QED BY <1>2, <1>3

(* A waveform has at least two samples.                                    *)
LEMMA WindowIs == Window \in Nat /\ Window > 1 /\ 0 \in Samples
BY LengthsAssumption DEF Samples

(* In the stream of a file, sample i of record r + 1 comes at place r *    *)
(* Window + i + 1.                                                         *)
LEMMA StreamIs ==
  ASSUME PhaseOK, view # None, NEW j \in DOMAIN view.list,
         NEW r \in 0 .. Len(File(j)) - 1, NEW i \in Samples
  PROVE  /\ Stream(j, r * Window + i + 1) = File(j)[r + 1][i]
         /\ r * Window + i + 1 <= Length(j)
<1> DEFINE W == Window
           L == Len(File(j))
           p == r * W
<1>1. W \in Nat /\ W > 1 /\ i \in 0 .. W - 1 /\ L \in Nat /\ r \in 0 .. L - 1
  BY WindowIs, FileIs DEF Samples
<1>2. (r * W + i) \div W = r /\ (r * W + i) % W = i
  <2> HIDE DEF W
  <2> QED BY <1>1
<1>3. r * W + i + 1 <= L * W /\ (r * W + i + 1) - 1 = r * W + i
  <2> HIDE DEF W, L
  <2>1. r * W \in Nat /\ (r + 1) * W <= L * W /\ (r + 1) * W = r * W + W
    BY <1>1
  <2> QED BY <1>1, <2>1
<1>4. Stream(j, r * W + i + 1) = File(j)[(((r * W + i + 1) - 1) \div W) + 1][((r * W + i + 1) - 1) % W]
  BY DEF Stream
<1>5. Length(j) = L * W
  BY DEF Length
<1> QED BY <1>2, <1>3, <1>4, <1>5

-----------------------------------------------------------------------------
(* Part 2: what a viewer reads, Reads, is a recursive function: it         *)
(* exists, and gives the record of each file.                              *)

(* Induction, for a set of numbers.                                        *)
LEMMA NatIsIn ==
  ASSUME NEW S, 0 \in S, \A k \in Nat : k \in S => k + 1 \in S
  PROVE  Nat \subseteq S
<1> SUFFICES ASSUME NEW bad \in Nat, bad \notin S PROVE FALSE
  OBVIOUS
<1>1. IsWellFoundedOn(OpToRel(<, Nat), Nat)
  BY NatLessThanWellFounded
<1> DEFINE T == Nat \ S
<1>2. T \subseteq Nat /\ T # {}
  OBVIOUS
<1>3. PICK a \in T : \A b \in T : ~(<<b, a>> \in OpToRel(<, Nat))
  <2> HIDE DEF T
  <2> QED BY <1>1, <1>2, WFMin
<1>4. a \in Nat /\ a # 0
  OBVIOUS
<1>5. a - 1 \in Nat /\ a - 1 < a /\ (a - 1) + 1 = a
  BY <1>4
<1>6. a - 1 \in T
  BY <1>4, <1>5
<1> QED BY <1>3, <1>5, <1>6 DEF OpToRel

(* A recursion that takes a value for the numbers in P and keeps the one   *)
(* before for the others has a solution.                                   *)
Carries(f, m, base, val, P) ==
  /\ f = [k \in 0 .. m |-> f[k]]
  /\ \A k \in 0 .. m : f[k] = IF k = 0 THEN base ELSE IF k \in P THEN val[k] ELSE f[k - 1]
(* Reading goes on from one sample to the next: a function for the first   *)
(* ones is extended by one.                                                *)
LEMMA CarryHas ==
  ASSUME NEW m \in Nat, NEW base, NEW val, NEW P
  PROVE  \E f : Carries(f, m, base, val, P)
<1> DEFINE Body(f, k) == IF k = 0 THEN base ELSE IF k \in P THEN val[k] ELSE f[k - 1]
           Solves(f, q) == f = [k \in 0 .. q |-> Body(f, k)]
           S == {q \in Nat : \E f : Solves(f, q)}
<1>1. 0 \in S
  <2> DEFINE f == [k \in 0 .. 0 |-> base]
  <2>1. ASSUME NEW k \in 0 .. 0 PROVE Body(f, k) = base
    OBVIOUS
  <2>2. [k \in 0 .. 0 |-> Body(f, k)] = f
    <3> HIDE DEF Body
    <3> QED BY <2>1
  <2> QED BY <2>2
<1>2. ASSUME NEW q \in Nat, q \in S PROVE q + 1 \in S
  <2>1. PICK f : Solves(f, q)
    BY <1>2
  <2> DEFINE g == [k \in 0 .. q + 1 |-> IF k = q + 1 THEN Body(f, k) ELSE f[k]]
  <2>2. ASSUME NEW k \in 0 .. q + 1 PROVE g[k] = Body(g, k)
    <3>1. CASE k = q + 1
      <4>1. k # 0 /\ k - 1 \in 0 .. q /\ k - 1 # q + 1 /\ k - 1 \in 0 .. q + 1
        BY <3>1
      <4>2. g[k - 1] = f[k - 1] /\ g[k] = Body(f, k)
        BY <3>1, <4>1
      <4> HIDE DEF g
      <4> QED BY <4>2
    <3>2. CASE k # q + 1
      <4>1. k \in 0 .. q
        BY <3>2
      <4>2. g[k] = f[k] /\ f[k] = Body(f, k)
        <5> HIDE DEF Body
        <5> QED BY <2>1, <3>2, <4>1
      <4>3. CASE k = 0
        BY <4>2, <4>3
      <4>4. CASE k # 0
        <5>1. k - 1 \in 0 .. q + 1 /\ k - 1 # q + 1
          BY <4>1, <4>4
        <5>2. g[k - 1] = f[k - 1]
          BY <5>1
        <5> HIDE DEF g
        <5> QED BY <4>2, <5>2
      <4> QED BY <4>3, <4>4
    <3> QED BY <3>1, <3>2
  <2>3. g = [k \in 0 .. q + 1 |-> g[k]]
    OBVIOUS
  <2> HIDE DEF g, Body
  <2>4. Solves(g, q + 1)
    BY <2>2, <2>3
  <2> QED BY <2>4
<1>3. m \in S
  <2> HIDE DEF S
  <2> QED BY <1>1, <1>2, NatIsIn
<1>4. PICK f : f = [k \in 0 .. m |-> Body(f, k)]
  BY <1>3
<1>5. f = [k \in 0 .. m |-> f[k]] /\ \A k \in 0 .. m : f[k] = Body(f, k)
  <2> HIDE DEF Body
  <2> QED BY <1>4
<1> QED BY <1>5 DEF Carries

(* What one pass of a viewer reads.                                        *)
Next1(j, k) == at[j] + (k - 1) \div NChannels + 1
Channel1(k) == ((k - 1) % NChannels) + 1
(* So Reads, defined by recursion, is what its equation says.              *)
LEMMA ReadsSolve ==
  ASSUME PhaseOK, view # None
  PROVE  \E read :
           /\ Reads = [k \in 1 .. Window * NChannels |-> read[k]]
           /\ \A k \in 1 .. Window * NChannels :
                read[k] = IF Next1(Channel1(k), k) <= Length(Channel1(k)) THEN Stream(Channel1(k), Next1(Channel1(k), k))
                          ELSE IF Binary THEN read[k - 1]
                          ELSE Stream(Channel1(k), Length(Channel1(k)))
<1> DEFINE m == Window * NChannels
           Body(f, k) ==
             LET j == ((k - 1) % NChannels) + 1
                 i == at[j] + (k - 1) \div NChannels + 1
             IN IF k = 0 THEN x
                ELSE IF i <= Length(j) THEN Stream(j, i)
                ELSE IF Binary THEN f[k - 1] ELSE Stream(j, Length(j))
           In(k) == Next1(Channel1(k), k) <= Length(Channel1(k))
           P == {k \in 0 .. m : In(k) \/ ~Binary}
           val == [k \in 0 .. m |-> IF In(k) THEN Stream(Channel1(k), Next1(Channel1(k), k))
                                    ELSE Stream(Channel1(k), Length(Channel1(k)))]
           Carry(f, k) == IF k = 0 THEN x ELSE IF k \in P THEN val[k] ELSE f[k - 1]
<1>1. m \in Nat
  <2>1. NChannels \in Nat
    BY CampIs DEF PhaseOK, NChannels
  <2> QED BY <2>1, WindowIs
<1>2. \E f : f = [k \in 0 .. m |-> f[k]] /\ \A k \in 0 .. m : f[k] = Carry(f, k)
  <2> HIDE DEF m, P, val
  <2>1. \E f : Carries(f, m, x, val, P)
    BY <1>1, CarryHas, Zenon
  <2> QED BY <2>1 DEF Carries
<1>3. ASSUME NEW f, NEW k \in 0 .. m PROVE Carry(f, k) = Body(f, k)
  <2> HIDE DEF m
  <2> QED BY DEF Next1, Channel1
<1>4. \E f : f = [k \in 0 .. m |-> Body(f, k)]
  <2> HIDE DEF Carry, Body, m
  <2>1. PICK f : f = [k \in 0 .. m |-> f[k]] /\ \A k \in 0 .. m : f[k] = Carry(f, k)
    BY <1>2
  <2>2. [k \in 0 .. m |-> f[k]] = [k \in 0 .. m |-> Body(f, k)]
    BY <1>3, <2>1
  <2> QED BY <2>1, <2>2
<1> DEFINE read == CHOOSE f : f = [k \in 0 .. m |-> Body(f, k)]
<1>5. read = [k \in 0 .. m |-> Body(read, k)]
  <2> HIDE DEF Body, m
  <2> QED BY <1>4
<1>6. Reads = [k \in 1 .. m |-> read[k]]
  BY Zenon DEF Reads
<1> HIDE DEF read
<1>7. ASSUME NEW k \in 1 .. m
      PROVE  read[k] = IF In(k) THEN Stream(Channel1(k), Next1(Channel1(k), k))
                          ELSE IF Binary THEN read[k - 1]
                          ELSE Stream(Channel1(k), Length(Channel1(k)))
  <2>1. k \in 0 .. m /\ k # 0
    BY <1>1
  <2>2. read[k] = Body(read, k)
    <3> HIDE DEF Body, m
    <3> QED BY <1>5, <2>1
  <2> HIDE DEF m
  <2> QED BY <2>1, <2>2 DEF Next1, Channel1
<1> QED BY <1>6, <1>7

(* A pass reads the next record of every file that has one.                *)
LEMMA ReadsRecord ==
  ASSUME PhaseOK, view # None, ReadSoFar, NEW j \in DOMAIN view.list,
         Len(shown) < Len(File(j)), NEW i \in Samples
  PROVE  Reads[i * NChannels + j] = File(j)[Len(shown) + 1][i]
<1> DEFINE W == Window
           N == NChannels
           r == Len(shown)
           k == i * N + j
<1>1. /\ W \in Nat /\ W > 1 /\ i \in 0 .. W - 1 /\ N \in Nat \ {0} /\ j \in 1 .. N /\ r \in Nat
      /\ Len(File(j)) \in Nat /\ r \in 0 .. Len(File(j)) - 1
  BY WindowIs, FileIs, ListIs DEF Samples, PhaseOK
<1>2. k \in 1 .. W * N
  <2> HIDE DEF W, N
  <2>1. i * N \in Nat /\ (i + 1) * N <= W * N /\ (i + 1) * N = i * N + N
    BY <1>1
  <2> QED BY <1>1, <2>1
<1>3. (k - 1) \div N = i /\ (k - 1) % N = j - 1
  <2> HIDE DEF W, N
  <2> DEFINE c == j - 1
  <2>1. k - 1 = i * N + c /\ c \in 0 .. N - 1 /\ i \in Nat
    BY <1>1
  <2> HIDE DEF k, c
  <2>2. (i * N + c) \div N = i /\ (i * N + c) % N = c
    BY <1>1, <2>1
  <2> QED BY <2>1, <2>2 DEF c
<1>4. Channel1(k) = j
  BY <1>1, <1>3 DEF Channel1
<1>5. Next1(j, k) = r * W + i + 1
  BY <1>3 DEF Next1, ReadSoFar
<1>6. /\ Stream(j, r * W + i + 1) = File(j)[r + 1][i]
      /\ r * W + i + 1 <= Length(j)
  BY <1>1, StreamIs
<1> HIDE DEF k, W, N, r
<1>7. PICK read :
        /\ Reads = [q \in 1 .. W * N |-> read[q]]
        /\ \A q \in 1 .. W * N :
             read[q] = IF Next1(Channel1(q), q) <= Length(Channel1(q)) THEN Stream(Channel1(q), Next1(Channel1(q), q))
                       ELSE IF Binary THEN read[q - 1]
                       ELSE Stream(Channel1(q), Length(Channel1(q)))
  BY ReadsSolve DEF W, N
<1>8. Reads[k] = read[k] /\ read[k] = Stream(j, r * W + i + 1)
  BY <1>2, <1>4, <1>5, <1>6, <1>7
<1> QED BY <1>6, <1>8 DEF k, N, r

(* Past the end of the only file, it reads one value over and over.        *)
LEMMA ReadsFlat ==
  ASSUME PhaseOK, view # None, ReadSoFar, NChannels = 1,
         Len(shown) >= Len(File(1)), NEW i \in Samples
  PROVE  Reads[i * NChannels + 1] = Reads[0 * NChannels + 1]
<1> DEFINE W == Window
           r == Len(shown)
           L == Len(File(1))
<1>1. /\ W \in Nat /\ W > 1 /\ i \in 0 .. W - 1 /\ r \in Nat /\ L \in Nat /\ r >= L
      /\ 1 \in DOMAIN view.list
  <2>1. 1 \in DOMAIN view.list
    BY CampIs DEF PhaseOK, NChannels
  <2> QED BY <2>1, WindowIs, FileIs, ListIs DEF Samples, PhaseOK
<1>2. PICK read :
        /\ Reads = [q \in 1 .. W * 1 |-> read[q]]
        /\ \A q \in 1 .. W * 1 :
             read[q] = IF Next1(Channel1(q), q) <= Length(Channel1(q)) THEN Stream(Channel1(q), Next1(Channel1(q), q))
                       ELSE IF Binary THEN read[q - 1]
                       ELSE Stream(Channel1(q), Length(Channel1(q)))
  BY ReadsSolve
<1>3. ASSUME NEW q \in 1 .. W
      PROVE  Channel1(q) = 1 /\ ~(Next1(1, q) <= Length(1))
  <2>1. (q - 1) % 1 = 0 /\ (q - 1) \div 1 = q - 1
    <3> HIDE DEF W
    <3> QED BY <1>1
  <2>2. Next1(1, q) = r * W + (q - 1) + 1
    BY <1>1, <2>1 DEF Next1, ReadSoFar
  <2>3. Length(1) = L * W
    BY DEF Length
  <2>4. r * W >= L * W /\ r * W \in Nat /\ L * W \in Nat
    <3> HIDE DEF W, r, L
    <3> QED BY <1>1
  <2>5. ~(r * W + (q - 1) + 1 <= L * W)
    <3> HIDE DEF W, r, L
    <3> QED BY <1>1, <2>4
  <2> QED BY <2>1, <2>2, <2>3, <2>5 DEF Channel1
<1>4. W * 1 = W
  BY <1>1
<1> HIDE DEF W
<1>5. \A q \in 1 .. W : read[q] = read[1]
  <2>1. CASE Binary
    <3> DEFINE S == {q \in Nat : q + 1 \in 1 .. W => read[q + 1] = read[1]}
    <3>1. 0 \in S
      OBVIOUS
    <3>2. ASSUME NEW q \in Nat, q \in S PROVE q + 1 \in S
      <4> SUFFICES ASSUME (q + 1) + 1 \in 1 .. W PROVE read[(q + 1) + 1] = read[1]
        OBVIOUS
      <4>1. q + 1 \in 1 .. W /\ ((q + 1) + 1) - 1 = q + 1
        BY <1>1
      <4>2. read[(q + 1) + 1] = read[((q + 1) + 1) - 1]
        BY <1>2, <1>3, <1>4, <2>1
      <4> QED BY <3>2, <4>1, <4>2
    <3>3. Nat \subseteq S
      <4> HIDE DEF S
      <4> QED BY <3>1, <3>2, NatIsIn
    <3>4. ASSUME NEW q \in 1 .. W PROVE read[q] = read[1]
      <4>1. q - 1 \in Nat /\ (q - 1) + 1 = q
        BY <1>1
      <4>2. q - 1 \in S
        BY <3>3, <4>1
      <4> QED BY <4>1, <4>2
    <3> QED BY <3>4
  <2>2. CASE ~Binary
    <3>1. ASSUME NEW q \in 1 .. W PROVE read[q] = Stream(1, Length(1))
      BY <1>2, <1>3, <1>4, <2>2
    <3>2. 1 \in 1 .. W
      BY <1>1
    <3> QED BY <3>1, <3>2
  <2> QED BY <2>1, <2>2
<1>6. i * 1 + 1 \in 1 .. W /\ 0 * 1 + 1 = 1 /\ 1 \in 1 .. W
  BY <1>1
<1>7. Reads[i * 1 + 1] = Reads[0 * 1 + 1]
  BY <1>2, <1>4, <1>5, <1>6
<1> QED BY <1>7

(* Nothing else about the viewer changes.                                  *)
LEMMA FileSame ==
  ASSUME camp' = camp, view' = view
  PROVE  /\ \A j : File(j)' = File(j)
         /\ Binary' = Binary /\ Extra' = Extra /\ NChannels' = NChannels
BY DEF File, Binary, Extra, NChannels

(* Good says of a viewer that has come to a record whether there is one,   *)
(* or that it is at the end and the file does not know yet.                *)
LEMMA GoodIs ==
  ASSUME PhaseOK, view # None, ReadSoFar
  PROVE  /\ 1 \in DOMAIN view.list /\ Len(shown) \in Nat /\ Len(File(1)) \in Nat
         /\ Good <=> \/ Len(shown) < Len(File(1))
                     \/ Len(shown) = Len(File(1)) /\ Extra = 1
         /\ PastEnd(1) <=> Len(shown) >= Len(File(1))
<1> DEFINE W == Window
           r == Len(shown)
           L == Len(File(1))
<1>1. 1 \in DOMAIN view.list
  BY CampIs DEF PhaseOK
<1>2. W \in Nat /\ W > 1 /\ r \in Nat /\ L \in Nat
  BY <1>1, WindowIs, FileIs, ListIs DEF PhaseOK
<1>3. at[1] = r * W /\ Length(1) = L * W
  BY <1>1 DEF ReadSoFar, Length
<1>4. /\ r * W < L * W <=> r < L
      /\ r * W = L * W <=> r = L
      /\ r * W + W > L * W <=> r >= L
  <2> HIDE DEF W, r, L
  <2>1. r < L => (r + 1) * W <= L * W
    BY <1>2
  <2>2. r >= L => r * W >= L * W
    BY <1>2
  <2>3. r > L => r * W >= (L + 1) * W
    BY <1>2
  <2>4. (r + 1) * W = r * W + W /\ (L + 1) * W = L * W + W /\ r * W \in Nat /\ L * W \in Nat
    BY <1>2
  <2> QED BY <1>2, <2>1, <2>2, <2>3, <2>4
<1> HIDE DEF W, r, L
<1>5. Good <=> r < L \/ (r = L /\ (Binary \/ view.newline))
  BY <1>3, <1>4 DEF Good
<1>6. PastEnd(1) <=> r >= L
  BY <1>3, <1>4 DEF PastEnd, W
<1>7. Extra = 1 <=> Binary \/ view.newline
  BY DEF Extra
<1> QED BY <1>1, <1>2, <1>5, <1>6, <1>7 DEF r, L

(* One more signal of each channel is drawn.                               *)
LEMMA ViewPassStep ==
  ASSUME PhaseOK, ViewInv, NEW kind, ViewPass(kind)
  PROVE  PhaseOK' /\ ViewInv'
<1> DEFINE r == Len(shown)
<1>1. /\ phase = "view" /\ phase' = phase /\ camp' = camp /\ cut' = cut /\ view' = view /\ pass' = pass
      /\ Good /\ view # None /\ ReadSoFar /\ FilesShown
  BY DEF ViewPass, PhaseOK, ViewInv
<1>2. 1 \in DOMAIN view.list
  BY <1>1, GoodIs
<1>3. \E t : shown' = Append(shown, [signals |-> [j \in DOMAIN view.list |->
                                        Drawn([i \in Samples |-> Reads[i * NChannels + j]])], t0 |-> t])
  <2> DEFINE read == [j \in DOMAIN view.list |-> [i \in Samples |-> Reads[i * NChannels + j]]]
             t0 == IF kind \in {"DD", "Osc"} THEN GetT0(Drawn(read[1]), TrueThreshold(read[1])) ELSE None
  <2>1. shown' = Append(shown, [signals |-> [j \in DOMAIN read |-> Drawn(read[j])], t0 |-> t0])
    BY DEF ViewPass
  <2>2. [j \in DOMAIN read |-> Drawn(read[j])]
          = [j \in DOMAIN view.list |-> Drawn([i \in Samples |-> Reads[i * NChannels + j]])]
    OBVIOUS
  <2> HIDE DEF read, t0
  <2> QED BY <2>1, <2>2
<1>4. PICK e : /\ shown' = Append(shown, e)
               /\ \A j \in DOMAIN view.list : e.signals[j] = Drawn([i \in Samples |-> Reads[i * NChannels + j]])
  BY <1>3
<1>5. /\ IsList(shown') /\ Len(shown') = r + 1 /\ shown'[r + 1] = e
      /\ \A k \in 1 .. r : shown'[k] = shown[k]
      /\ DOMAIN shown' = 1 .. r + 1 /\ DOMAIN shown = 1 .. r /\ r \in Nat
  <2>1. IsList(shown)
    BY DEF PhaseOK
  <2>2. /\ IsList(Append(shown, e)) /\ Len(Append(shown, e)) = r + 1 /\ Append(shown, e)[r + 1] = e
        /\ \A k \in 1 .. r : Append(shown, e)[k] = shown[k]
    BY <2>1, ListAppend
  <2> QED BY <1>4, <2>1, <2>2, ListIs
<1>6. PhaseOK'
  BY <1>1, <1>5 DEF PhaseOK, Used
<1>7. ReadSoFar'
  <2>1. at = [j \in DOMAIN view.list |-> r * Window] /\ at' = [j \in DOMAIN at |-> at[j] + Window]
    BY <1>1 DEF ReadSoFar, ViewPass
  <2>2. r * Window + Window = (r + 1) * Window
    BY <1>5, WindowIs
  <2>3. at' = [j \in DOMAIN view.list |-> (r + 1) * Window]
    <3> HIDE DEF r
    <3> QED BY <2>1, <2>2
  <2> QED BY <1>1, <1>5, <2>3 DEF ReadSoFar
<1>8. r + 1 <= Len(File(1)) + Extra
  BY <1>1, <1>5, GoodIs DEF Extra
<1>9. ASSUME NEW k \in 1 .. r + 1, NEW j \in DOMAIN view.list PROVE ShownIs(j, k)'
  <2>1. CASE k \in 1 .. r
    <3>1. shown'[k] = shown[k] /\ k \in DOMAIN shown /\ ShownIs(j, k)
      BY <1>1, <1>5, <2>1 DEF FilesShown
    <3> QED BY <1>1, <3>1 DEF ShownIs, File, Drawn, NChannels
  <2>2. CASE k = r + 1
    <3> DEFINE w == [i \in Samples |-> Reads[i * NChannels + j]]
    <3>1. shown'[k].signals[j] = Drawn(w)
      BY <1>4, <1>5, <2>2
    <3>2. CASE k <= Len(File(j))
      <4>1. File(j) \in Seq(Waveforms) /\ Len(File(j)) \in Nat
        BY <1>1, FileIs
      <4>2. k \in 1 .. Len(File(j)) /\ r < Len(File(j))
        BY <1>5, <2>2, <3>2, <4>1
      <4>3. File(j)[k] \in [Samples -> Int]
        BY <4>1, <4>2 DEF Waveforms
      <4>4. \A i \in Samples : Reads[i * NChannels + j] = File(j)[k][i]
        BY <1>1, <2>2, <4>2, ReadsRecord
      <4>5. w = File(j)[k]
        BY <4>3, <4>4
      <4> HIDE DEF w
      <4> QED BY <1>1, <3>1, <3>2, <4>5 DEF ShownIs, File, Drawn, NChannels
    <3>3. CASE ~(k <= Len(File(j)))
      <4> SUFFICES ASSUME NChannels = 1, NEW i \in Samples
                   PROVE  Drawn(w)[i] = Drawn(w)[0]
        BY <1>1, <3>1, <3>3 DEF ShownIs, File, Drawn, NChannels
      <4>1. j = 1
        BY <1>1, FileIs
      <4>2. r >= Len(File(1))
        BY <1>1, <1>5, <2>2, <3>3, <4>1, FileIs
      <4>3. Reads[i * NChannels + 1] = Reads[0 * NChannels + 1]
        BY <1>1, <4>2, ReadsFlat
      <4>4. w[i] = w[0] /\ 0 \in Samples
        BY <4>1, <4>3, WindowIs
      <4>5. DOMAIN w = Samples
        OBVIOUS
      <4> HIDE DEF w
      <4> QED BY <4>4, <4>5 DEF Drawn, Minus
    <3> QED BY <3>2, <3>3
  <2> QED BY <1>5, <2>1, <2>2
<1>10. FilesShown'
  <2>1. File(1)' = File(1) /\ Extra' = Extra
    BY <1>1, FileSame
  <2> QED BY <1>1, <1>5, <1>8, <1>9, <2>1 DEF FilesShown
<1> QED BY <1>1, <1>6, <1>7, <1>10 DEF ViewInv

(* The crash of the oscilloscope viewers comes behind the last record.     *)
LEMMA ViewCrashesStep ==
  ASSUME PhaseOK, ViewInv, ViewCrashes
  PROVE  PhaseOK' /\ ViewInv'
<1>1. /\ phase = "view" /\ phase' = "crashed" /\ view # None /\ Good /\ ~Binary /\ PastEnd(1)
      /\ UNCHANGED <<camp, cut, pass, view, at, shown>>
      /\ ReadSoFar /\ FilesShown
  BY DEF ViewCrashes, PhaseOK, ViewInv
<1>2. Len(shown) = Len(File(1)) /\ view.newline
  BY <1>1, GoodIs DEF Extra
<1>3. ReadSoFar' /\ FilesShown'
  BY <1>1 DEF ReadSoFar, FilesShown, ShownIs, File, Extra, Binary, Drawn, NChannels
<1> QED BY <1>1, <1>2, <1>3 DEF PhaseOK, ViewInv, Used, Binary, File

(* The viewers end after the last record, or after one more.               *)
LEMMA ViewDoneStep ==
  ASSUME PhaseOK, ViewInv, ViewDone
  PROVE  PhaseOK' /\ ViewInv'
<1>1. /\ phase = "view" /\ phase' = "done" /\ view # None /\ ~Good
      /\ UNCHANGED <<camp, cut, pass, view, at, shown>>
      /\ ReadSoFar /\ FilesShown
  BY DEF ViewDone, PhaseOK, ViewInv
<1>2. Len(shown) = Len(File(1)) + Extra
  <2>1. Len(shown) <= Len(File(1)) + Extra /\ Extra \in {0, 1}
    BY <1>1 DEF FilesShown, Extra
  <2> QED BY <1>1, <2>1, GoodIs
<1>3. ReadSoFar' /\ FilesShown'
  BY <1>1 DEF ReadSoFar, FilesShown, ShownIs, File, Extra, Binary, Drawn, NChannels
<1> QED BY <1>1, <1>2, <1>3 DEF PhaseOK, ViewInv, Used, Binary, File, Extra

(* A viewer begins with nothing read and nothing drawn.                    *)
LEMMA StartViewStep ==
  ASSUME PhaseOK, NEW v \in camp.views, StartView(v)
  PROVE  PhaseOK' /\ ViewInv'
<1>1. /\ phase = "ready" /\ phase' = "view" /\ view' = v /\ at' = [j \in DOMAIN v.list |-> 0]
      /\ UNCHANGED <<camp, cut, pass, shown>> /\ shown = <<>> /\ cut = None /\ v # None
  BY CampIs DEF StartView, PhaseOK, Used
<1>2. PhaseOK'
  BY <1>1 DEF PhaseOK, Used
<1>3. Len(shown') = 0 /\ DOMAIN shown' = {}
  BY <1>1
<1>4. ReadSoFar'
  <2>1. 0 * Window = 0
    BY WindowIs
  <2> QED BY <1>1, <1>3, <2>1 DEF ReadSoFar
<1>5. FilesShown'
  <2>1. 1 \in DOMAIN v.list
    BY CampIs
  <2>2. Len(File(1))' \in Nat
    <3>1. (PhaseOK /\ view # None /\ 1 \in DOMAIN view.list => Len(File(1)) \in Nat)'
      BY FileIs
    <3> QED BY <1>1, <1>2, <2>1, <3>1
  <2>3. Extra' \in {0, 1}
    BY DEF Extra
  <2> QED BY <1>3, <2>2, <2>3 DEF FilesShown
<1> QED BY <1>1, <1>2, <1>4, <1>5 DEF ViewInv

-----------------------------------------------------------------------------
(* Part 3: sums and extremes of samples, and where a line between two      *)
(* samples meets the threshold.                                            *)

Chosen(T) == CHOOSE i \in T : TRUE
IsSum(f, w, D) ==
  \A T \in D : f[T] = IF T = {} THEN 0 ELSE w[Chosen(T)] + f[T \ {Chosen(T)}]

(* There is a function with the recursion of the sum over the subsets of   *)
(* a finite set.                                                           *)
LEMMA SumHas ==
  ASSUME NEW I, IsFiniteSet(I), NEW w, \A i \in I : w[i] \in Int
  PROVE  \E f \in [SUBSET I -> Int] : IsSum(f, w, SUBSET I)
<1> DEFINE D(k) == {T \in SUBSET I : Cardinality(T) <= k}
           S == {k \in Nat : \E f \in [D(k) -> Int] : IsSum(f, w, D(k))}
<1>1. \A T \in SUBSET I : IsFiniteSet(T) /\ Cardinality(T) \in Nat /\ (Cardinality(T) = 0 <=> T = {})
  BY FS_Subset, FS_CardinalityType, FS_EmptySet
<1>2. 0 \in S
  <2> DEFINE f == [T \in D(0) |-> 0]
  <2>1. \A T \in D(0) : T = {}
    BY <1>1
  <2>2. f \in [D(0) -> Int] /\ IsSum(f, w, D(0))
    <3> HIDE DEF D
    <3> QED BY <2>1 DEF IsSum
  <2> QED BY <2>2
<1>3. ASSUME NEW k \in Nat, k \in S PROVE k + 1 \in S
  <2>1. PICK f \in [D(k) -> Int] : IsSum(f, w, D(k))
    BY <1>3
  <2> DEFINE Rest(T) == T \ {Chosen(T)}
  <2>2. ASSUME NEW T \in D(k + 1), T # {} PROVE Chosen(T) \in I /\ Rest(T) \in D(k)
    <3>1. Chosen(T) \in T /\ T \in SUBSET I
      BY <2>2 DEF Chosen
    <3>2. Cardinality(T \ {Chosen(T)}) = Cardinality(T) - 1
      BY <1>1, <3>1, FS_RemoveElement
    <3>3. Cardinality(T) <= k + 1 /\ Cardinality(T) \in Nat
      BY <1>1, <3>1
    <3>4. Cardinality(Rest(T)) <= k
      BY <3>2, <3>3
    <3>5. Rest(T) \in SUBSET I
      BY <3>1
    <3> QED BY <3>1, <3>4, <3>5
  <2>3. \A T \in D(k) : T \in D(k + 1)
    BY <1>1
  <2>4. {} \in D(k) /\ {} \in D(k + 1)
    BY <1>1
  <2> HIDE DEF D
  <2> DEFINE g == [T \in D(k + 1) |-> IF T = {} THEN 0 ELSE w[Chosen(T)] + f[Rest(T)]]
  <2>5. g \in [D(k + 1) -> Int]
    BY <2>2
  <2>6. ASSUME NEW T \in D(k) PROVE g[T] = f[T]
    BY <2>1, <2>3 DEF IsSum
  <2>7. IsSum(g, w, D(k + 1))
    <3> SUFFICES ASSUME NEW T \in D(k + 1)
                 PROVE  g[T] = IF T = {} THEN 0 ELSE w[Chosen(T)] + g[T \ {Chosen(T)}]
      BY DEF IsSum
    <3>1. CASE T = {}
      BY <3>1
    <3>2. CASE T # {}
      <4>1. Rest(T) \in D(k) /\ g[T] = w[Chosen(T)] + f[Rest(T)]
        BY <2>2, <3>2
      <4>2. g[Rest(T)] = f[Rest(T)]
        BY <2>6, <4>1
      <4> HIDE DEF g
      <4> QED BY <3>2, <4>1, <4>2
    <3> QED BY <3>1, <3>2
  <2> HIDE DEF g
  <2> QED BY <2>5, <2>7
<1>4. Cardinality(I) \in S
  <2>1. Nat \subseteq S
    <3> HIDE DEF S
    <3> QED BY <1>2, <1>3, NatIsIn
  <2> QED BY <1>1, <2>1
<1>5. D(Cardinality(I)) = SUBSET I
  BY FS_Subset, FS_CardinalityType
<1> HIDE DEF D
<1> QED BY <1>4, <1>5

(* The sum of integers is an integer.                                      *)
LEMMA SumIs ==
  ASSUME NEW I, IsFiniteSet(I), NEW w, \A i \in I : w[i] \in Int
  PROVE  Sum(w, I) \in Int
<1> DEFINE Body(f, T) == IF T = {} THEN 0 ELSE w[Chosen(T)] + f[T \ {Chosen(T)}]
           sum == CHOOSE f : f = [T \in SUBSET I |-> Body(f, T)]
<1>1. PICK f \in [SUBSET I -> Int] : IsSum(f, w, SUBSET I)
  BY SumHas
<1>2. f = [T \in SUBSET I |-> Body(f, T)]
  BY <1>1 DEF IsSum
<1>3. sum = [T \in SUBSET I |-> Body(sum, T)]
  <2> HIDE DEF Body
  <2> QED BY <1>2
<1>4. Sum(w, I) = sum[I]
  BY Zenon DEF Sum, FoldFunctionOnSet, MapThenFoldSet, Chosen
<1> HIDE DEF sum
<1> DEFINE S == {k \in Nat : \A T \in SUBSET I : Cardinality(T) <= k => sum[T] \in Int}
<1>5. \A T \in SUBSET I : IsFiniteSet(T) /\ Cardinality(T) \in Nat /\ (Cardinality(T) = 0 <=> T = {})
  BY FS_Subset, FS_CardinalityType, FS_EmptySet
<1>6. 0 \in S
  BY <1>3, <1>5
<1>7. ASSUME NEW k \in Nat, k \in S PROVE k + 1 \in S
  <2> SUFFICES ASSUME NEW T \in SUBSET I, Cardinality(T) <= k + 1 PROVE sum[T] \in Int
    OBVIOUS
  <2>1. CASE T = {}
    BY <1>3, <2>1
  <2>2. CASE T # {}
    <3>1. Chosen(T) \in T
      BY <2>2 DEF Chosen
    <3>2. Cardinality(T \ {Chosen(T)}) = Cardinality(T) - 1
      BY <1>5, <3>1, FS_RemoveElement
    <3>3. sum[T \ {Chosen(T)}] \in Int
      BY <1>5, <1>7, <3>2
    <3>4. sum[T] = w[Chosen(T)] + sum[T \ {Chosen(T)}]
      BY <1>3, <2>2
    <3> QED BY <3>1, <3>3, <3>4
  <2> QED BY <2>1, <2>2
<1>8. Nat \subseteq S
  <2> HIDE DEF S
  <2> QED BY <1>6, <1>7, NatIsIn
<1>9. sum[I] \in Int
  BY <1>5, <1>8
<1> QED BY <1>4, <1>9

(* Of an interval, a set that is not empty has a smallest element.         *)
LEMMA SmallestIs ==
  ASSUME NEW m \in Int, NEW S, \A a \in S : a \in Int /\ m <= a, S # {}
  PROVE  Smallest(S) \in S /\ \A b \in S : Smallest(S) <= b
<1> DEFINE T == {k \in Nat : m + k \in S}
<1>1. T \subseteq Nat /\ T # {}
  <2>1. PICK a \in S : TRUE
    OBVIOUS
  <2>2. a - m \in Nat /\ m + (a - m) = a
    BY <2>1
  <2> QED BY <2>1, <2>2
<1>2. IsWellFoundedOn(OpToRel(<, Nat), Nat)
  BY NatLessThanWellFounded
<1>3. PICK k \in T : \A j \in T : ~(<<j, k>> \in OpToRel(<, Nat))
  <2> HIDE DEF T
  <2> QED BY <1>1, <1>2, WFMin
<1>4. m + k \in S /\ k \in Nat
  BY <1>3
<1>5. ASSUME NEW b \in S PROVE m + k <= b
  <2>1. b - m \in Nat /\ m + (b - m) = b
    OBVIOUS
  <2>2. b - m \in T
    BY <2>1
  <2>3. ~(b - m < k)
    BY <1>3, <1>4, <2>1, <2>2 DEF OpToRel
  <2> QED BY <1>4, <2>1, <2>3
<1> QED BY <1>4, <1>5 DEF Smallest

(* A waveform has a largest value, and a smallest.                         *)
LEMMA HighestSample ==
  ASSUME NEW w \in Waveforms
  PROVE  \E i \in Samples : \A j \in Samples : w[j] <= w[i]
<1> DEFINE S == {k \in Nat : k \in Samples => \E i \in 0 .. k : \A j \in 0 .. k : w[j] <= w[i]}
<1>1. Window \in Nat /\ Window > 1 /\ Samples = 0 .. Window - 1 /\ \A i \in Samples : w[i] \in Int
  BY WindowIs DEF Waveforms, Samples
<1>2. 0 \in S
  BY <1>1
<1>3. ASSUME NEW k \in Nat, k \in S PROVE k + 1 \in S
  <2> SUFFICES ASSUME k + 1 \in Samples PROVE \E i \in 0 .. k + 1 : \A j \in 0 .. k + 1 : w[j] <= w[i]
    OBVIOUS
  <2>1. PICK i \in 0 .. k : \A j \in 0 .. k : w[j] <= w[i]
    BY <1>1, <1>3
  <2>2. \A j \in 0 .. k + 1 : (j \in 0 .. k \/ j = k + 1) /\ w[j] \in Int
    BY <1>1
  <2>3. i \in 0 .. k + 1 /\ k + 1 \in 0 .. k + 1
    BY <2>1
  <2>4. CASE w[k + 1] <= w[i]
    BY <2>1, <2>2, <2>3, <2>4
  <2>5. CASE ~(w[k + 1] <= w[i])
    BY <2>1, <2>2, <2>3, <2>5
  <2> QED BY <2>4, <2>5
<1>4. Window - 1 \in S
  <2> HIDE DEF S
  <2> QED BY <1>1, <1>2, <1>3, NatIsIn
<1> QED BY <1>1, <1>4

(* A waveform has a largest and a smallest sample.                         *)
LEMMA ExtremesAre ==
  ASSUME NEW w \in Waveforms
  PROVE  /\ \E i \in Samples : w[i] = Largest(Values(w))
         /\ \E i \in Samples : w[i] = Smallest(Values(w))
         /\ \A i \in Samples : Smallest(Values(w)) <= w[i] /\ w[i] <= Largest(Values(w))
<1> DEFINE v == [i \in Samples |-> -w[i]]
<1>1. \A i \in Samples : w[i] \in Int /\ v[i] \in Int /\ v[i] = -w[i]
  BY DEF Waveforms
<1>2. v \in Waveforms
  BY <1>1 DEF Waveforms
<1>3. Values(w) = {w[i] : i \in Samples}
  BY DEF Values, Waveforms
<1>4. Largest(Values(w)) \in Values(w) /\ \A b \in Values(w) : b <= Largest(Values(w))
  <2>1. PICK i \in Samples : \A j \in Samples : w[j] <= w[i]
    BY HighestSample
  <2>2. w[i] \in Values(w) /\ \A b \in Values(w) : b <= w[i]
    BY <1>3, <2>1
  <2> QED BY <2>2 DEF Largest
<1>5. Smallest(Values(w)) \in Values(w) /\ \A b \in Values(w) : Smallest(Values(w)) <= b
  <2> HIDE DEF v
  <2>1. PICK i \in Samples : \A j \in Samples : v[j] <= v[i]
    BY <1>2, HighestSample
  <2>2. w[i] \in Values(w) /\ \A b \in Values(w) : w[i] <= b
    BY <1>1, <1>3, <2>1
  <2> QED BY <2>2 DEF Smallest
<1> QED BY <1>3, <1>4, <1>5

ParIs(p) ==
  /\ p.pol \in {0, 1} /\ p.anamode \in {0, 1} /\ p.intmode \in Nat /\ p.deadtime \in Nat
  /\ p.thr \in Int /\ p.blmode \in Int

(* Times are in parts of a sample.                                         *)
LEMMA UnitIs == Unit \in Nat /\ Unit > 0
BY LengthsAssumption

(* Ceil rounds a time up to the next sample.                               *)
LEMMA CeilIs ==
  ASSUME NEW t \in Int
  PROVE  /\ Ceil(t) \in Int
         /\ \A i \in Int : i >= Ceil(t) <=> i * Unit >= t
<1> DEFINE u == Unit
           c == (t + u - 1) \div u
<1>1. u \in Nat /\ u > 0
  BY UnitIs
<1> HIDE DEF u
<1>2. c \in Int /\ c * u <= t + u - 1 /\ t + u - 1 < c * u + u
  BY <1>1
<1>3. Ceil(t) = c
  BY DEF Ceil, u
<1> HIDE DEF c
<1>4. ASSUME NEW i \in Int PROVE i >= c <=> i * u >= t
  <2>1. i >= c => i * u >= c * u
    BY <1>1, <1>2
  <2>2. i < c => (i + 1) * u <= c * u /\ (i + 1) * u = i * u + u
    BY <1>1, <1>2
  <2>3. i * u \in Int /\ c * u \in Int
    BY <1>1, <1>2
  <2> QED BY <1>1, <1>2, <2>1, <2>2, <2>3
<1> QED BY <1>2, <1>3, <1>4 DEF u

(* The line between two samples on the two sides of the threshold.         *)
LEMMA CrossIs ==
  ASSUME NEW s \in Waveforms, UnitFits(s), NEW k \in 1 .. Window - 1, NEW thr \in Int,
         \/ s[k - 1] <= thr /\ thr < s[k]
         \/ s[k] < thr /\ thr <= s[k - 1]
  PROVE  LET t == Between(s, k, thr)
         IN /\ t \in Nat /\ (k - 1) * Unit <= t /\ t < k * Unit
            /\ LineAt(s, t) = thr * Unit
            /\ t = (k - 1) * Unit => s[k - 1] = thr
<1> DEFINE u == Unit
           a == s[k - 1]
           b == s[k]
           m == k - 1
           d == IF b > a THEN b - a ELSE a - b
           h == IF b > a THEN thr - a ELSE a - thr
           t == Between(s, k, thr)
<1>1. /\ u \in Nat /\ u > 0 /\ a \in Int /\ b \in Int /\ m \in Nat /\ k = m + 1
      /\ d \in Int /\ h \in Int /\ 0 <= h /\ h < d
  <2>1. Window \in Nat /\ k - 1 \in Samples /\ k \in Samples
    BY WindowIs DEF Samples
  <2>2. s[k - 1] \in Int /\ s[k] \in Int
    BY <2>1 DEF Waveforms
  <2> QED BY <2>1, <2>2, UnitIs
<1>2. PICK c \in Int : c * d = u
  <2> HIDE DEF d, h
  <2>0. s[k] # s[k - 1]
    BY <1>1 DEF d, h
  <2>1. PICK e \in -Unit .. Unit : e * (s[k] - s[k - 1]) = Unit
    BY <2>0 DEF UnitFits
  <2> USE DEF d, h
  <2>2. e \in Int /\ -e \in Int
    BY <1>1, <2>1
  <2>3. CASE b > a
    BY <2>1, <2>2, <2>3
  <2>4. CASE ~(b > a)
    <3>1. d = a - b /\ (-e) * (a - b) = e * (b - a)
      BY <1>1, <2>2, <2>4
    <3> QED BY <2>1, <2>2, <3>1
  <2> QED BY <2>3, <2>4
<1>3. t = m * u + ((h * u) \div d)
  <2>1. t = m * u + (IF b - a > 0 THEN ((thr - a) * u) \div (b - a) ELSE ((a - thr) * u) \div (-(b - a)))
    BY DEF Between
  <2>2. b - a > 0 <=> b > a
    BY <1>1
  <2>3. -(b - a) = a - b
    BY <1>1
  <2> QED BY <2>1, <2>2, <2>3
<1> DEFINE q == h * c
<1>4. thr = (IF b > a THEN a + h ELSE a - h) /\ b = (IF b > a THEN a + d ELSE a - d)
  BY <1>1
<1>5. Window \in Nat
  BY WindowIs
<1> HIDE DEF u, m, d, h, a, b, t
<1>6. c > 0
  <2>1. c <= 0 => c * d <= 0
    BY <1>1, <1>2
  <2> QED BY <1>1, <1>2, <2>1
<1>7. q \in Int /\ 0 <= q /\ q < u
  <2>1. h * c \in Int /\ h * c >= 0
    BY <1>1, <1>6
  <2>2. (h + 1) * c <= d * c /\ (h + 1) * c = h * c + c /\ d * c = c * d
    BY <1>1, <1>6
  <2> QED BY <1>1, <1>2, <1>6, <2>1, <2>2
<1>8. q * d = h * u
  <2>1. (h * c) * d = h * (c * d)
    BY <1>1, <1>2
  <2> QED BY <1>2, <2>1
<1>9. q = 0 => h = 0
  BY <1>1, <1>6
<1> HIDE DEF q
<1>10. (h * u) \div d = q
  <2>1. (q * d) \div d = q
    BY <1>1, <1>7
  <2> QED BY <1>8, <2>1
<1>11. t = m * u + q
  BY <1>3, <1>10
<1>12. t \in Nat /\ m * u <= t /\ t < (m + 1) * u
  <2>1. m * u \in Nat /\ (m + 1) * u = m * u + u
    BY <1>1
  <2> QED BY <1>1, <1>7, <1>11, <2>1
<1>13. t \div u = m /\ t % u = q
  <2>1. (m * u + q) \div u = m /\ (m * u + q) % u = q
    BY <1>1, <1>7
  <2> QED BY <1>11, <2>1
<1>14. s[m] = a /\ s[m + 1] = b
  BY <1>1 DEF a, b, m
<1>15. LineAt(s, t) = IF q = 0 THEN a * u ELSE a * (u - q) + b * q
  BY <1>13, <1>14 DEF LineAt, u
<1>16. t = m * u => a = thr
  BY <1>1, <1>4, <1>7, <1>9, <1>11
<1>17. LineAt(s, t) = thr * u
  <2>1. CASE q = 0
    BY <1>1, <1>4, <1>9, <1>15, <2>1
  <2>2. CASE q # 0
    <3>1. CASE b > a
      <4>1. a * (u - q) + (a + d) * q = a * u + q * d /\ (a + h) * u = a * u + h * u
        BY <1>1, <1>7
      <4> QED BY <1>4, <1>8, <1>15, <2>2, <3>1, <4>1
    <3>2. CASE ~(b > a)
      <4>1. a * (u - q) + (a - d) * q = a * u - q * d /\ (a - h) * u = a * u - h * u
        BY <1>1, <1>7
      <4> QED BY <1>4, <1>8, <1>15, <2>2, <3>2, <4>1
    <3> QED BY <3>1, <3>2
  <2> QED BY <2>1, <2>2
<1> QED BY <1>1, <1>12, <1>16, <1>17 DEF t, u, a, m

-----------------------------------------------------------------------------
(* Part 4: where a signal begins and ends, its base line and its           *)
(* integral.                                                               *)

Wave(s) == s \in Waveforms /\ UnitFits(s)

(* Where the signal begins: sample k is the first over the threshold.      *)
BeginsAt(p, s, thr, k, t0) ==
  /\ k \in 0 .. Window - 2 /\ Over(p, thr, s[k])
  /\ \A i \in 0 .. k - 1 : ~Over(p, thr, s[i])
  /\ t0 \in Nat /\ (k - 1) * Unit <= t0
  /\ k = 0 => t0 = 0
  /\ k # 0 => /\ t0 < k * Unit /\ LineAt(s, t0) = thr * Unit
              /\ t0 = (k - 1) * Unit => s[k - 1] = thr

(* Samples are integers.                                                   *)
LEMMA SampleIs ==
  ASSUME NEW s \in Waveforms
  PROVE  /\ Window \in Nat /\ Window > 1 /\ Samples = 0 .. Window - 1
         /\ \A i \in 0 .. Window - 1 : s[i] \in Int
BY WindowIs DEF Waveforms, Samples

(* FindT0 has an answer if a sample before the last is over the            *)
(* threshold, and then where the signal begins.                            *)
LEMMA T0Is ==
  ASSUME NEW p, ParIs(p), NEW s, Wave(s), NEW thr \in Int
  PROVE  LET t0 == FindT0(p, s, thr)
         IN /\ t0 = None => \A i \in 0 .. Window - 2 : ~Over(p, thr, s[i])
            /\ t0 # None => \E k : BeginsAt(p, s, thr, k, t0)
<1> DEFINE over == {i \in Samples : Over(p, thr, s[i])}
           k == IF over = {} THEN Window - 1 ELSE Smallest(over)
           t0 == FindT0(p, s, thr)
<1>1. /\ Window \in Nat /\ Window > 1 /\ Samples = 0 .. Window - 1
      /\ \A i \in 0 .. Window - 1 : s[i] \in Int
  BY SampleIs DEF Wave
<1>2. t0 = IF k \notin {0, Window - 1} THEN Between(s, k, thr) ELSE IF k = 0 THEN 0 ELSE None
  BY DEF FindT0
<1>3. k \in 0 .. Window - 1 /\ (\A i \in over : k <= i) /\ (k # Window - 1 => k \in over)
  <2>1. CASE over = {}
    BY <1>1, <2>1
  <2>2. CASE over # {}
    <3> DEFINE m == 0
    <3>1. m \in Int /\ \A a \in over : a \in Int /\ m <= a
      BY <1>1
    <3> HIDE DEF m, over
    <3>2. Smallest(over) \in over /\ \A b \in over : Smallest(over) <= b
      BY <2>2, <3>1, SmallestIs
    <3> QED BY <1>1, <2>2, <3>2 DEF over
  <2> QED BY <2>1, <2>2
<1>4. \A i \in 0 .. Window - 1 : i < k => ~Over(p, thr, s[i])
  BY <1>1, <1>3
<1>5. k # Window - 1 => Over(p, thr, s[k])
  BY <1>3
<1>6. None # 0 /\ None \notin Int
  BY NoneAssumption
<1> HIDE DEF k, over, t0
<1>7. CASE k = Window - 1
  BY <1>1, <1>2, <1>4, <1>7 DEF t0
<1>8. CASE k # Window - 1 /\ k = 0
  <2>1. t0 = 0
    BY <1>2, <1>8
  <2>2. (0 - 1) * Unit <= 0
    BY UnitIs
  <2>3. BeginsAt(p, s, thr, 0, t0)
    BY <1>1, <1>5, <1>8, <2>1, <2>2 DEF BeginsAt
  <2> QED BY <1>6, <2>1, <2>3 DEF t0
<1>9. CASE k # Window - 1 /\ k # 0
  <2>1. k \in 1 .. Window - 1 /\ k - 1 \in 0 .. Window - 1 /\ k - 1 < k /\ k \in 0 .. Window - 2
    BY <1>1, <1>3, <1>9
  <2>2. Over(p, thr, s[k]) /\ ~Over(p, thr, s[k - 1]) /\ s[k] \in Int /\ s[k - 1] \in Int
    BY <1>1, <1>3, <1>4, <1>5, <1>9, <2>1
  <2>3. \/ s[k - 1] <= thr /\ thr < s[k]
        \/ s[k] < thr /\ thr <= s[k - 1]
    BY <2>2 DEF Over, ParIs
  <2>4. t0 = Between(s, k, thr)
    BY <1>2, <1>9
  <2>5. /\ t0 \in Nat /\ (k - 1) * Unit <= t0 /\ t0 < k * Unit
        /\ LineAt(s, t0) = thr * Unit
        /\ t0 = (k - 1) * Unit => s[k - 1] = thr
    BY <2>1, <2>3, <2>4, CrossIs DEF Wave
  <2>6. \A i \in 0 .. k - 1 : ~Over(p, thr, s[i])
    BY <1>1, <1>4, <2>1
  <2>7. BeginsAt(p, s, thr, k, t0)
    BY <1>9, <2>1, <2>2, <2>5, <2>6 DEF BeginsAt
  <2>8. t0 # None
    BY <1>6, <2>5
  <2> QED BY <2>7, <2>8 DEF t0
<1> QED BY <1>7, <1>8, <1>9

(* The first sample behind t0 is no end of the signal.                     *)
LEMMA CeilBegins ==
  ASSUME NEW p, ParIs(p), NEW s, Wave(s), NEW thr \in Int, NEW k, NEW t0, BeginsAt(p, s, thr, k, t0)
  PROVE  /\ Ceil(t0) \in 0 .. Window - 2 /\ Ceil(t0) \in {k - 1, k}
         /\ ~Back(p, thr, s[Ceil(t0)])
<1> DEFINE u == Unit
           c == Ceil(t0)
<1>1. /\ Window \in Nat /\ Window > 1 /\ k \in 0 .. Window - 2 /\ u \in Nat /\ u > 0
      /\ \A i \in 0 .. Window - 1 : s[i] \in Int
  BY SampleIs, UnitIs DEF BeginsAt, Wave
<1>2. t0 \in Nat /\ (k - 1) * u <= t0 /\ t0 <= k * u /\ 0 * u = 0
  BY <1>1 DEF BeginsAt
<1>3. c \in Int /\ \A i \in Int : i >= c <=> i * u >= t0
  BY <1>2, CeilIs
<1>4. k >= c /\ (k - 1 >= c => t0 = (k - 1) * u)
  <2>1. k \in Int /\ k - 1 \in Int /\ (k - 1) * u \in Int /\ k * u \in Int
    BY <1>1
  <2> QED BY <1>2, <1>3, <2>1
<1>5. c >= k - 1 /\ c >= 0
  <2>1. c * u >= t0
    BY <1>3
  <2> HIDE DEF c, u
  <2>2. c < k - 1 => (c + 1) * u <= (k - 1) * u /\ (c + 1) * u = c * u + u
    BY <1>1, <1>3
  <2>3. c < 0 => (c + 1) * u <= 0 * u /\ (c + 1) * u = c * u + u
    BY <1>1, <1>3
  <2>4. c * u \in Int /\ (k - 1) * u \in Int
    BY <1>1, <1>3
  <2> QED BY <1>1, <1>2, <1>3, <2>1, <2>2, <2>3, <2>4
<1> HIDE DEF c, u
<1>6. c = k \/ (c = k - 1 /\ k # 0 /\ t0 = (k - 1) * u)
  BY <1>1, <1>3, <1>4, <1>5
<1> USE DEF c, u
<1>7. CASE c = k
  <2>1. Over(p, thr, s[c]) /\ s[c] \in Int
    BY <1>1, <1>7 DEF BeginsAt
  <2> HIDE DEF c
  <2>2. ~Back(p, thr, s[c])
    BY <2>1 DEF Over, Back, ParIs
  <2> QED BY <1>1, <1>7, <2>2 DEF c
<1>8. CASE c = k - 1 /\ k # 0 /\ t0 = (k - 1) * u
  <2>1. s[c] = thr
    BY <1>8 DEF BeginsAt
  <2> HIDE DEF c
  <2>2. ~Back(p, thr, s[c])
    BY <2>1 DEF Back
  <2> QED BY <1>1, <1>5, <1>8, <2>2 DEF c
<1> QED BY <1>6, <1>7, <1>8

(* Where the signal ends: sample e is the first that is back.              *)
EndsAt(p, s, thr, b, e, end) ==
  /\ e \in b + 1 .. Window - 1 /\ Back(p, thr, s[e])
  /\ \A i \in b .. e - 1 : ~Back(p, thr, s[i])
  /\ end.tmax \in Nat /\ (e - 1) * Unit <= end.tmax /\ end.tmax < e * Unit
  /\ LineAt(s, end.tmax) = thr * Unit
  /\ end.pileup = IF \E i \in e .. Window - 1 : i < b + p.deadtime /\ Over(p, thr, s[i]) THEN 1 ELSE 0

(* FindTMax finds where the signal ends, or that it does not come back.    *)
LEMMA TMaxIs ==
  ASSUME NEW p, ParIs(p), NEW s, Wave(s), NEW thr \in Int,
         NEW b \in 0 .. Window - 2, ~Back(p, thr, s[b])
  PROVE  LET end == FindTMax(p, s, thr, b)
         IN \/ end.tmax = -Unit /\ \A i \in b .. Window - 1 : ~Back(p, thr, s[i])
            \/ \E e : EndsAt(p, s, thr, b, e, end)
<1> DEFINE back == {i \in b .. Window - 1 : Back(p, thr, s[i])}
           e == Smallest(back)
           end == FindTMax(p, s, thr, b)
<1>1. /\ Window \in Nat /\ Window > 1
      /\ \A i \in 0 .. Window - 1 : s[i] \in Int
  BY SampleIs DEF Wave
<1>2. end = IF back = {} THEN [tmax |-> -Unit, pileup |-> 0]
            ELSE [tmax |-> Between(s, e, thr),
                  pileup |-> IF \E i \in e .. Window - 1 :
                                  i < b + p.deadtime /\ Over(p, thr, s[i]) THEN 1 ELSE 0]
  BY DEF FindTMax
<1>3. CASE back = {}
  <2>1. end.tmax = -Unit
    BY <1>2, <1>3
  <2> QED BY <1>3, <2>1
<1>4. CASE back # {}
  <2>1. \A a \in back : a \in Int /\ b <= a
    BY <1>1
  <2>2. e \in back /\ \A i \in back : e <= i
    <3> HIDE DEF back
    <3> QED BY <1>4, <2>1, SmallestIs
  <2> HIDE DEF e
  <2>3. e \in b + 1 .. Window - 1 /\ Back(p, thr, s[e])
    BY <1>1, <2>2
  <2>4. \A i \in b .. e - 1 : ~Back(p, thr, s[i])
    BY <1>1, <2>2, <2>3
  <2> HIDE DEF back, end
  <2>5. e - 1 \in b .. e - 1 /\ e - 1 \in 0 .. Window - 1 /\ e \in 1 .. Window - 1
    BY <1>1, <2>3
  <2>6. s[e] \in Int /\ s[e - 1] \in Int /\ ~Back(p, thr, s[e - 1])
    BY <1>1, <2>4, <2>5
  <2>7. \/ s[e - 1] <= thr /\ thr < s[e]
        \/ s[e] < thr /\ thr <= s[e - 1]
    BY <2>3, <2>6 DEF Back, ParIs
  <2>8. end.tmax = Between(s, e, thr)
    BY <1>2, <1>4
  <2>9. /\ end.tmax \in Nat /\ (e - 1) * Unit <= end.tmax /\ end.tmax < e * Unit
        /\ LineAt(s, end.tmax) = thr * Unit
    BY <2>5, <2>7, <2>8, CrossIs DEF Wave
  <2>10. EndsAt(p, s, thr, b, e, end)
    BY <1>2, <1>4, <2>3, <2>4, <2>9 DEF EndsAt
  <2> QED BY <2>10 DEF end
<1> QED BY <1>3, <1>4

(* Without its base line a waveform is one, and the amplitude is its       *)
(* largest sample in the direction of the polarity.                        *)
LEMMA BaseIs ==
  ASSUME NEW p, ParIs(p), NEW w, Wave(w)
  PROVE  LET s == Minus(w, BaseLine(p, w))
         IN /\ BaseLine(p, w) \in Int /\ Wave(s)
            /\ Amplitude(p, s) \in Int /\ Threshold(p, s) \in Int
            /\ \A i \in Samples : s[i] = w[i] - BaseLine(p, w)
            /\ \E i \in Samples : s[i] = IF p.pol = 1 THEN Amplitude(p, s) ELSE -Amplitude(p, s)
            /\ \A i \in Samples : IF p.pol = 1 THEN s[i] <= Amplitude(p, s) ELSE s[i] >= -Amplitude(p, s)
<1> DEFINE bl == BaseLine(p, w)
           s == Minus(w, bl)
           amp == Amplitude(p, s)
<1>1. /\ Window \in Nat /\ Window > 1 /\ Samples = 0 .. Window - 1
      /\ \A i \in 0 .. Window - 1 : w[i] \in Int
      /\ BaseLength \in 1 .. Window
  BY SampleIs, LengthsAssumption DEF Wave
<1>2. bl \in Int
  <2> DEFINE I == 0 .. BaseLength - 1
  <2>1. 0 \in Int /\ BaseLength - 1 \in Int
    BY <1>1
  <2>2. IsFiniteSet(I)
    BY <2>1, FS_Interval
  <2>3. \A i \in I : w[i] \in Int
    BY <1>1
  <2> HIDE DEF I
  <2>4. Sum(w, I) \in Int
    BY <2>2, <2>3, SumIs
  <2>5. Mean(w) \in Int
    BY <1>1, <2>4 DEF Mean, I
  <2> QED BY <2>5 DEF BaseLine, ParIs
<1> HIDE DEF bl
<1>3. DOMAIN w = Samples /\ DOMAIN s = Samples /\ \A i \in Samples : s[i] = w[i] - bl /\ s[i] \in Int
  BY <1>1, <1>2 DEF Minus, Wave, Waveforms
<1>4. s \in Waveforms
  <2>1. s = [i \in Samples |-> w[i] - bl]
    BY <1>3 DEF Minus
  <2> QED BY <1>1, <1>2, <2>1 DEF Waveforms
<1> HIDE DEF s
<1>5. UnitFits(s)
  <2> SUFFICES ASSUME NEW i \in 1 .. Window - 1, s[i] # s[i - 1]
               PROVE  \E d \in -Unit .. Unit : d * (s[i] - s[i - 1]) = Unit
    BY DEF UnitFits
  <2>1. i \in Samples /\ i - 1 \in Samples
    BY <1>1
  <2>2. s[i] - s[i - 1] = w[i] - w[i - 1] /\ w[i] # w[i - 1]
    BY <1>1, <1>2, <1>3, <2>1
  <2> QED BY <2>2 DEF Wave, UnitFits
<1>6. /\ \E i \in Samples : s[i] = Largest(Values(s))
      /\ \E i \in Samples : s[i] = Smallest(Values(s))
      /\ \A i \in Samples : Smallest(Values(s)) <= s[i] /\ s[i] <= Largest(Values(s))
  BY <1>4, ExtremesAre
<1> DEFINE high == Largest(Values(s))
           low == Smallest(Values(s))
<1> HIDE DEF high, low
<1>7. high \in Int /\ low \in Int
  BY <1>3, <1>6 DEF high, low
<1>8. amp = IF p.pol = 1 THEN high ELSE -low
  BY DEF Amplitude, high, low
<1> HIDE DEF amp
<1>9. amp \in Int
  BY <1>7, <1>8
<1>10. Threshold(p, s) \in Int
  <2>1. Threshold(p, s) = IF p.anamode = 0 THEN p.thr ELSE (p.thr * amp) \div 100
    BY DEF Threshold, amp
  <2>2. p.thr \in Int
    BY DEF ParIs
  <2>3. (p.thr * amp) \div 100 \in Int
    <3>1. p.thr * amp \in Int
      BY <1>9, <2>2
    <3> QED BY <3>1
  <2> QED BY <2>1, <2>2, <2>3
<1>11. p.pol # 1 => -amp = low
  BY <1>7, <1>8
<1>12. \E i \in Samples : s[i] = IF p.pol = 1 THEN amp ELSE -amp
  BY <1>6, <1>8, <1>11 DEF high, low
<1>13. \A i \in Samples : IF p.pol = 1 THEN s[i] <= amp ELSE s[i] >= -amp
  BY <1>3, <1>6, <1>7, <1>8, <1>11 DEF high, low
<1> QED BY <1>2, <1>3, <1>4, <1>5, <1>9, <1>10, <1>12, <1>13 DEF Wave, bl, s, amp

(* Where the integral ends.                                                *)
LEMMA StopIs ==
  ASSUME NEW p, ParIs(p), NEW b \in 0 .. Window - 2, NEW tmax \in Int
  PROVE  OffsetStop(p, b, tmax) =
           IF p.intmode > 0 THEN IF b + p.intmode >= Window THEN Window - 1 ELSE b + p.intmode
           ELSE IF tmax >= Window THEN Window - 1 ELSE tmax
<1>1. Window \in Nat /\ p.intmode \in Nat
  BY WindowIs DEF ParIs
<1> DEFINE len == IF p.intmode <= 0 THEN tmax - b ELSE p.intmode
<1>2. OffsetStop(p, b, tmax) = b + (IF len + b >= Window THEN Window - b - 1 ELSE len)
  BY DEF OffsetStop
<1>3. CASE p.intmode > 0
  <2>1. len = p.intmode
    BY <1>1, <1>3
  <2> HIDE DEF len
  <2> QED BY <1>1, <1>2, <1>3, <2>1
<1>4. CASE p.intmode = 0
  <2>1. len = tmax - b
    BY <1>4
  <2> HIDE DEF len
  <2>2. b + (tmax - b) = tmax /\ (tmax - b) + b = tmax /\ b + (Window - b - 1) = Window - 1
    BY <1>1
  <2> QED BY <1>1, <1>2, <1>4, <2>1, <2>2
<1> QED BY <1>1, <1>3, <1>4

(* A time of part of a sample belongs to the sample before, and the -1 of  *)
(* a signal without an end to no sample.                                   *)
LEMMA UnitDiv ==
  /\ (-Unit) \div Unit = -1
  /\ \A t, e \in Int : (e - 1) * Unit <= t /\ t < e * Unit => t \div Unit = e - 1
<1> DEFINE u == Unit
<1>1. u \in Nat /\ u > 0
  BY UnitIs
<1> HIDE DEF u
<1>2. (-u) \div u = -1
  BY <1>1
<1>3. ASSUME NEW t \in Int, NEW e \in Int, (e - 1) * u <= t, t < e * u PROVE t \div u = e - 1
  <2>1. e * u = (e - 1) * u + u /\ (e - 1) * u \in Int
    BY <1>1
  <2> DEFINE c == e - 1
             q == t - c * u
  <2>2. c \in Int /\ q \in Int /\ 0 <= q /\ q < u /\ t = c * u + q
    BY <1>1, <1>3, <2>1
  <2> HIDE DEF c, q
  <2>3. (c * u + q) \div u = c
    BY <1>1, <2>2
  <2> QED BY <2>2, <2>3 DEF c
<1> QED BY <1>2, <1>3 DEF u

(* What is known of a signal that has a beginning.                         *)
LEMMA SignalIs ==
  ASSUME NEW p, ParIs(p), NEW s, Wave(s), NEW thr \in Int, NEW k, NEW t0, BeginsAt(p, s, thr, k, t0)
  PROVE  LET b == Ceil(t0)
             end == FindTMax(p, s, thr, b)
             tm == end.tmax \div Unit
         IN /\ b \in 0 .. Window - 2 /\ b <= k
            /\ \/ /\ end.tmax = -Unit /\ tm = -1
                  /\ \A i \in b .. Window - 1 : ~Back(p, thr, s[i])
               \/ \E e : EndsAt(p, s, thr, b, e, end) /\ tm = e - 1
<1> DEFINE b == Ceil(t0)
           end == FindTMax(p, s, thr, b)
           tm == end.tmax \div Unit
<1>1. b \in 0 .. Window - 2 /\ b \in {k - 1, k} /\ ~Back(p, thr, s[b]) /\ k \in Int
  <2>1. k \in Int
    BY WindowIs DEF BeginsAt
  <2> QED BY <2>1, CeilBegins
<1> HIDE DEF b
<1>2. \/ end.tmax = -Unit /\ \A i \in b .. Window - 1 : ~Back(p, thr, s[i])
      \/ \E e : EndsAt(p, s, thr, b, e, end)
  BY <1>1, TMaxIs
<1> HIDE DEF end
<1>3. ASSUME NEW e, EndsAt(p, s, thr, b, e, end) PROVE tm = e - 1
  <2>1. e \in Int /\ end.tmax \in Int /\ (e - 1) * Unit <= end.tmax /\ end.tmax < e * Unit
    BY <1>1, <1>3 DEF EndsAt
  <2> QED BY <2>1, UnitDiv
<1>4. end.tmax = -Unit => tm = -1
  BY UnitDiv
<1> QED BY <1>1, <1>2, <1>3, <1>4 DEF b, end

(* A program that runs out of its memory was given a signal that stays.    *)
LEMMA RunsAwayIs ==
  ASSUME NEW p, ParIs(p), NEW w, Wave(w), RunsAway(p, w)
  PROVE  LET s == Minus(w, BaseLine(p, w))
             thr == Threshold(p, s)
         IN /\ p.intmode = 0
            /\ \E i \in Samples : Over(p, thr, s[i]) /\ \A k \in i .. Window - 1 : ~Back(p, thr, s[k])
<1> DEFINE s == Minus(w, BaseLine(p, w))
           thr == Threshold(p, s)
           t0 == FindT0(p, s, thr)
           b == Ceil(t0)
           end == FindTMax(p, s, thr, b)
           tm == end.tmax \div Unit
<1>1. Wave(s) /\ thr \in Int
  BY BaseIs
<1>2. t0 # None /\ OffsetStop(p, b, tm) < 0
  BY DEF RunsAway
<1> HIDE DEF s, thr
<1>3. PICK k : BeginsAt(p, s, thr, k, t0)
  BY <1>1, <1>2, T0Is
<1> HIDE DEF t0
<1>4. /\ b \in 0 .. Window - 2 /\ b <= k
      /\ \/ /\ end.tmax = -Unit /\ tm = -1
            /\ \A i \in b .. Window - 1 : ~Back(p, thr, s[i])
         \/ \E e : EndsAt(p, s, thr, b, e, end) /\ tm = e - 1
  BY <1>1, <1>3, SignalIs
<1> HIDE DEF tm, end, b
<1>5. tm \in Int /\ Window \in Nat /\ p.intmode \in Nat /\ k \in 0 .. Window - 2
  BY <1>3, <1>4, WindowIs DEF EndsAt, ParIs, BeginsAt
<1>6. p.intmode = 0 /\ tm < 0
  BY <1>2, <1>4, <1>5, StopIs
<1>7. \A i \in b .. Window - 1 : ~Back(p, thr, s[i])
  <2>1. ~\E e : EndsAt(p, s, thr, b, e, end) /\ tm = e - 1
    BY <1>4, <1>5, <1>6 DEF EndsAt
  <2> QED BY <1>4, <2>1
<1>8. k \in Samples /\ Over(p, thr, s[k]) /\ \A i \in k .. Window - 1 : i \in b .. Window - 1
  BY <1>3, <1>4, <1>5 DEF Samples, BeginsAt
<1> QED BY <1>6, <1>7, <1>8 DEF s, thr

(* The samples that are integrated.                                        *)
LEMMA IntegralIs ==
  ASSUME NEW p, ParIs(p), NEW b \in 0 .. Window - 2, NEW tm \in Int, p.intmode = 0 => tm >= 0,
         NEW last, last = Smallest({IF p.intmode > 0 THEN b + p.intmode ELSE tm, Window - 1})
  PROVE  OffsetStart(b) .. OffsetStop(p, b, tm) - 1 = {i \in Samples : b - Before <= i /\ i < last}
<1> DEFINE first == OffsetStart(b)
           stop == OffsetStop(p, b, tm)
           a == IF p.intmode > 0 THEN b + p.intmode ELSE tm
<1>1. Window \in Nat /\ Window > 1 /\ p.intmode \in Nat /\ Before \in Nat /\ a \in Int
  BY WindowIs, LengthsAssumption DEF ParIs
<1>2. stop = IF p.intmode > 0 THEN IF b + p.intmode >= Window THEN Window - 1 ELSE b + p.intmode
             ELSE IF tm >= Window THEN Window - 1 ELSE tm
  BY StopIs
<1>3. last = IF a <= Window - 1 THEN a ELSE Window - 1
  <2>1. last = CHOOSE c \in {a, Window - 1} : \A d \in {a, Window - 1} : c <= d
    BY DEF Smallest
  <2> HIDE DEF a
  <2>2. Window - 1 \in Int /\ \A c \in {a, Window - 1} : c = a \/ c = Window - 1
    BY <1>1
  <2>3. last \in {a, Window - 1} /\ \A d \in {a, Window - 1} : last <= d
    <3>1. \E c \in {a, Window - 1} : \A d \in {a, Window - 1} : c <= d
      BY <1>1, <2>2
    <3> QED BY <2>1, <3>1
  <2> QED BY <1>1, <2>2, <2>3
<1>4. stop = last
  BY <1>1, <1>2, <1>3
<1>5. first = IF b <= Before THEN 0 ELSE b - Before
  BY DEF OffsetStart
<1> HIDE DEF stop, first
<1>6. last \in Int /\ last <= Window - 1 /\ first \in Nat
  BY <1>1, <1>3, <1>5
<1>7. ASSUME NEW i \in Int PROVE i \in first .. last - 1 <=> i \in 0 .. Window - 1 /\ b - Before <= i /\ i < last
  BY <1>1, <1>5, <1>6
<1> QED BY <1>1, <1>4, <1>6, <1>7 DEF first, stop, Samples

(* What decode finds in a waveform is what the waveform says.              *)
LEMMA AnalysisIs ==
  ASSUME NEW p, ParIs(p), NEW w, Wave(w), ~RunsAway(p, w)
  PROVE  IsAnalysisOf(p, Analysis(p, w), w)
<1> DEFINE sig == Analysis(p, w)
           s == Minus(w, BaseLine(p, w))
           thr == Threshold(p, s)
           t0 == FindT0(p, s, thr)
           b == Ceil(t0)
           end == FindTMax(p, s, thr, b)
           tm == end.tmax \div Unit
           sum == Sum(s, OffsetStart(b) .. OffsetStop(p, b, tm) - 1)
<1>1. sig = [amp |-> Amplitude(p, s), bl |-> BaseLine(p, w), veto |-> FindVeto(p, s), t0 |-> t0,
             tot |-> IF t0 = None THEN None ELSE end.tmax - t0,
             charge |-> IF t0 = None THEN None ELSE IF p.pol = 0 THEN -sum ELSE sum,
             pileup |-> IF t0 = None THEN 0 ELSE end.pileup]
  BY Zenon DEF Analysis
<1> HIDE DEF sig
<1>2. /\ sig.amp = Amplitude(p, s) /\ sig.bl = BaseLine(p, w) /\ sig.t0 = t0
      /\ t0 # None => /\ sig.tot = end.tmax - t0
                      /\ sig.charge = IF p.pol = 0 THEN -sum ELSE sum
                      /\ sig.pileup = end.pileup
  BY <1>1
<1>3. /\ Wave(s) /\ thr \in Int
      /\ \E i \in Samples : s[i] = IF p.pol = 1 THEN sig.amp ELSE -sig.amp
      /\ \A i \in Samples : IF p.pol = 1 THEN s[i] <= sig.amp ELSE s[i] >= -sig.amp
  BY <1>2, BaseIs
<1>4. thr = IF p.anamode = 0 THEN p.thr ELSE (p.thr * sig.amp) \div 100
  BY <1>2 DEF Threshold
<1>5. s = Minus(w, sig.bl)
  BY <1>2
<1>6. ~RunsAway(p, w) => t0 = None \/ ~(OffsetStop(p, b, tm) < 0)
  BY DEF RunsAway
<1> HIDE DEF s, thr, t0
<1>7. /\ t0 = None => \A i \in 0 .. Window - 2 : ~Over(p, thr, s[i])
      /\ t0 # None => \E k : BeginsAt(p, s, thr, k, t0)
  BY <1>3, T0Is DEF t0
<1>8. Window \in Nat /\ Window > 1 /\ Unit \in Nat /\ Unit > 0 /\ Samples = 0 .. Window - 1
  BY WindowIs, UnitIs DEF Samples
<1>9. t0 = None <=> \A i \in 0 .. Window - 2 : ~Over(p, thr, s[i])
  BY <1>7 DEF BeginsAt
<1> DEFINE e1 == sig.t0 + sig.tot
           returns == \E i \in Samples : i * Unit >= sig.t0 /\ Back(p, thr, s[i])
           last == Smallest({IF p.intmode > 0 THEN Ceil(sig.t0) + p.intmode ELSE e1 \div Unit, Window - 1})
           charge == Sum(s, {i \in Samples : Ceil(sig.t0) - Before <= i /\ i < last})
<1>10. ASSUME t0 # None
       PROVE  /\ (sig.t0 = 0 /\ Over(p, thr, s[0])) \/ LineAt(s, sig.t0) = thr * Unit
              /\ \E i \in Samples : Over(p, thr, s[i]) /\ (i - 1) * Unit <= sig.t0
              /\ \A i \in Samples : i * Unit < sig.t0 => ~Over(p, thr, s[i])
              /\ IF returns
                   THEN /\ LineAt(s, e1) = thr * Unit
                        /\ \A i \in Samples : i * Unit \in sig.t0 .. e1 => ~Back(p, thr, s[i])
                        /\ sig.pileup = 1 <=>
                             \E i \in Samples : /\ i * Unit > e1 /\ Over(p, thr, s[i])
                                                /\ i < Ceil(sig.t0) + p.deadtime
                   ELSE p.intmode > 0 /\ e1 = -Unit
              /\ sig.charge = IF p.pol = 0 THEN -charge ELSE charge
  <2>1. PICK k : BeginsAt(p, s, thr, k, t0)
    BY <1>7, <1>10
  <2>2. /\ k \in 0 .. Window - 2 /\ Over(p, thr, s[k]) /\ t0 \in Nat /\ (k - 1) * Unit <= t0
        /\ \A i \in 0 .. k - 1 : ~Over(p, thr, s[i])
        /\ t0 <= k * Unit
        /\ (t0 = 0 /\ Over(p, thr, s[0])) \/ LineAt(s, t0) = thr * Unit
    <3>1. 0 * Unit = 0
      BY <1>8
    <3> QED BY <1>8, <2>1, <3>1 DEF BeginsAt
  <2>3. /\ b \in 0 .. Window - 2 /\ b <= k
        /\ \/ /\ end.tmax = -Unit /\ tm = -1
              /\ \A i \in b .. Window - 1 : ~Back(p, thr, s[i])
           \/ \E e : EndsAt(p, s, thr, b, e, end) /\ tm = e - 1
    BY <1>3, <2>1, SignalIs
  <2>4. b \in Int /\ \A i \in Int : i >= b <=> i * Unit >= t0
    BY <2>2, CeilIs
  <2>5. Ceil(sig.t0) = b
    BY <1>2
  <2> HIDE DEF b, end, tm
  <2>6. end.tmax \in Int
    BY <1>8, <2>3 DEF EndsAt
  <2>7. e1 = end.tmax
    BY <1>2, <1>10, <2>2, <2>6
  <2> HIDE DEF e1
  <2>8. \A i \in Samples : i * Unit < t0 => ~Over(p, thr, s[i])
    <3> SUFFICES ASSUME NEW i \in Samples, i * Unit < t0 PROVE i \in 0 .. k - 1
      BY <2>2
    <3> DEFINE u == Unit
    <3>1. i >= k => i * u >= k * u
      <4> HIDE DEF u
      <4>1. u \in Nat /\ i \in Int /\ k \in Int
        BY <1>8, <2>2 DEF u
      <4> QED BY <4>1
    <3>2. i \in Int /\ k \in Int /\ i * u \in Int /\ k * u \in Int
      BY <1>8, <2>2
    <3> HIDE DEF u
    <3> QED BY <1>8, <2>2, <3>1, <3>2 DEF u
  <2>9. returns <=> \E i \in b .. Window - 1 : Back(p, thr, s[i])
    <3>1. ASSUME NEW i \in Samples PROVE i * Unit >= t0 <=> i \in b .. Window - 1
      <4>1. i \in Int /\ i <= Window - 1
        BY <1>8
      <4> QED BY <1>8, <2>4, <4>1
    <3>2. \A i \in b .. Window - 1 : i \in Samples
      BY <1>8, <2>3
    <3> QED BY <1>2, <3>1, <3>2
  <2>10. CASE end.tmax = -Unit /\ tm = -1 /\ \A i \in b .. Window - 1 : ~Back(p, thr, s[i])
    <3>1. p.intmode > 0
      <4>1. p.intmode \in Nat
        BY DEF ParIs
      <4>2. OffsetStop(p, b, tm) = tm \/ p.intmode > 0
        BY <1>8, <2>3, <2>10, <4>1, StopIs
      <4>3. ~(OffsetStop(p, b, tm) < 0)
        BY <1>6, <1>10 DEF b, tm, end
      <4> QED BY <2>10, <4>2, <4>3
    <3>2. ~returns
      BY <2>9, <2>10
    <3>3. sig.charge = IF p.pol = 0 THEN -charge ELSE charge
      <4>1. last = Smallest({IF p.intmode > 0 THEN b + p.intmode ELSE tm, Window - 1})
        BY <2>5, <3>1
      <4>2. tm \in Int
        BY <2>10
      <4> HIDE DEF last
      <4>3. OffsetStart(b) .. OffsetStop(p, b, tm) - 1 = {i \in Samples : b - Before <= i /\ i < last}
        BY <2>3, <3>1, <4>1, <4>2, IntegralIs
      <4>4. sum = charge
        BY <2>5, <4>3
      <4> QED BY <1>2, <1>10, <4>4
    <3> HIDE DEF returns, charge
    <3> QED BY <1>2, <1>8, <2>2, <2>7, <2>8, <2>10, <3>1, <3>2, <3>3
  <2>11. ASSUME NEW e, EndsAt(p, s, thr, b, e, end), tm = e - 1
         PROVE  /\ returns
                /\ LineAt(s, e1) = thr * Unit
                /\ \A i \in Samples : i * Unit \in sig.t0 .. e1 => ~Back(p, thr, s[i])
                /\ sig.pileup = 1 <=>
                     \E i \in Samples : /\ i * Unit > e1 /\ Over(p, thr, s[i])
                                        /\ i < Ceil(sig.t0) + p.deadtime
                /\ sig.charge = IF p.pol = 0 THEN -charge ELSE charge
    <3>1. /\ e \in b + 1 .. Window - 1 /\ Back(p, thr, s[e])
          /\ \A i \in b .. e - 1 : ~Back(p, thr, s[i])
          /\ end.tmax \in Nat /\ (e - 1) * Unit <= end.tmax /\ end.tmax < e * Unit
          /\ LineAt(s, end.tmax) = thr * Unit
          /\ end.pileup = IF \E i \in e .. Window - 1 : i < b + p.deadtime /\ Over(p, thr, s[i]) THEN 1 ELSE 0
      BY <2>11 DEF EndsAt
    <3>2. returns
      BY <1>8, <2>4, <2>9, <3>1
    <3>3. \A i \in Samples : i * Unit > end.tmax <=> i >= e
      <4> SUFFICES ASSUME NEW i \in Samples PROVE i * Unit > end.tmax <=> i >= e
        OBVIOUS
      <4> DEFINE u == Unit
                 t == end.tmax
      <4>1. u \in Nat /\ i \in Int /\ e \in Int /\ t \in Int /\ (e - 1) * u <= t /\ t < e * u
        BY <1>8, <2>4, <3>1
      <4> HIDE DEF u, t
      <4>2. i >= e => i * u >= e * u
        BY <4>1
      <4>3. i <= e - 1 => i * u <= (e - 1) * u
        BY <4>1
      <4>4. i * u \in Int /\ e * u \in Int /\ (e - 1) * u \in Int
        BY <4>1
      <4>5. i * u > t <=> i >= e
        BY <4>1, <4>2, <4>3, <4>4
      <4> QED BY <4>5 DEF u, t
    <3>4. \A i \in Samples : i * Unit \in t0 .. end.tmax => ~Back(p, thr, s[i])
      <4> SUFFICES ASSUME NEW i \in Samples, i * Unit \in t0 .. end.tmax PROVE i \in b .. e - 1
        BY <3>1
      <4>1. i \in Int /\ i * Unit \in Int /\ i * Unit >= t0 /\ ~(i * Unit > end.tmax)
        BY <1>8, <2>2, <3>1
      <4>2. i >= b /\ ~(i >= e)
        BY <2>4, <3>3, <4>1
      <4> QED BY <2>4, <3>1, <4>1, <4>2
    <3>5. end.pileup = 1 <=> \E i \in Samples : i * Unit > end.tmax /\ Over(p, thr, s[i]) /\ i < b + p.deadtime
      <4>1. \A i : i \in e .. Window - 1 <=> i \in Samples /\ i >= e
        BY <1>8, <2>3, <3>1
      <4>2. (\E i \in e .. Window - 1 : i < b + p.deadtime /\ Over(p, thr, s[i]))
              <=> \E i \in Samples : i * Unit > end.tmax /\ Over(p, thr, s[i]) /\ i < b + p.deadtime
        BY <3>3, <4>1
      <4> QED BY <3>1, <4>2
    <3>6. sig.charge = IF p.pol = 0 THEN -charge ELSE charge
      <4>1. tm \in Int /\ tm >= 0
        BY <2>3, <2>11, <3>1
      <4>2. e1 \div Unit = tm
        BY <2>7 DEF tm
      <4>3. last = Smallest({IF p.intmode > 0 THEN b + p.intmode ELSE tm, Window - 1})
        BY <2>5, <4>2
      <4> HIDE DEF last
      <4>4. OffsetStart(b) .. OffsetStop(p, b, tm) - 1 = {i \in Samples : b - Before <= i /\ i < last}
        BY <2>3, <4>1, <4>3, IntegralIs
      <4>5. sum = charge
        BY <2>5, <4>4
      <4> QED BY <1>2, <1>10, <4>5
    <3> HIDE DEF returns, charge
    <3> QED BY <1>2, <1>10, <2>5, <2>7, <3>1, <3>2, <3>4, <3>5, <3>6
  <2>12. /\ (sig.t0 = 0 /\ Over(p, thr, s[0])) \/ LineAt(s, sig.t0) = thr * Unit
         /\ \E i \in Samples : Over(p, thr, s[i]) /\ (i - 1) * Unit <= sig.t0
         /\ \A i \in Samples : i * Unit < sig.t0 => ~Over(p, thr, s[i])
    <3>1. k \in Samples
      BY <1>8, <2>2
    <3> QED BY <1>2, <2>2, <2>8, <3>1
  <2> HIDE DEF returns, charge
  <2>13. CASE \E e : EndsAt(p, s, thr, b, e, end) /\ tm = e - 1
    BY <2>11, <2>12, <2>13
  <2> QED BY <2>3, <2>10, <2>13
<1>11. IsAnalysisOf(p, sig, w) <=>
         LET ss == Minus(w, sig.bl)
             thre == IF p.anamode = 0 THEN p.thr ELSE (p.thr * sig.amp) \div 100
         IN
         /\ \E i \in Samples : ss[i] = IF p.pol = 1 THEN sig.amp ELSE -sig.amp
         /\ \A i \in Samples : IF p.pol = 1 THEN ss[i] <= sig.amp ELSE ss[i] >= -sig.amp
         /\ sig.t0 = None <=> \A i \in 0 .. Window - 2 : ~Over(p, thre, ss[i])
         /\ sig.t0 # None =>
              /\ (sig.t0 = 0 /\ Over(p, thre, ss[0])) \/ LineAt(ss, sig.t0) = thre * Unit
              /\ \E i \in Samples : Over(p, thre, ss[i]) /\ (i - 1) * Unit <= sig.t0
              /\ \A i \in Samples : i * Unit < sig.t0 => ~Over(p, thre, ss[i])
              /\ IF \E i \in Samples : i * Unit >= sig.t0 /\ Back(p, thre, ss[i])
                   THEN /\ LineAt(ss, e1) = thre * Unit
                        /\ \A i \in Samples : i * Unit \in sig.t0 .. e1 => ~Back(p, thre, ss[i])
                        /\ sig.pileup = 1 <=>
                             \E i \in Samples : /\ i * Unit > e1 /\ Over(p, thre, ss[i])
                                                /\ i < Ceil(sig.t0) + p.deadtime
                   ELSE p.intmode > 0 /\ e1 = -Unit
              /\ sig.charge = IF p.pol = 0 THEN -Sum(ss, {i \in Samples : Ceil(sig.t0) - Before <= i /\ i < last})
                                          ELSE Sum(ss, {i \in Samples : Ceil(sig.t0) - Before <= i /\ i < last})
  BY Zenon DEF IsAnalysisOf
<1>12. IsAnalysisOf(p, sig, w) <=>
         /\ \E i \in Samples : s[i] = IF p.pol = 1 THEN sig.amp ELSE -sig.amp
         /\ \A i \in Samples : IF p.pol = 1 THEN s[i] <= sig.amp ELSE s[i] >= -sig.amp
         /\ sig.t0 = None <=> \A i \in 0 .. Window - 2 : ~Over(p, thr, s[i])
         /\ sig.t0 # None =>
              /\ (sig.t0 = 0 /\ Over(p, thr, s[0])) \/ LineAt(s, sig.t0) = thr * Unit
              /\ \E i \in Samples : Over(p, thr, s[i]) /\ (i - 1) * Unit <= sig.t0
              /\ \A i \in Samples : i * Unit < sig.t0 => ~Over(p, thr, s[i])
              /\ IF returns
                   THEN /\ LineAt(s, e1) = thr * Unit
                        /\ \A i \in Samples : i * Unit \in sig.t0 .. e1 => ~Back(p, thr, s[i])
                        /\ sig.pileup = 1 <=>
                             \E i \in Samples : /\ i * Unit > e1 /\ Over(p, thr, s[i])
                                                /\ i < Ceil(sig.t0) + p.deadtime
                   ELSE p.intmode > 0 /\ e1 = -Unit
              /\ sig.charge = IF p.pol = 0 THEN -charge ELSE charge
  BY <1>4, <1>5, <1>11, ZenonT(60)
<1> HIDE DEF returns, charge, e1
<1>13. IsAnalysisOf(p, sig, w)
  BY <1>2, <1>3, <1>9, <1>10, <1>12
<1> QED BY <1>13 DEF sig

-----------------------------------------------------------------------------
(* Part 5: the categories of an event, filled channel by channel, and the  *)
(* events written.                                                         *)

(* What a category has after n channels: the value of the last one at a    *)
(* position and side, and the fibre of the last one at a position.         *)
Written(objects, n, pos, fib, side, val) ==
  /\ DOMAIN objects = {pos[c] : c \in 1 .. n}
  /\ \A c \in 1 .. n : (\A d \in c + 1 .. n : pos[d] # pos[c] \/ side[d] # side[c])
                         => objects[pos[c]][side[c]] = val[c]
  /\ \A c \in 1 .. n : (\A d \in c + 1 .. n : pos[d] # pos[c]) => objects[pos[c]].fibre = fib[c]

(* An empty category has nothing of no channels.                           *)
LEMMA NothingWritten ==
  ASSUME NEW pos, NEW fib, NEW side, NEW val
  PROVE  Written(<<>>, 0, pos, fib, side, val)
BY DEF Written

(* setAddress and the values of a side add the next channel.               *)
LEMMA StoredIs ==
  ASSUME NEW objects, NEW n \in Nat, NEW pos, NEW fib, NEW side, NEW val,
         Written(objects, n, pos, fib, side, val),
         \A c \in 1 .. n + 1 : side[c] \in {"l", "r"}
  PROVE  Written(Stored(objects, pos[n + 1], fib[n + 1], side[n + 1], val[n + 1]), n + 1, pos, fib, side, val)
<1> DEFINE m == n + 1
           old == IF pos[m] \in DOMAIN objects THEN objects[pos[m]] ELSE [l |-> None, r |-> None]
           new == [fibre |-> fib[m],
                   l |-> IF side[m] = "l" THEN val[m] ELSE old.l,
                   r |-> IF side[m] = "r" THEN val[m] ELSE old.r]
           stored == Stored(objects, pos[m], fib[m], side[m], val[m])
<1>1. stored = [q \in DOMAIN objects \cup {pos[m]} |-> IF q = pos[m] THEN new ELSE objects[q]]
  BY DEF Stored
<1>2. /\ m \in Nat /\ m \in 1 .. m
      /\ \A c \in 1 .. m : c = m \/ (c \in 1 .. n /\ c # m)
      /\ \A c \in 1 .. n : c \in 1 .. m /\ c # m
      /\ \A c \in 1 .. n : m \in c + 1 .. m /\ \A d \in c + 1 .. n : d \in c + 1 .. m
      /\ \A c \in 1 .. n : \A d \in c + 1 .. m : d = m \/ d \in c + 1 .. n
  OBVIOUS
<1>3. stored[pos[m]] = new /\ \A q \in DOMAIN objects : q # pos[m] => stored[q] = objects[q]
  BY <1>1
<1>4. /\ new.fibre = fib[m] /\ new[side[m]] = val[m]
      /\ \A t \in {"l", "r"} : t # side[m] => new[t] = old[t]
  <2>1. side[m] \in {"l", "r"}
    BY <1>2
  <2> HIDE DEF m, old
  <2> QED BY <2>1
<1> HIDE DEF new, stored
<1>5. DOMAIN stored = {pos[c] : c \in 1 .. m}
  <2>1. DOMAIN stored = DOMAIN objects \cup {pos[m]}
    BY <1>1
  <2>2. DOMAIN objects = {pos[c] : c \in 1 .. n}
    BY DEF Written
  <2> HIDE DEF m
  <2> QED BY <1>2, <2>1, <2>2
<1>6. ASSUME NEW c \in 1 .. m, \A d \in c + 1 .. m : pos[d] # pos[c] \/ side[d] # side[c]
      PROVE  stored[pos[c]][side[c]] = val[c]
  <2> HIDE DEF m
  <2>1. CASE c = m
    BY <1>3, <1>4, <2>1
  <2>2. CASE c # m
    <3>1. c \in 1 .. n /\ pos[c] \in DOMAIN objects /\ (pos[m] # pos[c] \/ side[m] # side[c])
      BY <1>2, <1>6, <2>2 DEF Written
    <3>2. objects[pos[c]][side[c]] = val[c]
      BY <1>2, <1>6, <3>1 DEF Written
    <3>3. CASE pos[m] # pos[c]
      BY <1>3, <3>1, <3>2, <3>3
    <3>4. CASE pos[m] = pos[c]
      <4>1. old = objects[pos[c]]
        BY <3>1, <3>4
      <4>2. side[c] \in {"l", "r"} /\ side[c] # side[m]
        BY <3>1, <3>4 DEF m
      <4> HIDE DEF old
      <4> QED BY <1>3, <1>4, <3>2, <3>4, <4>1, <4>2
    <3> QED BY <3>3, <3>4
  <2> QED BY <2>1, <2>2
<1>7. ASSUME NEW c \in 1 .. m, \A d \in c + 1 .. m : pos[d] # pos[c]
      PROVE  stored[pos[c]].fibre = fib[c]
  <2> HIDE DEF m
  <2>1. CASE c = m
    BY <1>3, <1>4, <2>1
  <2>2. CASE c # m
    <3>1. c \in 1 .. n /\ pos[c] \in DOMAIN objects /\ pos[m] # pos[c]
      BY <1>2, <1>7, <2>2 DEF Written
    <3>2. objects[pos[c]].fibre = fib[c]
      BY <1>2, <1>7, <3>1 DEF Written
    <3> QED BY <1>3, <3>1, <3>2
  <2> QED BY <2>1, <2>2
<1>8. Written(stored, m, pos, fib, side, val)
  <2> HIDE DEF m
  <2> QED BY <1>5, <1>6, <1>7 DEF Written
<1> QED BY <1>8 DEF stored

(* Position, fibre and side of the channels, and what they give for the    *)
(* record e.                                                               *)
Ids == DOMAIN camp.channels
SamplesAt == [c \in Ids |-> SamplePos(camp.channels[c])]
RawAt == [c \in Ids |-> RawPos(camp.channels[c])]
FibreOf == [c \in Ids |-> Fibre(camp.channels[c])]
SideOf == [c \in Ids |-> camp.channels[c].side]
SignalOf(e) == [c \in Ids |-> Analysis(camp.par, camp.files[c][e])]
HitOf(e) == [c \in Ids |-> [qdc |-> Analysis(camp.par, camp.files[c][e]).charge,
                            time |-> SampleOf(Analysis(camp.par, camp.files[c][e]).t0)]]
Decodable(c, e) == e \in 1 .. Len(camp.files[c]) /\ ~RunsAway(camp.par, camp.files[c][e])

SamplesHave(objects, k, e) == Written(objects, k, SamplesAt, FibreOf, SideOf, SignalOf(e))
RawHas(objects, k, e) == Written(objects, k, RawAt, FibreOf, SideOf, HitOf(e))

EventInv ==
  /\ IsList(saved)
  /\ chan \in 0 .. Len(camp.channels)
  /\ \A c \in 1 .. chan : Decodable(c, Len(saved) + 1)
  /\ SamplesHave(samples, chan, Len(saved) + 1)
  /\ RawHas(raw, chan, Len(saved) + 1)
  /\ phase = "crashed" /\ view = None => HasRecord /\ RunsAway(camp.par, Waveform)

(* An event that has been written has the signals of all channels.         *)
EventIs(ev, e) ==
  /\ \A c \in Ids : Decodable(c, e)
  /\ \E objects : SamplesHave(objects, Len(camp.channels), e) /\ ev.samples = Compressed(objects)
  /\ \E objects : RawHas(objects, Len(camp.channels), e) /\ ev.raw = Compressed(objects)
TreeInv == \A e \in 1 .. Len(saved) : EventIs(saved[e], e)

(* What is assumed of the channels: fibres of the detector, and files of   *)
(* waveforms.                                                              *)
LEMMA ChannelIs ==
  ASSUME PhaseOK
  PROVE  /\ Len(camp.channels) \in Nat /\ Ids = 1 .. Len(camp.channels)
         /\ ParIs(camp.par)
         /\ \A c \in Ids :
              /\ camp.channels[c] \in [m : 0 .. RawSizes[1] - 1, l : 0 .. RawSizes[2] - 1,
                                       s : 0 .. RawSizes[3] - 1, side : {"l", "r"}]
              /\ camp.files[c] \in Seq(Waveforms) /\ Len(camp.files[c]) \in Nat
              /\ \A e \in 1 .. Len(camp.files[c]) : Wave(camp.files[c][e])
<1> DEFINE C == [m : 0 .. RawSizes[1] - 1, l : 0 .. RawSizes[2] - 1,
                 s : 0 .. RawSizes[3] - 1, side : {"l", "r"}]
<1>1. /\ camp \in Campaigns /\ camp.channels \in Seq(C)
      /\ camp.files \in Seq(Seq(Waveforms)) /\ Len(camp.files) = Len(camp.channels)
  BY CampaignsAssumption DEF PhaseOK, Waveforms
<1>2. ParIs(camp.par)
  BY <1>1, CampaignsAssumption DEF ParIs
<1> HIDE DEF C
<1>3. Len(camp.channels) \in Nat /\ Ids = 1 .. Len(camp.channels)
  BY <1>1 DEF Ids
<1>4. ASSUME NEW c \in Ids
      PROVE  camp.channels[c] \in C /\ camp.files[c] \in Seq(Waveforms) /\ Len(camp.files[c]) \in Nat
             /\ c \in DOMAIN camp.files
  BY <1>1, <1>3
<1>5. ASSUME NEW c \in Ids, NEW e \in 1 .. Len(camp.files[c]) PROVE Wave(camp.files[c][e])
  <2>1. camp.files[c][e] \in Waveforms
    BY <1>4
  <2>2. UnitFits(camp.files[c][e])
    <3>1. e \in DOMAIN camp.files[c] /\ c \in DOMAIN camp.files
      BY <1>4
    <3> QED BY <1>1, <3>1, CampaignsAssumption
  <2> QED BY <2>1, <2>2 DEF Wave
<1> QED BY <1>2, <1>3, <1>4, <1>5 DEF C

(* The two digits of a number are its own.                                 *)
LEMMA RadixIs ==
  ASSUME NEW k \in Nat \ {0}, NEW p \in 0 .. k - 1, NEW q \in 0 .. k - 1, NEW i \in Int, NEW j \in Int,
         p + i * k = q + j * k
  PROVE  p = q /\ i = j
<1>1. (i + 1) * k = i * k + k /\ (j + 1) * k = j * k + k
  OBVIOUS
<1>2. i < j => (i + 1) * k <= j * k
  OBVIOUS
<1>3. j < i => (j + 1) * k <= i * k
  OBVIOUS
<1>4. i = j
  <2> DEFINE ik == i * k
             jk == j * k
             im == (i + 1) * k
             jm == (j + 1) * k
  <2>1. ik \in Int /\ jk \in Int /\ im = ik + k /\ jm = jk + k /\ p + ik = q + jk
    BY <1>1
  <2>2. (i < j => im <= jk) /\ (j < i => jm <= ik)
    BY <1>2, <1>3
  <2> HIDE DEF ik, jk, im, jm
  <2> QED BY <2>1, <2>2
<1> QED BY <1>4

(* Positions in a category of the size of the detector are its own.        *)
LEMMA RawPosIs ==
  ASSUME PhaseOK, NEW c \in Ids, NEW d \in Ids,
         RawPos(camp.channels[c]) = RawPos(camp.channels[d])
  PROVE  Fibre(camp.channels[c]) = Fibre(camp.channels[d])
<1> DEFINE a == camp.channels[c]
           b == camp.channels[d]
           r1 == RawSizes[1]
           r2 == RawSizes[2]
           r3 == RawSizes[3]
           C == [m : 0 .. r1 - 1, l : 0 .. r2 - 1, s : 0 .. r3 - 1, side : {"l", "r"}]
           u == a.l + a.s * r2
           v == b.l + b.s * r2
<1>1. /\ r1 \in Nat \ {0} /\ r2 \in Nat \ {0}
      /\ a.m \in 0 .. r1 - 1 /\ a.l \in 0 .. r2 - 1 /\ a.s \in Nat
      /\ b.m \in 0 .. r1 - 1 /\ b.l \in 0 .. r2 - 1 /\ b.s \in Nat
  <2>1. r1 \in Nat \ {0} /\ r2 \in Nat \ {0} /\ r3 \in Nat \ {0}
    BY RawSizesAssumption
  <2>2. a \in C /\ b \in C
    BY ChannelIs
  <2> HIDE DEF a, b, r1, r2, r3
  <2> QED BY <2>1, <2>2
<1>2. a.m + a.l * r1 + a.s * r1 * r2 = b.m + b.l * r1 + b.s * r1 * r2
  BY DEF RawPos, Pos
<1> HIDE DEF a, b, r1, r2
<1>3. u \in Int /\ v \in Int /\ a.m + u * r1 = b.m + v * r1
  <2>1. u * r1 = a.l * r1 + a.s * r1 * r2 /\ v * r1 = b.l * r1 + b.s * r1 * r2
    BY <1>1
  <2>2. u \in Int /\ v \in Int
    BY <1>1
  <2> DEFINE am == a.l * r1
             aw == a.s * r1 * r2
             bm == b.l * r1
             bw == b.s * r1 * r2
             ur == u * r1
             vr == v * r1
             ma == a.m
             mb == b.m
  <2>3. am \in Int /\ aw \in Int /\ bm \in Int /\ bw \in Int /\ ma \in Int /\ mb \in Int
    BY <1>1
  <2>4. ur = am + aw /\ vr = bm + bw /\ ma + am + aw = mb + bm + bw
    BY <1>2, <2>1
  <2> HIDE DEF am, aw, bm, bw, ur, vr, ma, mb
  <2>5. ma + ur = mb + vr
    <3>1. ma + ur = (ma + am) + aw /\ mb + vr = (mb + bm) + bw
      BY <2>3, <2>4
    <3>2. (ma + am) + aw = (mb + bm) + bw
      BY <2>4
    <3> QED BY <3>1, <3>2
  <2> QED BY <2>2, <2>5 DEF ur, vr, ma, mb
<1> HIDE DEF u, v
<1>4. a.m = b.m /\ u = v
  <2> DEFINE ma == a.m
             mb == b.m
  <2>1. ma \in 0 .. r1 - 1 /\ mb \in 0 .. r1 - 1 /\ u \in Int /\ v \in Int /\ ma + u * r1 = mb + v * r1
    BY <1>1, <1>3
  <2> HIDE DEF ma, mb
  <2>2. ma = mb /\ u = v
    BY <1>1, <2>1, RadixIs
  <2> QED BY <2>2 DEF ma, mb
<1>5. a.l = b.l /\ a.s = b.s
  <2> DEFINE la == a.l
             lb == b.l
             sa == a.s
             sb == b.s
  <2>1. la \in 0 .. r2 - 1 /\ lb \in 0 .. r2 - 1 /\ sa \in Int /\ sb \in Int /\ la + sa * r2 = lb + sb * r2
    BY <1>1, <1>4 DEF u, v
  <2> HIDE DEF la, lb, sa, sb
  <2>2. la = lb /\ sa = sb
    BY <1>1, <2>1, RadixIs
  <2> QED BY <2>2 DEF la, lb, sa, sb
<1> QED BY <1>4, <1>5 DEF Fibre, a, b

(* What depends on the measurement stays.                                  *)
LEMMA MeasurementSame ==
  ASSUME camp' = camp
  PROVE  /\ Ids' = Ids /\ SamplesAt' = SamplesAt /\ RawAt' = RawAt /\ FibreOf' = FibreOf /\ SideOf' = SideOf
         /\ \A e : SignalOf(e)' = SignalOf(e) /\ HitOf(e)' = HitOf(e)
         /\ \A c, e : Decodable(c, e)' <=> Decodable(c, e)
BY DEF Ids, SamplesAt, RawAt, FibreOf, SideOf, SignalOf, HitOf, Decodable

(* What an event has does not change with the measurement at hand.         *)
LEMMA EventSame ==
  ASSUME camp' = camp, NEW o, NEW k, NEW e
  PROVE  /\ SamplesHave(o, k, e)' <=> SamplesHave(o, k, e)
         /\ RawHas(o, k, e)' <=> RawHas(o, k, e)
         /\ EventIs(o, e)' <=> EventIs(o, e)
<1>1. ASSUME NEW p, NEW n PROVE SamplesHave(p, n, e)' <=> SamplesHave(p, n, e)
  BY MeasurementSame DEF SamplesHave
<1>2. ASSUME NEW p, NEW n PROVE RawHas(p, n, e)' <=> RawHas(p, n, e)
  BY MeasurementSame DEF RawHas
<1>3. EventIs(o, e)' <=> EventIs(o, e)
  <2>1. Ids' = Ids /\ \A c : Decodable(c, e)' <=> Decodable(c, e)
    BY MeasurementSame
  <2>2. Len(camp.channels)' = Len(camp.channels)
    OBVIOUS
  <2> QED BY <1>1, <1>2, <2>1, <2>2 DEF EventIs
<1> QED BY <1>1, <1>2, <1>3

(* The events written stay as they are.                                    *)
LEMMA TreeStays ==
  ASSUME TreeInv, EventInv, UNCHANGED <<camp, saved>>
  PROVE  TreeInv'
BY EventSame DEF TreeInv

(* The event that is decoded, for a rigid number of it.                    *)
LEMMA EventNumber ==
  ASSUME camp' = camp, NEW e
  PROVE  /\ Len(saved') + 1 = e => SignalOf(Len(saved) + 1)' = SignalOf(e) /\ HitOf(Len(saved) + 1)' = HitOf(e)
         /\ Len(saved') + 1 = e => \A c : Decodable(c, Len(saved) + 1)' <=> Decodable(c, e)
BY DEF SignalOf, HitOf, Decodable, Ids

(* EventInv of the next state, said of a number e of the event.            *)
LEMMA EventFor ==
  ASSUME camp' = camp, NEW e, Len(saved') + 1 = e, IsList(saved'), chan' \in 0 .. Len(camp.channels),
         \A c \in 1 .. chan' : Decodable(c, e),
         Written(samples', chan', SamplesAt, FibreOf, SideOf, SignalOf(e)),
         Written(raw', chan', RawAt, FibreOf, SideOf, HitOf(e)),
         phase' = "crashed" /\ view' = None => (HasRecord /\ RunsAway(camp.par, Waveform))'
  PROVE  EventInv'
<1>1. SamplesHave(samples, chan, Len(saved) + 1)' /\ RawHas(raw, chan, Len(saved) + 1)'
  BY EventNumber, MeasurementSame DEF SamplesHave, RawHas
<1>2. \A c \in 1 .. chan' : Decodable(c, Len(saved) + 1)'
  BY EventNumber
<1>3. IsList(saved)' /\ chan' \in 0 .. Len(camp'.channels)
  BY DEF IsList
<1> QED BY <1>1, <1>2, <1>3 DEF EventInv

(* Steps that leave the event alone.                                       *)
LEMMA EventStays ==
  ASSUME EventInv, UNCHANGED <<camp, chan, samples, raw, saved>>,
         phase' # "crashed" \/ view' # None \/ UNCHANGED <<phase, view>>
  PROVE  EventInv'
<1> DEFINE e == Len(saved) + 1
<1>1. /\ Len(saved') + 1 = e /\ IsList(saved') /\ chan' \in 0 .. Len(camp.channels)
      /\ \A c \in 1 .. chan' : Decodable(c, e)
      /\ Written(samples', chan', SamplesAt, FibreOf, SideOf, SignalOf(e))
      /\ Written(raw', chan', RawAt, FibreOf, SideOf, HitOf(e))
  BY DEF EventInv, SamplesHave, RawHas
<1>2. phase' = "crashed" /\ view' = None => (HasRecord /\ RunsAway(camp.par, Waveform))'
  BY DEF EventInv, HasRecord, Waveform
<1> HIDE DEF e
<1> QED BY <1>1, <1>2, EventFor

(* Decode adds what is found in the waveform of the next channel.          *)
LEMMA DecodeStep ==
  ASSUME PhaseOK, EventInv, TreeInv, Decode
  PROVE  PhaseOK' /\ EventInv' /\ TreeInv'
<1> DEFINE e == Len(saved) + 1
           m == chan + 1
           c == camp.channels[m]
           sig == Analysis(camp.par, camp.files[m][e])
           hit == [qdc |-> sig.charge, time |-> SampleOf(sig.t0)]
<1>1. /\ phase = "unpack" /\ HasRecord /\ ~RunsAway(camp.par, camp.files[m][e])
      /\ samples' = Stored(samples, SamplePos(c), Fibre(c), c.side, sig)
      /\ raw' = Stored(raw, RawPos(c), Fibre(c), c.side, hit)
      /\ chan' = m /\ UNCHANGED <<phase, camp, saved, cut, pass, view, shown>>
  BY DEF Decode, Waveform
<1>2. chan \in Nat /\ m \in 1 .. Len(camp.channels) /\ m \in Ids /\ 1 .. m \subseteq Ids
  BY <1>1, ChannelIs DEF HasRecord, EventInv
<1>3. /\ SamplesAt[m] = SamplePos(c) /\ RawAt[m] = RawPos(c) /\ FibreOf[m] = Fibre(c) /\ SideOf[m] = c.side
      /\ SignalOf(e)[m] = sig /\ HitOf(e)[m] = hit
  BY <1>2 DEF SamplesAt, RawAt, FibreOf, SideOf, SignalOf, HitOf
<1>4. \A d \in 1 .. chan + 1 : SideOf[d] \in {"l", "r"}
  BY <1>2, ChannelIs DEF SideOf
<1>5. e \in 1 .. Len(camp.files[m])
  BY <1>1, <1>2, ChannelIs, ListIs DEF EventInv, HasRecord
<1>6. Written(samples', m, SamplesAt, FibreOf, SideOf, SignalOf(e))
  <2>1. Written(samples, chan, SamplesAt, FibreOf, SideOf, SignalOf(e))
    BY DEF EventInv, SamplesHave
  <2> DEFINE S == SignalOf(e)
  <2> HIDE DEF S
  <2>2. Written(Stored(samples, SamplesAt[chan + 1], FibreOf[chan + 1], SideOf[chan + 1], S[chan + 1]), chan + 1,
                SamplesAt, FibreOf, SideOf, S)
    BY <1>2, <1>4, <2>1, StoredIs DEF S
  <2> QED BY <1>1, <1>3, <2>2 DEF S
<1>7. Written(raw', m, RawAt, FibreOf, SideOf, HitOf(e))
  <2>1. Written(raw, chan, RawAt, FibreOf, SideOf, HitOf(e))
    BY DEF EventInv, RawHas
  <2> DEFINE S == HitOf(e)
  <2> HIDE DEF S
  <2>2. Written(Stored(raw, RawAt[chan + 1], FibreOf[chan + 1], SideOf[chan + 1], S[chan + 1]), chan + 1,
                RawAt, FibreOf, SideOf, S)
    BY <1>2, <1>4, <2>1, StoredIs DEF S
  <2> QED BY <1>1, <1>3, <2>2 DEF S
<1>8. \A d \in 1 .. m : Decodable(d, e)
  <2>1. Decodable(m, e)
    BY <1>1, <1>5 DEF Decodable
  <2>2. \A d \in 1 .. m : d = m \/ d \in 1 .. chan
    BY <1>2
  <2> QED BY <2>1, <2>2 DEF EventInv
<1>9. PhaseOK'
  BY <1>1 DEF PhaseOK, IsList
<1>10. EventInv'
  <2>1. Len(saved') + 1 = e /\ IsList(saved') /\ phase' # "crashed"
    BY <1>1 DEF EventInv
  <2> HIDE DEF e, m
  <2> QED BY <1>1, <1>2, <1>6, <1>7, <1>8, <2>1, EventFor
<1>11. TreeInv'
  BY <1>1, TreeStays
<1> QED BY <1>9, <1>10, <1>11

DataInv == PhaseOK /\ EventInv /\ TreeInv

(* Nothing is decoded or drawn in the beginning.                           *)
LEMMA InitData == SignalsInit => DataInv /\ ViewInv
<1> SUFFICES ASSUME SignalsInit PROVE DataInv /\ ViewInv
  OBVIOUS
<1>1. /\ camp \in Campaigns /\ phase = "ready" /\ chan = 0 /\ samples = <<>> /\ raw = <<>> /\ saved = <<>>
      /\ cut = None /\ pass = 0 /\ view = None /\ shown = <<>>
  BY DEF SignalsInit
<1>2. IsList(<<>>) /\ Len(<<>>) = 0 /\ 1 .. 0 = {}
  BY DEF IsList
<1>3. PhaseOK
  BY <1>1, <1>2 DEF PhaseOK, Used
<1>4. chan \in 0 .. Len(camp.channels)
  BY <1>1, <1>3, ChannelIs
<1>5. EventInv
  <2>1. SamplesHave(samples, chan, Len(saved) + 1) /\ RawHas(raw, chan, Len(saved) + 1)
    BY <1>1, NothingWritten DEF SamplesHave, RawHas
  <2> QED BY <1>1, <1>2, <1>4, <2>1 DEF EventInv
<1>6. TreeInv
  BY <1>1, <1>2 DEF TreeInv
<1> QED BY <1>1, <1>3, <1>5, <1>6 DEF DataInv, ViewInv

(* The program crashes on a waveform whose integral runs away.             *)
LEMMA DecodeCrashesStep ==
  ASSUME DataInv, DecodeCrashes
  PROVE  DataInv'
<1>1. /\ phase = "unpack" /\ HasRecord /\ RunsAway(camp.par, Waveform) /\ phase' = "crashed"
      /\ UNCHANGED <<camp, chan, samples, raw, saved, cut, pass, view, shown>>
      /\ PhaseOK /\ EventInv /\ TreeInv
  BY DEF DecodeCrashes, DataInv
<1>2. PhaseOK'
  BY <1>1 DEF PhaseOK, Used, IsList
<1>3. EventInv'
  <2>1. (HasRecord /\ RunsAway(camp.par, Waveform))'
    BY <1>1 DEF HasRecord, Waveform
  <2> DEFINE e == Len(saved) + 1
  <2>2. /\ Len(saved') + 1 = e /\ IsList(saved') /\ chan' \in 0 .. Len(camp.channels)
        /\ \A c \in 1 .. chan' : Decodable(c, e)
        /\ Written(samples', chan', SamplesAt, FibreOf, SideOf, SignalOf(e))
        /\ Written(raw', chan', RawAt, FibreOf, SideOf, HitOf(e))
    BY <1>1 DEF EventInv, SamplesHave, RawHas
  <2> HIDE DEF e
  <2> QED BY <1>1, <2>1, <2>2, EventFor
<1>4. TreeInv'
  BY <1>1, TreeStays
<1> QED BY <1>2, <1>3, <1>4 DEF DataInv

(* The event that is written has all channels.                             *)
LEMMA EventWrittenStep ==
  ASSUME DataInv, EventWritten
  PROVE  DataInv'
<1> DEFINE n == Len(saved) + 1
           ev == [samples |-> Compressed(samples), raw |-> Compressed(raw)]
<1>1. /\ phase = "unpack" /\ chan = Len(camp.channels) /\ saved' = Append(saved, ev)
      /\ chan' = 0 /\ samples' = <<>> /\ raw' = <<>>
      /\ UNCHANGED <<phase, camp, cut, pass, view, shown>>
      /\ PhaseOK /\ EventInv /\ TreeInv /\ IsList(saved)
  BY DEF EventWritten, DataInv, EventInv
<1>2. PhaseOK'
  BY <1>1 DEF PhaseOK, IsList
<1>3. EventIs(ev, n)
  <2>1. \A c \in Ids : Decodable(c, n)
    BY <1>1, ChannelIs DEF EventInv
  <2>2. SamplesHave(samples, Len(camp.channels), n) /\ RawHas(raw, Len(camp.channels), n)
    BY <1>1 DEF EventInv
  <2>3. ev.samples = Compressed(samples) /\ ev.raw = Compressed(raw)
    OBVIOUS
  <2> HIDE DEF ev, n
  <2> QED BY <2>1, <2>2, <2>3 DEF EventIs
<1> HIDE DEF ev
<1>4. /\ IsList(saved') /\ Len(saved') = n /\ n \in Nat /\ saved'[n] = ev
      /\ \A k \in 1 .. Len(saved) : saved'[k] = saved[k]
  BY <1>1, ListAppend, ListIs
<1>5. TreeInv'
  <2> SUFFICES ASSUME NEW e \in 1 .. n PROVE EventIs(saved[e], e)'
    BY <1>4 DEF TreeInv
  <2>1. EventIs(saved'[e], e)
    <3>1. CASE e = n
      BY <1>3, <1>4, <3>1
    <3>2. CASE e # n
      <4>1. e \in 1 .. Len(saved)
        BY <1>4, <3>2, ListIs, <1>1
      <4> QED BY <1>1, <1>4, <4>1 DEF TreeInv
    <3> QED BY <3>1, <3>2
  <2>2. \A o : EventIs(o, e)' <=> EventIs(o, e)
    BY <1>1, EventSame
  <2> QED BY <2>1, <2>2
<1>6. EventInv'
  <2> DEFINE e == n + 1
  <2>1. /\ Len(saved') + 1 = e /\ chan' \in 0 .. Len(camp.channels) /\ 1 .. chan' = {}
        /\ phase' # "crashed"
    BY <1>1, <1>4, ChannelIs
  <2>2. /\ Written(samples', chan', SamplesAt, FibreOf, SideOf, SignalOf(e))
        /\ Written(raw', chan', RawAt, FibreOf, SideOf, HitOf(e))
    BY <1>1, NothingWritten
  <2> HIDE DEF e
  <2> QED BY <1>1, <1>4, <2>1, <2>2, EventFor
<1> QED BY <1>2, <1>5, <1>6 DEF DataInv

(* At the end of a file the event begun is dropped.                        *)
LEMMA LoopEndsStep ==
  ASSUME DataInv, LoopEnds
  PROVE  DataInv'
<1> DEFINE e == Len(saved) + 1
<1>1. /\ phase = "unpack" /\ phase' = "written" /\ chan' = 0 /\ samples' = <<>> /\ raw' = <<>>
      /\ UNCHANGED <<camp, saved, cut, pass, view, shown>>
      /\ PhaseOK /\ EventInv /\ TreeInv /\ IsList(saved')
  BY DEF LoopEnds, DataInv, EventInv
<1>2. PhaseOK'
  BY <1>1 DEF PhaseOK, Used, IsList
<1>3. EventInv'
  <2>1. Len(saved') + 1 = e /\ chan' \in 0 .. Len(camp.channels) /\ 1 .. chan' = {} /\ phase' # "crashed"
    BY <1>1, ChannelIs
  <2>2. /\ Written(samples', chan', SamplesAt, FibreOf, SideOf, SignalOf(e))
        /\ Written(raw', chan', RawAt, FibreOf, SideOf, HitOf(e))
    BY <1>1, NothingWritten
  <2> HIDE DEF e
  <2> QED BY <1>1, <2>1, <2>2, EventFor
<1> QED BY <1>1, <1>2, <1>3, TreeStays DEF DataInv

(* The other steps leave the events alone.                                 *)
LEMMA OtherSteps ==
  ASSUME DataInv, PhaseOK', UNCHANGED <<camp, chan, samples, raw, saved>>,
         phase' # "crashed" \/ view' # None \/ UNCHANGED <<phase, view>>
  PROVE  DataInv'
BY EventStays, TreeStays DEF DataInv

(* Unpacking begins.                                                       *)
LEMMA UnpackStep ==
  ASSUME DataInv, Unpack
  PROVE  DataInv'
<1>1. PhaseOK' /\ UNCHANGED <<camp, chan, samples, raw, saved>> /\ phase' # "crashed"
  BY DEF Unpack, DataInv, PhaseOK, Used, IsList
<1> QED BY <1>1, OtherSteps

(* CutAndView reads the events and leaves them alone.                      *)
LEMMA CutSteps ==
  ASSUME DataInv, (\E c \in camp.cuts : StartCut(c)) \/ CutDone
  PROVE  DataInv'
<1>1. PhaseOK'
  <2>1. CASE \E c \in camp.cuts : StartCut(c)
    BY <2>1, CampIs DEF StartCut, DataInv, PhaseOK, Used, IsList
  <2>2. CASE CutDone
    BY <2>2 DEF CutDone, DataInv, PhaseOK, Used, IsList
  <2> QED BY <2>1, <2>2
<1>2. UNCHANGED <<camp, chan, samples, raw, saved>> /\ phase' # "crashed"
  BY DEF StartCut, CutDone
<1> QED BY <1>1, <1>2, OtherSteps

(* One list after another, of which the second is a function on 1 .. n.    *)
LEMMA ListConcat ==
  ASSUME NEW s, IsList(s), NEW n \in Nat, NEW t, t = [k \in 1 .. n |-> t[k]]
  PROVE  /\ IsList(s \o t) /\ Len(s \o t) = Len(s) + n
         /\ \A k \in 1 .. Len(s) : (s \o t)[k] = s[k]
         /\ \A k \in 1 .. n : (s \o t)[Len(s) + k] = t[k]
<1> DEFINE T == {s[k] : k \in DOMAIN s} \cup {t[k] : k \in 1 .. n}
           u == s \o t
<1>1. s \in Seq(T) /\ t \in Seq(T) /\ Len(t) = n
  <2>1. s \in Seq(T)
    BY DEF IsList
  <2>2. t \in [1 .. n -> T]
    OBVIOUS
  <2> HIDE DEF T
  <2>3. t \in Seq(T)
    BY <2>2, SeqDef
  <2>4. DOMAIN t = 1 .. n
    BY <2>2
  <2> QED BY <2>1, <2>3, <2>4, LenProperties
<1>2. u \in Seq(T) /\ Len(u) = Len(s) + n /\ (\A k \in 1 .. Len(s) : u[k] = s[k])
      /\ \A k \in 1 .. n : u[Len(s) + k] = t[k]
  <2> HIDE DEF T
  <2>1. u \in Seq(T) /\ Len(u) = Len(s) + Len(t)
        /\ \A i \in 1 .. Len(s) + Len(t) : u[i] = IF i <= Len(s) THEN s[i] ELSE t[i - Len(s)]
    BY <1>1, ConcatProperties
  <2> HIDE DEF u
  <2>2. Len(s) \in Nat
    BY <1>1
  <2> DEFINE a == Len(s)
  <2> HIDE DEF a
  <2>3. ASSUME NEW k \in 1 .. n PROVE u[a + k] = t[k]
    <3>1. a + k \in 1 .. a + n /\ ~(a + k <= a) /\ (a + k) - a = k
      BY <2>2 DEF a
    <3> QED BY <1>1, <2>1, <3>1 DEF a
  <2>4. ASSUME NEW k \in 1 .. a PROVE u[k] = s[k]
    <3>1. k \in 1 .. a + n /\ k <= a
      BY <2>2 DEF a
    <3> QED BY <1>1, <2>1, <3>1 DEF a
  <2> QED BY <1>1, <2>1, <2>3, <2>4 DEF a
<1>3. u \in Seq({u[k] : k \in DOMAIN u})
  <2> HIDE DEF u, T
  <2> QED BY <1>2
<1> QED BY <1>2, <1>3 DEF IsList

(* So it does when it draws a signal.                                      *)
LEMMA CutPassData ==
  ASSUME DataInv, CutPass, IsFiniteSet(Passing(pass + 1))
  PROVE  DataInv'
<1> DEFINE n == Cardinality(Passing(pass + 1))
           t == [k \in 1 .. n |-> ReadOneSignal(pass + 1,
                   saved[pass + 1].samples[CHOOSE j \in Passing(pass + 1) : TRUE][CutChannel.side].bl)]
<1>1. /\ phase = "cut" /\ shown' = shown \o t
      /\ UNCHANGED <<phase, camp, chan, samples, raw, saved, cut, view>>
      /\ PhaseOK /\ IsList(shown)
  BY DEF CutPass, DataInv, PhaseOK
<1>2. n \in Nat /\ t = [k \in 1 .. n |-> t[k]]
  BY FS_CardinalityType
<1> HIDE DEF n, t
<1>3. IsList(shown')
  BY <1>1, <1>2, ListConcat
<1>4. PhaseOK'
  BY <1>1, <1>3 DEF PhaseOK, Used, IsList
<1> QED BY <1>1, <1>4, OtherSteps

(* A viewer's steps.                                                       *)
LEMMA ViewSteps ==
  ASSUME DataInv, ViewInv,
         \/ \E v \in camp.views : StartView(v)
         \/ SignalsViewerDD \/ SignalsViewerOsc \/ SignalsViewerDDs \/ SignalsViewerOscs
         \/ ViewCrashes \/ ViewDone
  PROVE  DataInv' /\ ViewInv'
<1>1. PhaseOK
  BY DEF DataInv
<1>2. CASE \E v \in camp.views : StartView(v)
  <2>1. PhaseOK' /\ ViewInv'
    BY <1>1, <1>2, StartViewStep
  <2>2. UNCHANGED <<camp, chan, samples, raw, saved>> /\ phase' # "crashed"
    BY <1>2 DEF StartView
  <2> QED BY <2>1, <2>2, OtherSteps
<1>3. ASSUME NEW kind, ViewPass(kind) PROVE DataInv' /\ ViewInv'
  <2>1. PhaseOK' /\ ViewInv'
    BY <1>1, <1>3, ViewPassStep
  <2>2. UNCHANGED <<camp, chan, samples, raw, saved>> /\ phase' # "crashed"
    BY <1>3 DEF ViewPass
  <2> QED BY <2>1, <2>2, OtherSteps
<1>4. CASE ViewCrashes
  <2>1. PhaseOK' /\ ViewInv'
    BY <1>1, <1>4, ViewCrashesStep
  <2>2. UNCHANGED <<camp, chan, samples, raw, saved>> /\ view' # None
    BY <1>1, <1>4 DEF ViewCrashes, PhaseOK
  <2> QED BY <2>1, <2>2, OtherSteps
<1>5. CASE ViewDone
  <2>1. PhaseOK' /\ ViewInv'
    BY <1>1, <1>5, ViewDoneStep
  <2>2. UNCHANGED <<camp, chan, samples, raw, saved>> /\ phase' # "crashed"
    BY <1>5 DEF ViewDone
  <2> QED BY <2>1, <2>2, OtherSteps
<1> QED BY <1>2, <1>3, <1>4, <1>5 DEF SignalsViewerDD, SignalsViewerOsc, SignalsViewerDDs, SignalsViewerOscs

(* ViewInv concerns nothing of what is decoded and cut.                    *)
LEMMA ViewStays ==
  ASSUME ViewInv, view' = None \/ UNCHANGED <<phase, camp, view, at, shown>>
  PROVE  ViewInv'
<1>1. CASE view' = None
  BY <1>1 DEF ViewInv
<1>2. CASE UNCHANGED <<phase, camp, view, at, shown>>
  <2>1. ReadSoFar => ReadSoFar'
    BY <1>2 DEF ReadSoFar
  <2>2. FilesShown => FilesShown'
    BY <1>2 DEF FilesShown, ShownIs, File, Extra, Binary, Drawn, NChannels
  <2>3. File(1)' = File(1) /\ Extra' = Extra /\ Binary' = Binary
    BY <1>2 DEF File, Extra, Binary
  <2> QED BY <1>2, <2>1, <2>2, <2>3 DEF ViewInv
<1> QED BY <1>1, <1>2

(* The steps of the unpacker, of which the viewers know nothing.           *)
LEMMA ChannelsStepData ==
  ASSUME DataInv, ViewInv, Unpack \/ Decode \/ DecodeCrashes \/ EventWritten \/ LoopEnds
  PROVE  DataInv' /\ ViewInv'
<1>1. DataInv'
  <2>1. CASE Decode
    BY <2>1, DecodeStep DEF DataInv
  <2> QED BY <2>1, UnpackStep, DecodeCrashesStep, EventWrittenStep, LoopEndsStep
<1>2. view' = None
  BY DEF Unpack, Decode, DecodeCrashes, EventWritten, LoopEnds, DataInv, PhaseOK, Used
<1> QED BY <1>1, <1>2, ViewStays

(* And those of CutAndView.                                                *)
LEMMA CutStepData ==
  ASSUME DataInv, ViewInv, (\E c \in camp.cuts : StartCut(c)) \/ CutDone
  PROVE  DataInv' /\ ViewInv'
<1>1. view' = None
  <2>1. CASE \E c \in camp.cuts : StartCut(c)
    BY <2>1 DEF StartCut, DataInv, PhaseOK, Used
  <2>2. CASE CutDone
    BY <2>2 DEF CutDone, DataInv, PhaseOK, Used
  <2> QED BY <2>1, <2>2
<1> QED BY <1>1, CutSteps, ViewStays

(* Two channels of the same fibre and side are the same.                   *)
LEMMA ChannelSame ==
  ASSUME PhaseOK, NEW c \in Ids, NEW d \in Ids,
         Fibre(camp.channels[c]) = Fibre(camp.channels[d]),
         camp.channels[c].side = camp.channels[d].side
  PROVE  camp.channels[c] = camp.channels[d]
<1> DEFINE C == [m : 0 .. RawSizes[1] - 1, l : 0 .. RawSizes[2] - 1,
                 s : 0 .. RawSizes[3] - 1, side : {"l", "r"}]
           a == camp.channels[c]
           b == camp.channels[d]
<1>1. a \in C /\ b \in C
  BY ChannelIs
<1>2. a = [m |-> a.m, l |-> a.l, s |-> a.s, side |-> a.side] /\ b = [m |-> b.m, l |-> b.l, s |-> b.s, side |-> b.side]
  <2> HIDE DEF a, b
  <2> QED BY <1>1
<1>3. a.m = b.m /\ a.l = b.l /\ a.s = b.s /\ a.side = b.side
  BY DEF Fibre
<1> HIDE DEF a, b
<1>4. a = b
  BY <1>2, <1>3
<1> QED BY <1>4 DEF a, b

(* A signal of the event in the categories is what was found.              *)
LEMMA SignalKept ==
  ASSUME DataInv, NEW c \in 1 .. chan,
         \A d \in c + 1 .. chan : SamplesAt[d] # SamplesAt[c] \/ SideOf[d] # SideOf[c]
  PROVE  samples[SamplesAt[c]][SideOf[c]] = SignalOf(Len(saved) + 1)[c]
BY DEF DataInv, EventInv, SamplesHave, Written

(* So is its charge and time in the other category, if no later channel    *)
(* is the same.                                                            *)
LEMMA HitKept ==
  ASSUME DataInv, NEW c \in 1 .. chan,
         \A d \in c + 1 .. chan : camp.channels[d] # camp.channels[c]
  PROVE  raw[RawAt[c]][SideOf[c]] = HitOf(Len(saved) + 1)[c]
<1>1. PhaseOK /\ 1 .. chan \subseteq Ids /\ c \in Ids /\ \A d \in c + 1 .. chan : d \in Ids
  BY ChannelIs DEF DataInv, EventInv
<1>2. ASSUME NEW d \in c + 1 .. chan PROVE RawAt[d] # RawAt[c] \/ SideOf[d] # SideOf[c]
  <2>1. d \in Ids /\ camp.channels[d] # camp.channels[c]
    BY <1>1
  <2>2. ~(Fibre(camp.channels[d]) = Fibre(camp.channels[c]) /\ camp.channels[d].side = camp.channels[c].side)
    BY <1>1, <2>1, ChannelSame
  <2>3. RawPos(camp.channels[d]) = RawPos(camp.channels[c]) => Fibre(camp.channels[d]) = Fibre(camp.channels[c])
    BY <1>1, <2>1, RawPosIs
  <2> QED BY <1>1, <2>1, <2>2, <2>3 DEF RawAt, SideOf
<1> QED BY <1>2 DEF DataInv, EventInv, RawHas, Written

(* The values of a signal that has been found: there is a charge if there  *)
(* is a t0.                                                                *)
LEMMA SignalTypes ==
  ASSUME NEW p, ParIs(p), NEW w, Wave(w), ~RunsAway(p, w)
  PROVE  LET sig == Analysis(p, w)
         IN /\ sig.bl \in Int
            /\ sig.t0 = None => sig.charge = None
            /\ sig.t0 # None => sig.t0 \in Int /\ sig.charge \in Int
<1> DEFINE sig == Analysis(p, w)
           s == Minus(w, BaseLine(p, w))
           thr == Threshold(p, s)
           t0 == FindT0(p, s, thr)
           b == Ceil(t0)
           end == FindTMax(p, s, thr, b)
           tm == end.tmax \div Unit
           sum == Sum(s, OffsetStart(b) .. OffsetStop(p, b, tm) - 1)
<1>1. sig = [amp |-> Amplitude(p, s), bl |-> BaseLine(p, w), veto |-> FindVeto(p, s), t0 |-> t0,
             tot |-> IF t0 = None THEN None ELSE end.tmax - t0,
             charge |-> IF t0 = None THEN None ELSE IF p.pol = 0 THEN -sum ELSE sum,
             pileup |-> IF t0 = None THEN 0 ELSE end.pileup]
  BY Zenon DEF Analysis
<1>2. IsAnalysisOf(p, sig, w)
  BY AnalysisIs
<1> HIDE DEF sig
<1>3. sig.bl = BaseLine(p, w) /\ sig.t0 = t0 /\ (t0 = None => sig.charge = None)
  BY <1>1
<1>4. Wave(s) /\ thr \in Int /\ sig.bl \in Int /\ s = Minus(w, sig.bl)
  BY <1>3, BaseIs
<1> DEFINE u == Minus(w, sig.bl)
           I == {i \in Samples : Ceil(sig.t0) - Before <= i /\
                   i < Smallest({IF p.intmode > 0 THEN Ceil(sig.t0) + p.intmode ELSE (sig.t0 + sig.tot) \div Unit,
                                 Window - 1})}
<1>5. t0 # None => sig.charge = IF p.pol = 0 THEN -Sum(u, I) ELSE Sum(u, I)
  BY <1>2, <1>3 DEF IsAnalysisOf
<1> HIDE DEF s, thr, t0
<1>6. t0 # None => t0 \in Int
  BY <1>4, T0Is DEF t0, BeginsAt
<1>7. Sum(u, I) \in Int
  <2>1. I \in SUBSET Samples /\ IsFiniteSet(Samples)
    <3>1. 0 \in Int /\ Window - 1 \in Int
      BY WindowIs
    <3> QED BY <3>1, FS_Interval DEF Samples
  <2>2. IsFiniteSet(I)
    BY <2>1, FS_Subset
  <2>3. \A i \in Samples : s[i] \in Int
    BY <1>4, SampleIs DEF Wave, Samples
  <2>4. \A i \in I : u[i] \in Int
    BY <1>4, <2>1, <2>3
  <2> HIDE DEF u, I
  <2> QED BY <2>2, <2>4, SumIs
<1> HIDE DEF u, I
<1>8. t0 # None => sig.charge \in Int
  BY <1>5, <1>7
<1> QED BY <1>3, <1>4, <1>6, <1>8 DEF sig

(* A time cut off to the sample before it.                                 *)
LEMMA TimeCutOff ==
  ASSUME NEW t \in Int
  PROVE  IsSampleOf(SampleOf(t), t) /\ SampleOf(t) \in Int
<1> DEFINE u == Unit
<1>1. u \in Nat /\ u > 0 /\ t # None
  BY LengthsAssumption, NoneAssumption
<1> HIDE DEF u
<1>2. \A a \in Int, b \in Nat : b > 0 => b * (a \div b) <= a /\ a < b * (a \div b) + b
  OBVIOUS
<1>3. t \div u \in Int
  BY <1>1
<1>4. u * (t \div u) <= t /\ t < u * (t \div u) + u
  BY <1>1, <1>2, Zenon
<1>5. \A a \in Int, b \in Nat : a * b = b * a /\ (a + 1) * b = b * a + b
  OBVIOUS
<1>6. (t \div u) * u = u * (t \div u) /\ (t \div u + 1) * u = u * (t \div u) + u
  BY <1>1, <1>3, <1>5, Zenon
<1> QED BY <1>1, <1>3, <1>4, <1>6, Zenon DEF IsSampleOf, SampleOf, u

(* A signal that does not cross has no time in either category.            *)
LEMMA NoTime == SampleOf(None) = None /\ IsSampleOf(None, None)
BY DEF SampleOf, IsSampleOf

(* What EventInv says of the event gives the property.                     *)
LEMMA EventsAnalysed ==
  ASSUME DataInv
  PROVE  SignalsAreAnalysed
<1> DEFINE e == Len(saved) + 1
<1>1. PhaseOK /\ 1 .. chan \subseteq Ids /\ chan \in Nat /\ \A c \in 1 .. chan : Decodable(c, e)
  BY ChannelIs DEF DataInv, EventInv
<1>2. ASSUME NEW c \in 1 .. chan,
             \A d \in {camp.channels[q] : q \in c + 1 .. chan} :
               SamplePos(d) # SamplePos(camp.channels[c]) \/ d.side # camp.channels[c].side
      PROVE  LET ch == camp.channels[c]
                 later == {camp.channels[d] : d \in c + 1 .. chan}
                 sig == samples[SamplePos(ch)][ch.side]
                 r == raw[RawPos(ch)][ch.side]
             IN /\ IsAnalysisOf(camp.par, sig, camp.files[c][e])
                /\ (\A d \in later : d # ch) => r.qdc = sig.charge /\ IsSampleOf(r.time, sig.t0)
  <2> DEFINE ch == camp.channels[c]
             w == camp.files[c][e]
             p == camp.par
             found == Analysis(p, w)
  <2>1. c \in Ids /\ Decodable(c, e) /\ \A d \in c + 1 .. chan : d \in Ids
    BY <1>1
  <2>2. SamplesAt[c] = SamplePos(ch) /\ RawAt[c] = RawPos(ch) /\ SideOf[c] = ch.side
        /\ SignalOf(e)[c] = found /\ HitOf(e)[c] = [qdc |-> found.charge, time |-> SampleOf(found.t0)]
    BY <2>1 DEF SamplesAt, RawAt, SideOf, SignalOf, HitOf
  <2>3. \A d \in c + 1 .. chan : SamplesAt[d] # SamplesAt[c] \/ SideOf[d] # SideOf[c]
    BY <1>2, <2>1 DEF SamplesAt, SideOf
  <2>4. samples[SamplePos(ch)][ch.side] = found
    BY <2>2, <2>3, SignalKept
  <2>5. IsAnalysisOf(p, found, w)
    <3>1. ParIs(p) /\ Wave(w) /\ ~RunsAway(p, w)
      BY <1>1, <2>1, ChannelIs DEF Decodable
    <3> HIDE DEF p, w
    <3> QED BY <3>1, AnalysisIs
  <2>6. ASSUME \A d \in {camp.channels[q] : q \in c + 1 .. chan} : d # ch
        PROVE  raw[RawPos(ch)][ch.side] = [qdc |-> found.charge, time |-> SampleOf(found.t0)]
    <3>1. \A d \in c + 1 .. chan : camp.channels[d] # camp.channels[c]
      BY <2>6
    <3> QED BY <2>2, <3>1, HitKept
  <2> DEFINE sig == samples[SamplePos(ch)][ch.side]
             r == raw[RawPos(ch)][ch.side]
  <2>7. sig = found
    BY <2>4
  <2> HIDE DEF found, sig, r
  <2>8. IsAnalysisOf(p, sig, w)
    BY <2>5, <2>7
  <2>9. (\A d \in {camp.channels[q] : q \in c + 1 .. chan} : d # ch)
          => r.qdc = sig.charge /\ IsSampleOf(r.time, sig.t0)
    <3> SUFFICES ASSUME \A d \in {camp.channels[q] : q \in c + 1 .. chan} : d # ch
                 PROVE  r.qdc = sig.charge /\ IsSampleOf(r.time, sig.t0)
      OBVIOUS
    <3>1. r = [qdc |-> sig.charge, time |-> SampleOf(sig.t0)]
      BY <2>6, <2>7 DEF r
    <3>2. sig.t0 = None \/ sig.t0 \in Int
      <4>1. ParIs(p) /\ Wave(w) /\ ~RunsAway(p, w)
        BY <1>1, <2>1, ChannelIs DEF Decodable, p, w
      <4>2. found.t0 = None \/ found.t0 \in Int
        BY <4>1, SignalTypes DEF found
      <4> QED BY <2>7, <4>2
    <3>3. PICK t : t = sig.t0
      OBVIOUS
    <3>4. IsSampleOf(SampleOf(t), t)
      BY <3>2, <3>3, TimeCutOff, NoTime
    <3> QED BY <3>1, <3>3, <3>4
  <2> QED BY <2>8, <2>9 DEF sig, r
<1>3. ASSUME phase = "crashed", view = None
      PROVE  LET p == camp.par
                 s == Minus(Waveform, BaseLine(p, Waveform))
                 thr == Threshold(p, s)
             IN /\ p.intmode = 0
                /\ \E i \in Samples : Over(p, thr, s[i]) /\ \A k \in i .. Window - 1 : ~Back(p, thr, s[k])
  <2>1. HasRecord /\ RunsAway(camp.par, Waveform)
    BY <1>3 DEF DataInv, EventInv
  <2> DEFINE p == camp.par
             w == Waveform
  <2>2. ParIs(p) /\ Wave(w) /\ RunsAway(p, w)
    <3>1. chan + 1 \in Ids /\ e \in 1 .. Len(camp.files[chan + 1])
      BY <1>1, <2>1, ChannelIs, ListIs DEF HasRecord, DataInv, EventInv
    <3>2. Wave(camp.files[chan + 1][e]) /\ ParIs(camp.par)
      BY <1>1, <3>1, ChannelIs
    <3> QED BY <2>1, <3>2 DEF Waveform
  <2> HIDE DEF p, w
  <2>3. LET s == Minus(w, BaseLine(p, w))
            thr == Threshold(p, s)
        IN /\ p.intmode = 0
           /\ \E i \in Samples : Over(p, thr, s[i]) /\ \A k \in i .. Window - 1 : ~Back(p, thr, s[k])
    BY <2>2, RunsAwayIs
  <2> QED BY <2>3 DEF p, w
<1> QED BY <1>2, <1>3 DEF SignalsAreAnalysed

-----------------------------------------------------------------------------
(* Part 6: the order of the objects in a compressed category.              *)

(* How many numbers of a finite set are below one of it.                   *)
LEMMA BelowIsNumber ==
  ASSUME NEW S \in SUBSET Int, IsFiniteSet(S), NEW p \in S
  PROVE  Below(S, p) \in 0 .. Cardinality(S) - 1
<1> DEFINE A == {y \in S : y < p}
<1>1. A \in SUBSET S /\ p \notin A
  OBVIOUS
<1>2. IsFiniteSet(A) /\ Cardinality(A) <= Cardinality(S) /\ Cardinality(A) # Cardinality(S)
  BY <1>1, FS_Subset
<1>3. Cardinality(A) \in Nat /\ Cardinality(S) \in Nat
  BY <1>2, FS_CardinalityType
<1> QED BY <1>2, <1>3 DEF Below

(* Numbers with as many below them are the same.                           *)
LEMMA BelowTells ==
  ASSUME NEW S \in SUBSET Int, IsFiniteSet(S), NEW p \in S, NEW q \in S, Below(S, p) = Below(S, q)
  PROVE  p = q
<1>1. ASSUME NEW a \in S, NEW b \in S, a < b PROVE Below(S, a) # Below(S, b)
  <2> DEFINE A == {y \in S : y < a}
             B == {y \in S : y < b}
  <2>1. A \in SUBSET B /\ a \in B /\ a \notin A /\ B \in SUBSET S
    <3>1. \A y \in S : y < a => y < b
      BY <1>1
    <3>2. ~(a < a)
      OBVIOUS
    <3> QED BY <1>1, <3>1, <3>2
  <2>2. IsFiniteSet(B)
    BY <2>1, FS_Subset
  <2>3. Cardinality(A) # Cardinality(B)
    BY <2>1, <2>2, FS_Subset
  <2> QED BY <2>3 DEF Below
<1>2. p < q \/ q < p \/ p = q
  OBVIOUS
<1> QED BY <1>1, <1>2

(* There is a number of the set with k - 1 of them below it.               *)
LEMMA BelowHits ==
  ASSUME NEW S \in SUBSET Int, IsFiniteSet(S), NEW k \in 1 .. Cardinality(S)
  PROVE  \E p \in S : Below(S, p) = k - 1
<1> DEFINE n == Cardinality(S)
           T == 0 .. n - 1
           f == [p \in S |-> Below(S, p)]
<1>1. n \in Nat
  BY FS_CardinalityType
<1>2. IsFiniteSet(T) /\ Cardinality(T) = n
  <2>1. 0 \in Int /\ n - 1 \in Int
    BY <1>1
  <2> QED BY <1>1, <2>1, FS_Interval
<1>3. f \in Injection(S, T)
  <2>1. f \in [S -> T]
    BY BelowIsNumber
  <2>2. \A p, q \in S : f[p] = f[q] => p = q
    BY BelowTells
  <2> HIDE DEF f, T
  <2> QED BY <2>1, <2>2, Fun_IsInj
<1>4. f \in Surjection(S, T)
  <2>1. Cardinality(S) = Cardinality(T)
    BY <1>2
  <2> HIDE DEF T, f, n
  <2> QED BY <1>2, <1>3, <2>1, FS_Injection
<1>5. k - 1 \in T
  BY <1>1
<1> QED BY <1>4, <1>5 DEF Surjection

(* The objects of a compressed category in the order of their positions.   *)
LEMMA CompressedIs ==
  ASSUME NEW objects, NEW D, D = DOMAIN objects, D \in SUBSET Int, IsFiniteSet(D)
  PROVE  /\ DOMAIN Compressed(objects) = 1 .. Cardinality(D) /\ Cardinality(D) \in Nat
         /\ \A k \in 1 .. Cardinality(D) :
              \E p \in D : Below(D, p) = k - 1 /\ Compressed(objects)[k] = objects[p]
         /\ \A p \in D : /\ Below(D, p) + 1 \in 1 .. Cardinality(D)
                         /\ Compressed(objects)[Below(D, p) + 1] = objects[p]
<1> DEFINE n == Cardinality(D)
           s == Compressed(objects)
<1>1. s = [k \in 1 .. n |-> objects[CHOOSE a \in D : Below(D, a) = k - 1]] /\ n \in Nat
  BY FS_CardinalityType DEF Compressed
<1> HIDE DEF s
<1>2. ASSUME NEW k \in 1 .. n, NEW p \in D, Below(D, p) = k - 1 PROVE s[k] = objects[p]
  <2> DEFINE c == CHOOSE a \in D : Below(D, a) = k - 1
  <2>1. c \in D /\ Below(D, c) = k - 1
    BY <1>2
  <2>2. s[k] = objects[c]
    BY <1>1
  <2> HIDE DEF c
  <2>3. c = p
    BY <1>2, <2>1, BelowTells
  <2> QED BY <2>2, <2>3
<1>3. ASSUME NEW k \in 1 .. n PROVE \E p \in D : Below(D, p) = k - 1 /\ s[k] = objects[p]
  BY <1>2, BelowHits
<1>4. ASSUME NEW p \in D PROVE Below(D, p) + 1 \in 1 .. n /\ s[Below(D, p) + 1] = objects[p]
  <2>1. Below(D, p) \in 0 .. n - 1
    BY BelowIsNumber
  <2> DEFINE b == Below(D, p)
             k == b + 1
  <2>2. k \in 1 .. n /\ Below(D, p) = k - 1
    BY <1>1, <2>1
  <2> HIDE DEF k
  <2>3. s[k] = objects[p]
    BY <1>2, <2>2
  <2> QED BY <2>2, <2>3 DEF k
<1> QED BY <1>1, <1>3, <1>4 DEF s

(* The values of a function on 1 .. n are finitely many.                   *)
LEMMA ValuesFinite ==
  ASSUME NEW n \in Nat, NEW a
  PROVE  IsFiniteSet({a[c] : c \in 1 .. n})
<1> DEFINE T == {a[c] : c \in 1 .. n}
           S == 1 .. n
           f == [c \in S |-> a[c]]
<1>1. IsFiniteSet(S)
  <2>1. 1 \in Int /\ n \in Int
    OBVIOUS
  <2> QED BY <2>1, FS_Interval
<1>2. f \in Surjection(S, T)
  BY DEF Surjection
<1> HIDE DEF f, S, T
<1>3. IsFiniteSet(T)
  BY <1>1, <1>2, FS_Surjection
<1> QED BY <1>3 DEF T

(* Two functions with the same order have the same ranks.                  *)
SameOrder(n, a, b) ==
  \A d, e \in 1 .. n : a[d] \in Int /\ b[d] \in Int /\ (a[d] < a[e] <=> b[d] < b[e])
IsImage(P, n, a) == P = {a[d] : d \in 1 .. n}

(* Then as many values of one are below that at c as of the other.         *)
LEMMA RankSame ==
  ASSUME NEW n \in Nat, NEW a, NEW b, NEW c \in 1 .. n, SameOrder(n, a, b),
         NEW P, IsImage(P, n, a), NEW Q, IsImage(Q, n, b)
  PROVE  Below(P, a[c]) = Below(Q, b[c])
<1>0. /\ \A d \in 1 .. n : a[d] \in Int /\ b[d] \in Int
      /\ \A d, e \in 1 .. n : a[d] < a[e] <=> b[d] < b[e]
      /\ P = {a[d] : d \in 1 .. n} /\ Q = {b[d] : d \in 1 .. n}
  BY DEF SameOrder, IsImage
<1> DEFINE A == {y \in P : y < a[c]}
           B == {y \in Q : y < b[c]}
           At(y) == CHOOSE d \in 1 .. n : a[d] = y
           g == [y \in A |-> b[At(y)]]
<1>1. ASSUME NEW y \in A PROVE At(y) \in 1 .. n /\ a[At(y)] = y
  <2>1. \E d \in 1 .. n : a[d] = y
    BY <1>0
  <2> QED BY <2>1
<1>2. \A d, e \in 1 .. n : a[d] = a[e] <=> b[d] = b[e]
  <2> SUFFICES ASSUME NEW d \in 1 .. n, NEW e \in 1 .. n PROVE a[d] = a[e] <=> b[d] = b[e]
    OBVIOUS
  <2>1. (a[d] < a[e] <=> b[d] < b[e]) /\ (a[e] < a[d] <=> b[e] < b[d])
        /\ a[d] \in Int /\ a[e] \in Int /\ b[d] \in Int /\ b[e] \in Int
    BY <1>0
  <2> QED BY <2>1
<1> HIDE DEF At
<1>3. g \in [A -> B]
  <2> SUFFICES ASSUME NEW y \in A PROVE b[At(y)] \in B
    OBVIOUS
  <2>1. At(y) \in 1 .. n /\ a[At(y)] < a[c]
    BY <1>1
  <2> QED BY <1>0, <2>1
<1>4. \A y, z \in A : g[y] = g[z] => y = z
  BY <1>1, <1>2
<1>5. \A t \in B : \E y \in A : g[y] = t
  <2> SUFFICES ASSUME NEW t \in B PROVE \E y \in A : g[y] = t
    OBVIOUS
  <2>1. PICK d \in 1 .. n : t = b[d] /\ b[d] < b[c]
    BY <1>0
  <2>2. a[d] \in A
    BY <1>0, <2>1
  <2>3. At(a[d]) \in 1 .. n /\ a[At(a[d])] = a[d]
    BY <1>1, <2>2
  <2>4. b[At(a[d])] = b[d]
    BY <1>2, <2>3
  <2> QED BY <2>1, <2>2, <2>4
<1>6. IsFiniteSet(A)
  <2>1. IsFiniteSet({a[d] : d \in 1 .. n})
    BY ValuesFinite
  <2>2. P = {a[d] : d \in 1 .. n} /\ A \in SUBSET P
    BY <1>0
  <2> QED BY <2>1, <2>2, FS_Subset
<1> HIDE DEF A, B, g
<1>7. g \in Injection(A, B) /\ g \in Surjection(A, B)
  BY <1>3, <1>4, <1>5, Fun_IsInj, Fun_IsSurj
<1>8. Cardinality(A) = Cardinality(B)
  BY <1>6, <1>7, FS_Surjection
<1> QED BY <1>8 DEF Below, A, B

-----------------------------------------------------------------------------
(* Part 7: what CutAndView finds in an event, and what it has drawn.       *)

(* The greatest of some numbers up to n.                                   *)
LEMMA LastIs ==
  ASSUME NEW n \in Nat, NEW S \in SUBSET (1 .. n), S # {}
  PROVE  \E c \in S : \A d \in c + 1 .. n : d \notin S
<1> DEFINE T == {n - c : c \in S}
<1>1. (\A a \in T : a \in Int /\ 0 <= a) /\ T # {}
  <2>1. \A c \in S : c \in 1 .. n
    OBVIOUS
  <2>2. \A c \in 1 .. n : n - c \in Int /\ 0 <= n - c
    OBVIOUS
  <2> QED BY <2>1, <2>2
<1>2. Smallest(T) \in T /\ \A b \in T : Smallest(T) <= b
  <2> HIDE DEF T
  <2>1. 0 \in Int
    OBVIOUS
  <2> QED BY <1>1, <2>1, SmallestIs
<1>3. PICK c \in S : Smallest(T) = n - c
  BY <1>2
<1>4. \A d \in S : n - c <= n - d
  BY <1>2, <1>3
<1> QED BY <1>4

(* The charge is what a cut on the other category takes.                   *)
LEMMA PassesSame ==
  ASSUME NEW kind, NEW range, NEW sig,
         sig.t0 = None => sig.charge = None, sig.t0 # None => sig.t0 \in Int /\ sig.charge \in Int
  PROVE  Passes(kind, range, sig, [qdc |-> sig.charge, time |-> SampleOf(sig.t0)])
           <=> Passes(kind, range, sig, [qdc |-> sig.charge])
<1> DEFINE q == [qdc |-> sig.charge, time |-> SampleOf(sig.t0)]
           r == [qdc |-> sig.charge]
           a == Within(sig.charge, range)
<1>1. q.qdc = sig.charge /\ r.qdc = sig.charge
  OBVIOUS
<1>2. sig.charge = None => ~a
  BY DEF Within
<1>3. sig.charge # None => q # None /\ r # None
  <2> SUFFICES ASSUME sig.charge # None PROVE q # None /\ r # None
    OBVIOUS
  <2>1. q \in [qdc : Int, time : Int] /\ r \in [qdc : Int]
    <3>1. sig.t0 # None /\ sig.t0 \in Int /\ sig.charge \in Int
      OBVIOUS
    <3>2. PICK t : t = sig.t0
      OBVIOUS
    <3>3. SampleOf(t) \in Int
      BY <3>1, <3>2, TimeCutOff
    <3> QED BY <3>1, <3>2, <3>3
  <2> HIDE DEF q, r
  <2> QED BY <2>1, NoneAssumption
<1>4. (q # None /\ Within(q.qdc, range)) <=> (r # None /\ Within(r.qdc, range))
  BY <1>1, <1>2, <1>3
<1> HIDE DEF q, r
<1>5. Passes(kind, range, sig, q) <=> Passes(kind, range, sig, r)
  BY <1>4 DEF Passes
<1> QED BY <1>5 DEF q, r

(* The positions of the channels.                                          *)
LEMMA PosIs ==
  ASSUME PhaseOK, NEW c \in Ids
  PROVE  /\ SamplesAt[c] \in Int /\ RawAt[c] \in Int
         /\ SamplesAt[c] = SamplePos(FibreOf[c])
<1> DEFINE a == camp.channels[c]
           r1 == RawSizes[1]
           r2 == RawSizes[2]
           r3 == RawSizes[3]
           C == [m : 0 .. r1 - 1, l : 0 .. r2 - 1, s : 0 .. r3 - 1, side : {"l", "r"}]
<1>1. r1 \in Nat \ {0} /\ r2 \in Nat \ {0} /\ r3 \in Nat \ {0} /\ a \in C
  BY RawSizesAssumption, ChannelIs
<1>2. SamplesAt[c] = a.m + a.l * 1 + a.s * 1 * 1 /\ RawAt[c] = a.m + a.l * r1 + a.s * r1 * r2
  BY DEF SamplesAt, RawAt, SamplePos, RawPos, Pos
<1>3. SamplePos(FibreOf[c]) = a.m + a.l * 1 + a.s * 1 * 1
  BY DEF FibreOf, Fibre, SamplePos, Pos
<1> HIDE DEF a, r1, r2, r3
<1>4. a.m \in Int /\ a.l \in Int /\ a.s \in Int
  BY <1>1
<1>5. a.m + a.l * 1 + a.s * 1 * 1 \in Int /\ a.m + a.l * r1 + a.s * r1 * r2 \in Int
  BY <1>1, <1>4
<1> QED BY <1>2, <1>3, <1>5

N == Len(camp.channels)

(* What the categories of a written event have of the channels: objects    *)
(* at the positions of their own fibres, and of the last channel that has  *)
(* a position and side its signal.                                         *)
LEMMA ObjectsAre ==
  ASSUME PhaseOK, NEW e, NEW objects, SamplesHave(objects, N, e), NEW D, D = DOMAIN objects
  PROVE  /\ D \in SUBSET Int /\ IsFiniteSet(D) /\ D = {SamplesAt[c] : c \in 1 .. N}
         /\ \A p \in D : /\ SamplePos(objects[p].fibre) = p
                         /\ \E c \in 1 .. N : SamplesAt[c] = p /\ objects[p].fibre = FibreOf[c]
<1>1. N \in Nat /\ Ids = 1 .. N
  BY ChannelIs DEF N
<1>2. D = {SamplesAt[c] : c \in 1 .. N}
  BY DEF SamplesHave, Written
<1>3. D \in SUBSET Int /\ IsFiniteSet(D)
  <2>1. IsFiniteSet({SamplesAt[c] : c \in 1 .. N})
    <3> DEFINE a == SamplesAt
               n == N
    <3>1. n \in Nat
      BY <1>1
    <3> HIDE DEF a, n
    <3>2. IsFiniteSet({a[c] : c \in 1 .. n})
      BY <3>1, ValuesFinite
    <3> QED BY <3>2 DEF a, n
  <2>2. \A c \in 1 .. N : SamplesAt[c] \in Int
    BY <1>1, PosIs
  <2> QED BY <1>2, <2>1, <2>2
<1>4. ASSUME NEW p \in D
      PROVE  /\ SamplePos(objects[p].fibre) = p
             /\ \E c \in 1 .. N : SamplesAt[c] = p /\ objects[p].fibre = FibreOf[c]
  <2> DEFINE S == {c \in 1 .. N : SamplesAt[c] = p}
  <2>1. S \in SUBSET (1 .. N) /\ S # {}
    BY <1>2
  <2> HIDE DEF S
  <2>2. PICK c \in S : \A d \in c + 1 .. N : d \notin S
    BY <1>1, <2>1, LastIs
  <2>3. c \in 1 .. N /\ SamplesAt[c] = p /\ \A d \in c + 1 .. N : d \in 1 .. N
    BY <1>1, <2>2 DEF S
  <2>4. \A d \in c + 1 .. N : SamplesAt[d] # SamplesAt[c]
    BY <2>2, <2>3 DEF S
  <2>5. objects[SamplesAt[c]].fibre = FibreOf[c]
    BY <2>3, <2>4 DEF SamplesHave, Written
  <2> QED BY <1>1, <2>3, <2>5, PosIs
<1> QED BY <1>2, <1>3, <1>4

(* The value of a channel at its position and side is the signal of the    *)
(* last channel that has both.                                             *)
LEMMA SignalAt ==
  ASSUME PhaseOK, NEW e, NEW objects, SamplesHave(objects, N, e), NEW c \in Ids
  PROVE  \E d \in Ids : /\ objects[SamplesAt[c]][SideOf[c]] = SignalOf(e)[d]
                        /\ SamplesAt[d] = SamplesAt[c] /\ SideOf[d] = SideOf[c]
<1>1. N \in Nat /\ Ids = 1 .. N
  BY ChannelIs DEF N
<1> DEFINE S == {d \in 1 .. N : SamplesAt[d] = SamplesAt[c] /\ SideOf[d] = SideOf[c]}
<1>2. S \in SUBSET (1 .. N) /\ S # {}
  BY <1>1
<1> HIDE DEF S
<1>3. PICK d \in S : \A q \in d + 1 .. N : q \notin S
  BY <1>1, <1>2, LastIs
<1>4. d \in 1 .. N /\ SamplesAt[d] = SamplesAt[c] /\ SideOf[d] = SideOf[c] /\ \A q \in d + 1 .. N : q \in 1 .. N
  BY <1>1, <1>3 DEF S
<1>5. \A q \in d + 1 .. N : SamplesAt[q] # SamplesAt[d] \/ SideOf[q] # SideOf[d]
  BY <1>3, <1>4 DEF S
<1>6. objects[SamplesAt[d]][SideOf[d]] = SignalOf(e)[d]
  BY <1>4, <1>5 DEF SamplesHave, Written
<1> QED BY <1>1, <1>4, <1>6

(* The object of the fibre of a channel in a written event: there is at    *)
(* most one, and its signal is that of a channel at the same position.     *)
LEMMA OneObject ==
  ASSUME DataInv, NEW e \in 1 .. Len(saved), NEW c \in Ids,
         NEW objects, SamplesHave(objects, N, e), NEW s, s = Compressed(objects),
         NEW j \in DOMAIN s, s[j].fibre = FibreOf[c]
  PROVE  /\ SamplesAt[c] \in DOMAIN objects
         /\ j = Below(DOMAIN objects, SamplesAt[c]) + 1 /\ s[j] = objects[SamplesAt[c]]
<1>1. PhaseOK
  BY DEF DataInv
<1> DEFINE D == DOMAIN objects
           p == SamplesAt[c]
<1>2. D \in SUBSET Int /\ IsFiniteSet(D) /\ \A q \in D : SamplePos(objects[q].fibre) = q
  BY <1>1, ObjectsAre
<1>3. p = SamplePos(FibreOf[c])
  BY <1>1, PosIs
<1> HIDE DEF D, p
<1>4. PICK q \in D : Below(D, q) = j - 1 /\ s[j] = objects[q] /\ j \in 1 .. Cardinality(D) /\ Cardinality(D) \in Nat
  BY <1>2, CompressedIs DEF D
<1>5. q = p
  BY <1>2, <1>3, <1>4
<1> QED BY <1>4, <1>5 DEF D, p

(* Channels of different signals that keep their order.                    *)
LEMMA AlignedIs ==
  ASSUME PhaseOK, Aligned, NEW c \in Ids, NEW d \in Ids
  PROVE  /\ SamplesAt[c] < SamplesAt[d] <=> RawAt[c] < RawAt[d]
         /\ SamplesAt[c] = SamplesAt[d] /\ SideOf[c] = SideOf[d] => c = d
         /\ RawAt[c] = RawAt[d] /\ SideOf[c] = SideOf[d] => c = d
<1> DEFINE a == camp.channels[c]
           b == camp.channels[d]
<1>1. /\ SamplePos(a) < SamplePos(b) <=> RawPos(a) < RawPos(b)
      /\ SamplePos(b) < SamplePos(a) <=> RawPos(b) < RawPos(a)
      /\ c # d => a # b
  BY DEF Aligned, Ids
<1>2. /\ SamplesAt[c] = SamplePos(a) /\ SamplesAt[d] = SamplePos(b) /\ RawAt[c] = RawPos(a) /\ RawAt[d] = RawPos(b)
      /\ SideOf[c] = a.side /\ SideOf[d] = b.side
  BY DEF SamplesAt, RawAt, SideOf
<1>3. SamplesAt[c] \in Int /\ SamplesAt[d] \in Int /\ RawAt[c] \in Int /\ RawAt[d] \in Int
  BY PosIs
<1>4. RawPos(a) = RawPos(b) /\ a.side = b.side => a = b
  BY RawPosIs, ChannelSame
<1> HIDE DEF a, b
<1>5. SamplesAt[c] = SamplesAt[d] => RawAt[c] = RawAt[d]
  BY <1>1, <1>2, <1>3
<1> QED BY <1>1, <1>2, <1>4, <1>5

(* The signal of the channel in an event, and whether it passes the cut.   *)
CutSig(e) == Analysis(camp.par, camp.files[cut.ch][e])
CutPasses(e) == Passes(cut.kind, cut.range, CutSig(e), [qdc |-> CutSig(e).charge])

(* The channel of the cut is one of the measurement.                       *)
LEMMA CutIs ==
  ASSUME PhaseOK, cut # None
  PROVE  /\ cut.ch \in Ids /\ cut.ch \in 1 .. N /\ Ids = 1 .. N /\ N \in Nat
         /\ Fibre(CutChannel) = FibreOf[cut.ch] /\ CutChannel.side = SideOf[cut.ch]
         /\ \A e : SignalOf(e)[cut.ch] = CutSig(e)
<1>1. cut \in camp.cuts /\ cut.ch \in DOMAIN camp.files
  BY CampIs DEF PhaseOK
<1>2. N \in Nat /\ Ids = 1 .. N /\ cut.ch \in 1 .. N
  BY <1>1, CampIs, ChannelIs DEF N
<1> QED BY <1>2 DEF FibreOf, SideOf, SignalOf, CutSig, CutChannel

(* The values of the signal of a channel, and what the other category has  *)
(* of them.                                                                *)
LEMMA TypesOf ==
  ASSUME PhaseOK, NEW c \in Ids, NEW e, Decodable(c, e)
  PROVE  LET sig == SignalOf(e)[c]
         IN /\ sig.bl \in Int
            /\ sig.t0 = None => sig.charge = None
            /\ sig.t0 # None => sig.t0 \in Int /\ sig.charge \in Int
            /\ HitOf(e)[c] = [qdc |-> sig.charge, time |-> SampleOf(sig.t0)]
<1> DEFINE p == camp.par
           w == camp.files[c][e]
           found == Analysis(p, w)
<1>1. ParIs(p) /\ Wave(w) /\ ~RunsAway(p, w)
  BY ChannelIs DEF Decodable
<1>2. SignalOf(e)[c] = found /\ HitOf(e)[c] = [qdc |-> found.charge, time |-> SampleOf(found.t0)]
  BY DEF SignalOf, HitOf
<1> HIDE DEF p, w
<1>3. /\ found.bl \in Int
      /\ found.t0 = None => found.charge = None
      /\ found.t0 # None => found.t0 \in Int /\ found.charge \in Int
  BY <1>1, SignalTypes
<1> HIDE DEF found
<1> QED BY <1>2, <1>3

(* The objects that pass the cut: at most one, of a signal of the event;   *)
(* if the order is the same in both categories, that of the channel.       *)
LEMMA PassingOne ==
  ASSUME DataInv, cut # None, NEW e \in 1 .. Len(saved)
  PROVE  /\ \A i, j \in Passing(e) : i = j
         /\ \A j \in Passing(e) : saved[e].samples[j][CutChannel.side].bl \in Int
<1> DEFINE ch == cut.ch
           s == saved[e].samples
<1>1. /\ PhaseOK /\ \A c \in Ids : Decodable(c, e)
      /\ \E objects : SamplesHave(objects, N, e) /\ s = Compressed(objects)
  BY DEF DataInv, TreeInv, EventIs, N
<1>2. PICK objects : SamplesHave(objects, N, e) /\ s = Compressed(objects)
  BY <1>1
<1>3. ch \in Ids /\ Fibre(CutChannel) = FibreOf[ch] /\ CutChannel.side = SideOf[ch]
  BY <1>1, CutIs
<1>4. \A j \in Passing(e) : j \in DOMAIN s /\ s[j].fibre = FibreOf[ch]
  BY <1>3 DEF Passing
<1> HIDE DEF s, ch
<1>5. ASSUME NEW j \in Passing(e)
      PROVE  j = Below(DOMAIN objects, SamplesAt[ch]) + 1 /\ s[j] = objects[SamplesAt[ch]]
  BY <1>1, <1>2, <1>3, <1>4, OneObject
<1>6. ASSUME NEW j \in Passing(e) PROVE s[j][SideOf[ch]].bl \in Int
  <2>1. PICK d \in Ids : objects[SamplesAt[ch]][SideOf[ch]] = SignalOf(e)[d]
    BY <1>1, <1>2, <1>3, SignalAt
  <2>2. SignalOf(e)[d].bl \in Int
    BY <1>1, <2>1, TypesOf
  <2> QED BY <1>5, <2>1, <2>2
<1> QED BY <1>3, <1>5, <1>6 DEF s

(* If the channels have the same order in both categories, the event       *)
(* passes if its signal does.                                              *)
LEMMA PassingAligned ==
  ASSUME DataInv, cut # None, NEW e \in 1 .. Len(saved), Aligned
  PROVE  /\ Passing(e) # {} <=> CutPasses(e)
         /\ \A j \in Passing(e) : saved[e].samples[j][CutChannel.side].bl = CutSig(e).bl
<1> DEFINE ch == cut.ch
           s == saved[e].samples
           r == saved[e].raw
           sig == CutSig(e)
<1>1. /\ PhaseOK /\ \A c \in Ids : Decodable(c, e)
      /\ \E objects : SamplesHave(objects, N, e) /\ s = Compressed(objects)
      /\ \E objects : RawHas(objects, N, e) /\ r = Compressed(objects)
  BY DEF DataInv, TreeInv, EventIs, N
<1>2. PICK objects : SamplesHave(objects, N, e) /\ s = Compressed(objects)
  BY <1>1
<1>3. PICK hits : RawHas(hits, N, e) /\ r = Compressed(hits)
  BY <1>1
<1>4. /\ ch \in Ids /\ ch \in 1 .. N /\ Ids = 1 .. N /\ N \in Nat
      /\ Fibre(CutChannel) = FibreOf[ch] /\ CutChannel.side = SideOf[ch] /\ SignalOf(e)[ch] = sig
  BY <1>1, CutIs
<1>5. \A j : j \in Passing(e) <=> /\ j \in DOMAIN s /\ s[j].fibre = FibreOf[ch]
                                  /\ Passes(cut.kind, cut.range, s[j][SideOf[ch]], r[j][SideOf[ch]])
  BY <1>4 DEF Passing
<1> DEFINE D == DOMAIN objects
           E == DOMAIN hits
           p == SamplesAt[ch]
           q == RawAt[ch]
           k == Below(D, p) + 1
<1> HIDE DEF ch, s, r, sig
<1>6. /\ D \in SUBSET Int /\ IsFiniteSet(D) /\ D = {SamplesAt[c] : c \in 1 .. N}
      /\ \A a \in D : \E c \in 1 .. N : SamplesAt[c] = a /\ objects[a].fibre = FibreOf[c]
  <2>1. D = DOMAIN objects
    OBVIOUS
  <2>2. D = {SamplesAt[c] : c \in 1 .. N}
    BY <1>2 DEF SamplesHave, Written
  <2> HIDE DEF D
  <2>3. /\ D \in SUBSET Int /\ IsFiniteSet(D)
        /\ \A a \in D : \E c \in 1 .. N : SamplesAt[c] = a /\ objects[a].fibre = FibreOf[c]
    BY <1>1, <1>2, <2>1, ObjectsAre
  <2> QED BY <2>2, <2>3
<1>7. p \in D
  BY <1>4, <1>6
<1>8. k \in DOMAIN s /\ s[k] = objects[p]
  <2>1. D = DOMAIN objects
    OBVIOUS
  <2>2. D \in SUBSET Int /\ IsFiniteSet(D) /\ p \in D /\ s = Compressed(objects)
    BY <1>2, <1>6, <1>7
  <2> HIDE DEF D, p
  <2>3. Below(D, p) + 1 \in 1 .. Cardinality(D) /\ s[Below(D, p) + 1] = objects[p]
    BY <2>1, <2>2, CompressedIs
  <2>4. DOMAIN s = 1 .. Cardinality(D)
    BY <2>1, <2>2, CompressedIs
  <2> QED BY <2>3, <2>4
<1>9. objects[p].fibre = FibreOf[ch]
  <2>1. PICK c \in 1 .. N : SamplesAt[c] = p /\ objects[p].fibre = FibreOf[c]
    BY <1>6, <1>7
  <2>2. c \in Ids /\ RawAt[c] \in Int /\ RawAt[ch] \in Int
    BY <1>1, <1>4, PosIs
  <2>3. RawAt[c] = RawAt[ch]
    <3>1. SamplesAt[c] < SamplesAt[ch] <=> RawAt[c] < RawAt[ch]
      BY <1>1, <1>4, <2>2, AlignedIs
    <3>2. SamplesAt[ch] < SamplesAt[c] <=> RawAt[ch] < RawAt[c]
      BY <1>1, <1>4, <2>2, AlignedIs
    <3>3. ~(SamplesAt[c] < SamplesAt[ch]) /\ ~(SamplesAt[ch] < SamplesAt[c])
      BY <1>1, <1>4, <2>1, PosIs
    <3> QED BY <2>2, <3>1, <3>2, <3>3
  <2>4. FibreOf[c] = FibreOf[ch]
    BY <1>1, <1>4, <2>3, RawPosIs DEF RawAt, FibreOf
  <2> QED BY <2>1, <2>4
<1>10. objects[p][SideOf[ch]] = sig
  <2>1. PICK d \in Ids : /\ objects[p][SideOf[ch]] = SignalOf(e)[d]
                         /\ SamplesAt[d] = p /\ SideOf[d] = SideOf[ch]
    BY <1>1, <1>2, <1>4, SignalAt
  <2>2. d = ch
    BY <1>1, <1>4, <2>1, AlignedIs
  <2> QED BY <1>4, <2>1, <2>2
<1>11. hits[q][SideOf[ch]] = HitOf(e)[ch]
  <2>1. \A d \in ch + 1 .. N : d \in 1 .. N /\ d # ch
    BY <1>4
  <2>2. \A d \in ch + 1 .. N : RawAt[d] # RawAt[ch] \/ SideOf[d] # SideOf[ch]
    BY <1>1, <1>4, <2>1, AlignedIs
  <2> QED BY <1>3, <1>4, <2>2 DEF RawHas, Written
<1>12. E = {RawAt[c] : c \in 1 .. N} /\ E \in SUBSET Int /\ IsFiniteSet(E)
  <2>1. E = {RawAt[c] : c \in 1 .. N}
    BY <1>3 DEF RawHas, Written
  <2>2. IsFiniteSet({RawAt[c] : c \in 1 .. N})
    <3> DEFINE a == RawAt
               n == N
    <3>1. n \in Nat
      BY <1>4
    <3> HIDE DEF a, n
    <3>2. IsFiniteSet({a[c] : c \in 1 .. n})
      BY <3>1, ValuesFinite
    <3> QED BY <3>2 DEF a, n
  <2>3. \A c \in 1 .. N : RawAt[c] \in Int
    BY <1>1, <1>4, PosIs
  <2> QED BY <2>1, <2>2, <2>3
<1>13. Below(D, p) = Below(E, q)
  <2> DEFINE a == SamplesAt
             b == RawAt
             n == N
  <2>1. n \in Nat /\ ch \in 1 .. n /\ SameOrder(n, a, b)
    BY <1>1, <1>4, PosIs, AlignedIs DEF SameOrder
  <2>2. IsImage(D, n, a) /\ IsImage(E, n, b)
    <3> HIDE DEF D, E
    <3> QED BY <1>6, <1>12 DEF IsImage
  <2> HIDE DEF a, b, n, D, E
  <2>3. Below(D, a[ch]) = Below(E, b[ch])
    BY <2>1, <2>2, RankSame
  <2> QED BY <2>3 DEF a, b
<1>14. r[k] = hits[q]
  <2>1. q \in E
    BY <1>4, <1>12
  <2>2. E = DOMAIN hits
    OBVIOUS
  <2>3. E \in SUBSET Int /\ IsFiniteSet(E) /\ q \in E /\ r = Compressed(hits)
    BY <1>3, <1>12, <2>1
  <2> HIDE DEF E, q
  <2>4. Compressed(hits)[Below(E, q) + 1] = hits[q]
    BY <2>2, <2>3, CompressedIs
  <2> QED BY <1>13, <2>3, <2>4
<1>15. \A j \in Passing(e) : j = k
  <2> SUFFICES ASSUME NEW j \in Passing(e) PROVE j = k
    OBVIOUS
  <2>1. j \in DOMAIN s /\ s[j].fibre = FibreOf[ch]
    BY <1>5
  <2> QED BY <1>1, <1>2, <1>4, <2>1, OneObject
<1> HIDE DEF D, E, p, q, k
<1>16. Passes(cut.kind, cut.range, sig, HitOf(e)[ch]) <=> CutPasses(e)
  <2>1. /\ sig.t0 = None => sig.charge = None
        /\ sig.t0 # None => sig.t0 \in Int /\ sig.charge \in Int
        /\ HitOf(e)[ch] = [qdc |-> sig.charge, time |-> SampleOf(sig.t0)]
    BY <1>1, <1>4, TypesOf
  <2> DEFINE kind == cut.kind
             range == cut.range
  <2> HIDE DEF kind, range
  <2>2. Passes(kind, range, sig, [qdc |-> sig.charge, time |-> SampleOf(sig.t0)])
          <=> Passes(kind, range, sig, [qdc |-> sig.charge])
    BY <2>1, PassesSame
  <2> QED BY <2>1, <2>2 DEF CutPasses, sig, kind, range
<1>17. k \in Passing(e) <=> CutPasses(e)
  BY <1>5, <1>8, <1>9, <1>10, <1>11, <1>14, <1>16
<1>18. s[k][SideOf[ch]].bl = sig.bl
  BY <1>8, <1>10
<1> QED BY <1>4, <1>15, <1>17, <1>18 DEF s, sig

(* The events up to n whose signals pass, and the place of one among them. *)
CutPassing(n) == {e \in 1 .. n : CutPasses(e)}
Place(S, e) == Cardinality({d \in S : d <= e})

(* An event that passes has a place among them.                            *)
LEMMA PlaceIs ==
  ASSUME NEW S \in SUBSET Int, IsFiniteSet(S), NEW e \in S
  PROVE  Place(S, e) \in 1 .. Cardinality(S)
<1> DEFINE A == {d \in S : d <= e}
<1>1. A \in SUBSET S /\ e \in A
  OBVIOUS
<1>2. IsFiniteSet(A) /\ Cardinality(A) <= Cardinality(S)
  BY <1>1, FS_Subset
<1>3. Cardinality(A) \in Nat /\ Cardinality(S) \in Nat /\ Cardinality(A) # 0
  BY <1>1, <1>2, FS_CardinalityType, FS_EmptySet
<1> QED BY <1>2, <1>3 DEF Place

(* Finitely many events pass.                                              *)
LEMMA PassingFinite ==
  ASSUME NEW n \in Nat
  PROVE  CutPassing(n) \in SUBSET Int /\ IsFiniteSet(CutPassing(n)) /\ Cardinality(CutPassing(n)) \in Nat
<1>1. CutPassing(n) \in SUBSET (1 .. n) /\ CutPassing(n) \in SUBSET Int
  BY DEF CutPassing
<1>2. IsFiniteSet(1 .. n)
  BY FS_Interval
<1>3. IsFiniteSet(CutPassing(n))
  BY <1>1, <1>2, FS_Subset
<1> QED BY <1>1, <1>3, FS_CardinalityType

(* One more event: it comes last, and the others keep their places.        *)
LEMMA PassingMore ==
  ASSUME NEW n \in Nat
  PROVE  /\ ~CutPasses(n + 1) => CutPassing(n + 1) = CutPassing(n)
         /\ CutPasses(n + 1) =>
              /\ CutPassing(n + 1) = CutPassing(n) \cup {n + 1} /\ n + 1 \notin CutPassing(n)
              /\ Cardinality(CutPassing(n + 1)) = Cardinality(CutPassing(n)) + 1
              /\ Place(CutPassing(n + 1), n + 1) = Cardinality(CutPassing(n)) + 1
              /\ \A e \in CutPassing(n) : Place(CutPassing(n + 1), e) = Place(CutPassing(n), e)
<1> DEFINE m == n + 1
           S == CutPassing(n)
           T == CutPassing(m)
<1>1. m \in Int /\ (\A e \in 1 .. m : e = m \/ e \in 1 .. n) /\ (\A e \in 1 .. n : e \in 1 .. m /\ e < m) /\ m \in 1 .. m
  OBVIOUS
<1>2. S \in SUBSET (1 .. n) /\ IsFiniteSet(S)
  BY PassingFinite DEF CutPassing
<1> HIDE DEF m
<1>3. ~CutPasses(m) => T = S
  BY <1>1 DEF CutPassing
<1>4. ASSUME CutPasses(m)
      PROVE  /\ T = S \cup {m} /\ m \notin S
             /\ Cardinality(T) = Cardinality(S) + 1
             /\ Place(T, m) = Cardinality(S) + 1
             /\ \A e \in S : Place(T, e) = Place(S, e)
  <2>1. T = S \cup {m}
    BY <1>1, <1>4 DEF CutPassing
  <2>2. m \notin S /\ \A e \in S : e < m /\ e \in Int
    BY <1>1, <1>2
  <2> HIDE DEF S, T
  <2>3. Cardinality(T) = Cardinality(S) + 1
    BY <1>2, <2>1, <2>2, FS_AddElement
  <2>4. {d \in T : d <= m} = T
    BY <1>1, <2>1, <2>2
  <2>5. ASSUME NEW e \in S PROVE {d \in T : d <= e} = {d \in S : d <= e}
    BY <1>1, <2>1, <2>2
  <2> QED BY <2>1, <2>2, <2>3, <2>4, <2>5 DEF Place
<1> QED BY <1>3, <1>4 DEF m

(* What is drawn belongs to the record e, or is its signal.                *)
ShowsRecord(k, e) ==
  \A i, j \in Samples : shown[k][i] - shown[k][j] = camp.files[cut.ch][e][i] - camp.files[cut.ch][e][j]
ShowsSignal(k, e) == shown[k] = Minus(camp.files[cut.ch][e], CutSig(e).bl)

InOrder(n) ==
  /\ Len(shown) = Cardinality(CutPassing(n))
  /\ \A e \in CutPassing(n) : ShowsSignal(Place(CutPassing(n), e), e)

CutAt(n) ==
  /\ n \in 0 .. Len(saved)
  /\ Len(shown) <= NSig
  /\ \A k \in 1 .. Len(shown) : \E e \in 1 .. n : ShowsRecord(k, e)
  /\ Aligned => InOrder(n)
CutInv == cut # None => \E n \in Nat : n = pass /\ CutAt(n)

(* A number of signals is asked for.                                       *)
LEMMA NSigIs ==
  ASSUME PhaseOK, cut # None
  PROVE  NSig \in Nat
BY CampaignsAssumption DEF PhaseOK, NSig

(* CutAndView begins with nothing drawn.                                   *)
LEMMA StartCutStep ==
  ASSUME DataInv, NEW c \in camp.cuts, StartCut(c)
  PROVE  CutInv'
<1>1. /\ camp \in Campaigns /\ c # None /\ cut' = c /\ pass' = 0 /\ shown' = <<>> /\ saved' = saved /\ IsList(saved)
  BY CampIs DEF StartCut, DataInv, PhaseOK, Used, EventInv
<1>2. NSig' \in Nat
  BY <1>1, CampaignsAssumption DEF NSig
<1>3. Len(shown') = 0 /\ 1 .. 0 = {} /\ Len(saved') \in Nat
  BY <1>1, ListIs
<1>4. InOrder(0)'
  <2>1. CutPassing(0)' = {}
    BY <1>3 DEF CutPassing
  <2> QED BY <1>3, <2>1, FS_EmptySet DEF InOrder
<1>5. CutAt(0)'
  BY <1>2, <1>3, <1>4 DEF CutAt
<1> QED BY <1>1, <1>5 DEF CutInv

(* Steps that leave the cut alone.                                         *)
LEMMA CutStays ==
  ASSUME CutInv, UNCHANGED <<camp, saved, cut, pass, shown>>
  PROVE  CutInv'
<1>1. NSig' = NSig /\ (Aligned' <=> Aligned)
  BY DEF NSig, Aligned
<1>2. ASSUME NEW k, NEW e PROVE ShowsRecord(k, e)' <=> ShowsRecord(k, e)
  BY DEF ShowsRecord
<1>3. ASSUME NEW n PROVE InOrder(n)' <=> InOrder(n)
  BY DEF InOrder, CutPassing, CutPasses, CutSig, ShowsSignal
<1>4. ASSUME NEW n PROVE CutAt(n)' <=> CutAt(n)
  BY <1>1, <1>2, <1>3 DEF CutAt
<1> QED BY <1>4 DEF CutInv

(* CutAndView draws the signal of the next event, if it passes, and only   *)
(* then.                                                                   *)
LEMMA CutPassStep ==
  ASSUME DataInv, NEW n \in Nat, n = pass, CutAt(n), NEW e, e = n + 1, CutPass
  PROVE  DataInv' /\ CutInv'
<1> DEFINE P == Passing(e)
           c == Cardinality(P)
           w == camp.files[cut.ch][e]
           bl == saved[e].samples[CHOOSE j \in P : TRUE][CutChannel.side].bl
           t == [k \in 1 .. c |-> Minus(w, bl)]
           m == Len(shown)
<1>1. /\ phase = "cut" /\ cut # None /\ n < Len(saved) /\ m <= NSig - 1
      /\ pass' = e /\ shown' = shown \o t
      /\ UNCHANGED <<phase, camp, chan, samples, raw, saved, cut, view>>
      /\ PhaseOK /\ IsList(shown) /\ IsList(saved)
  <2>1. PhaseOK /\ EventInv
    BY DEF DataInv
  <2>2. IsList(shown) /\ IsList(saved) /\ (phase = "cut" => cut # None)
    BY <2>1 DEF PhaseOK, EventInv
  <2>3. /\ phase = "cut" /\ n < Len(saved) /\ m <= NSig - 1
        /\ pass' = e
        /\ UNCHANGED <<phase, camp, chan, samples, raw, saved, cut, view>>
    BY DEF CutPass
  <2>4. shown' = shown \o t
    BY DEF CutPass, ReadOneSignal
  <2> QED BY <2>1, <2>2, <2>3, <2>4
<1>2. n \in Nat /\ e \in 1 .. Len(saved) /\ Len(saved) \in Nat /\ m \in Nat /\ NSig \in Nat /\ n + 1 = e
  BY <1>1, ListIs, NSigIs DEF CutAt
<1>3. /\ m <= NSig /\ \A k \in 1 .. m : \E d \in 1 .. n : ShowsRecord(k, d)
      /\ Aligned => InOrder(n)
  BY DEF CutAt
<1>4. /\ \A i, j \in P : i = j
      /\ \A j \in P : saved[e].samples[j][CutChannel.side].bl \in Int
  BY <1>1, <1>2, PassingOne
<1>5. P # {} => bl \in Int
  BY <1>4
<1>6. IsFiniteSet(P) /\ c \in {0, 1} /\ (c = 0 <=> P = {})
  <2>1. CASE P = {}
    <3> HIDE DEF P
    <3> QED BY <2>1, FS_EmptySet
  <2>2. CASE P # {}
    <3>1. PICK j : j \in P
      BY <2>2
    <3>2. P = {j}
      BY <1>4, <3>1
    <3>3. IsFiniteSet({j}) /\ Cardinality({j}) = 1
      BY FS_Singleton
    <3>4. IsFiniteSet(P) /\ c = 1
      BY <3>2, <3>3
    <3> HIDE DEF P, c
    <3> QED BY <2>2, <3>4
  <2> QED BY <2>1, <2>2
<1>7. DataInv'
  BY <1>6, CutPassData
<1>8. t = [k \in 1 .. c |-> t[k]] /\ \A k \in 1 .. c : t[k] = Minus(w, bl)
  OBVIOUS
<1> HIDE DEF t, w, bl, P, c
<1>9. /\ Len(shown') = m + c /\ (\A k \in 1 .. m : shown'[k] = shown[k])
      /\ c = 1 => shown'[m + 1] = Minus(w, bl)
  <2>1. c \in Nat
    BY <1>6
  <2>2. /\ Len(shown') = m + c /\ (\A k \in 1 .. m : shown'[k] = shown[k])
        /\ \A k \in 1 .. c : shown'[m + k] = t[k]
    BY <1>1, <1>8, <2>1, ListConcat
  <2> QED BY <1>8, <2>2
<1>10. c = 1 => \A i, j \in Samples : Minus(w, bl)[i] - Minus(w, bl)[j] = w[i] - w[j]
  <2> SUFFICES ASSUME c = 1, NEW i \in Samples, NEW j \in Samples
               PROVE  Minus(w, bl)[i] - Minus(w, bl)[j] = w[i] - w[j]
    OBVIOUS
  <2>1. w \in Waveforms
    <3>1. cut.ch \in Ids /\ Decodable(cut.ch, e)
      BY <1>1, <1>2, CutIs DEF DataInv, TreeInv, EventIs
    <3> QED BY <1>1, <3>1, ChannelIs DEF Decodable, Wave, w
  <2>2. DOMAIN w = Samples /\ w[i] \in Int /\ w[j] \in Int /\ bl \in Int
    BY <1>5, <1>6, <2>1 DEF Waveforms
  <2> QED BY <2>2 DEF Minus
<1>11. \A k \in 1 .. m + c : \E d \in 1 .. e : ShowsRecord(k, d)'
  <2> SUFFICES ASSUME NEW k \in 1 .. m + c PROVE \E d \in 1 .. e : ShowsRecord(k, d)'
    OBVIOUS
  <2>1. CASE k \in 1 .. m
    <3>1. PICK d \in 1 .. n : ShowsRecord(k, d)
      BY <1>3, <2>1
    <3>2. ShowsRecord(k, d)'
      BY <1>1, <1>9, <2>1, <3>1 DEF ShowsRecord
    <3> QED BY <1>2, <3>2
  <2>2. CASE k \notin 1 .. m
    <3>1. c = 1 /\ k = m + 1
      BY <1>2, <1>6, <2>2
    <3>2. ShowsRecord(k, e)'
      BY <1>1, <1>9, <1>10, <3>1 DEF ShowsRecord, w
    <3> QED BY <1>2, <3>2
  <2> QED BY <2>1, <2>2
<1>12. ASSUME Aligned PROVE InOrder(e)'
  <2>1. c = 1 <=> CutPasses(e)
    BY <1>1, <1>2, <1>6, <1>12, PassingAligned DEF P
  <2>2. c = 1 => bl = CutSig(e).bl
    BY <1>1, <1>2, <1>6, <1>12, PassingAligned DEF P, bl
  <2>3. InOrder(n)
    BY <1>3, <1>12
  <2>4. \A d : (CutPasses(d)' <=> CutPasses(d)) /\ CutSig(d)' = CutSig(d)
    BY <1>1 DEF CutPasses, CutSig
  <2>5. CutPassing(e)' = CutPassing(e)
    BY <2>4 DEF CutPassing
  <2> DEFINE S == CutPassing(n)
             T == CutPassing(e)
  <2>6. /\ ~CutPasses(e) => T = S
        /\ CutPasses(e) =>
             /\ T = S \cup {e} /\ e \notin S
             /\ Cardinality(T) = Cardinality(S) + 1
             /\ Place(T, e) = Cardinality(S) + 1
             /\ \A d \in S : Place(T, d) = Place(S, d)
    BY <1>2, PassingMore
  <2>7. S \in SUBSET Int /\ IsFiniteSet(S) /\ m = Cardinality(S)
    BY <1>2, <2>3, PassingFinite DEF InOrder
  <2>8. \A d \in S : Place(S, d) \in 1 .. m /\ ShowsSignal(Place(S, d), d)
    BY <2>3, <2>7, PlaceIs DEF InOrder
  <2> HIDE DEF S, T
  <2>9. Len(shown') = Cardinality(T) /\ \A d \in T : shown'[Place(T, d)] = Minus(camp.files[cut.ch][d], CutSig(d).bl)
    <3>1. CASE ~CutPasses(e)
      BY <1>6, <1>9, <2>1, <2>6, <2>7, <2>8, <3>1 DEF ShowsSignal
    <3>2. CASE CutPasses(e)
      <4>1. c = 1 /\ bl = CutSig(e).bl /\ Len(shown') = m + 1 /\ shown'[m + 1] = Minus(w, bl)
        BY <1>9, <2>1, <2>2, <3>2
      <4>2. \A d \in S : shown'[Place(T, d)] = Minus(camp.files[cut.ch][d], CutSig(d).bl)
        BY <1>9, <2>6, <2>8, <3>2 DEF ShowsSignal
      <4>3. shown'[Place(T, e)] = Minus(camp.files[cut.ch][e], CutSig(e).bl)
        BY <2>6, <2>7, <3>2, <4>1 DEF w
      <4> QED BY <2>6, <2>7, <3>2, <4>1, <4>2, <4>3
    <3> QED BY <3>1, <3>2
  <2> QED BY <1>1, <2>4, <2>5, <2>9 DEF InOrder, ShowsSignal, T
<1>13. NSig' = NSig /\ (Aligned' <=> Aligned)
  BY <1>1 DEF NSig, Aligned
<1>14. m + c <= NSig /\ e \in 0 .. Len(saved)
  BY <1>1, <1>2, <1>6
<1>15. CutAt(e)'
  <2> HIDE DEF m
  <2> QED BY <1>1, <1>9, <1>11, <1>12, <1>13, <1>14 DEF CutAt
<1> QED BY <1>1, <1>2, <1>7, <1>15 DEF CutInv

-----------------------------------------------------------------------------
(* Part 8: the theorems.                                                   *)

(* The smaller of two numbers.                                             *)
LEMMA SmallestOfTwo ==
  ASSUME NEW a \in Nat, NEW b \in Nat, a <= b
  PROVE  Smallest({a, b}) = a
<1>1. Smallest({a, b}) \in {a, b} /\ \A d \in {a, b} : Smallest({a, b}) <= d
  <2>1. 0 \in Int /\ (\A d \in {a, b} : d \in Int /\ 0 <= d) /\ {a, b} # {}
    OBVIOUS
  <2> DEFINE S == {a, b}
  <2> HIDE DEF S
  <2>2. Smallest(S) \in S /\ \A d \in S : Smallest(S) <= d
    BY <2>1, SmallestIs DEF S
  <2> QED BY <2>2 DEF S
<1> QED BY <1>1

(* What CutInv says gives the property.                                    *)
LEMMA CutShows ==
  ASSUME DataInv, CutInv
  PROVE  CutShowsItsSignals
<1> SUFFICES ASSUME cut # None PROVE CutShowsItsSignals
  BY DEF CutShowsItsSignals
<1>1. PICK n \in Nat : n = pass /\ CutAt(n)
  BY DEF CutInv
<1> DEFINE S == CutPassing(n)
           file == camp.files[cut.ch]
           sig(e) == Analysis(camp.par, file[e])
           passing == {e \in 1 .. pass : Passes(cut.kind, cut.range, sig(e), [qdc |-> sig(e).charge])}
           place(e) == Cardinality({d \in passing : d <= e})
<1>2. PhaseOK /\ IsList(shown) /\ DOMAIN shown = 1 .. Len(shown) /\ Len(shown) \in Nat /\ NSig \in Nat
  BY ListIs, NSigIs DEF DataInv, PhaseOK
<1>3. passing = S
  BY <1>1 DEF CutPassing, CutPasses, CutSig
<1>4. \A e : place(e) = Place(S, e)
  BY <1>3 DEF Place
<1>5. /\ Len(shown) <= NSig
      /\ \A k \in DOMAIN shown : \E e \in 1 .. pass :
           \A i, j \in Samples : shown[k][i] - shown[k][j] = file[e][i] - file[e][j]
  BY <1>1, <1>2 DEF CutAt, ShowsRecord
<1>6. ASSUME Aligned
      PROVE  /\ Len(shown) = Smallest({Cardinality(passing), NSig})
             /\ \A e \in passing : shown[place(e)] = Minus(file[e], sig(e).bl)
  <2>1. Len(shown) = Cardinality(S) /\ \A e \in S : ShowsSignal(Place(S, e), e)
    BY <1>1, <1>6 DEF CutAt, InOrder
  <2>2. Cardinality(S) \in Nat /\ Cardinality(S) <= NSig
    BY <1>2, <1>5, <2>1
  <2>3. Smallest({Cardinality(S), NSig}) = Cardinality(S)
    <3> DEFINE a == Cardinality(S)
               b == NSig
    <3>1. a \in Nat /\ b \in Nat /\ a <= b
      BY <1>2, <2>2
    <3> HIDE DEF a, b
    <3>2. Smallest({a, b}) = a
      BY <3>1, SmallestOfTwo
    <3> QED BY <3>2 DEF a, b
  <2>4. \A e \in S : shown[Place(S, e)] = Minus(file[e], sig(e).bl)
    BY <2>1 DEF ShowsSignal, CutSig
  <2> HIDE DEF passing, S, place
  <2> QED BY <1>3, <1>4, <2>1, <2>3, <2>4
<1> QED BY <1>5, <1>6 DEF CutShowsItsSignals

(* What ViewInv says gives the property.                                   *)
LEMMA ViewShows ==
  ASSUME PhaseOK, ViewInv
  PROVE  ViewersShowTheFiles
BY DEF ViewInv, FilesShown, ShownIs, Extra, ViewersShowTheFiles

(* What holds in all steps.                                                *)
SignalsInv == DataInv /\ ViewInv /\ CutInv

(* Events have the signals of their channels, viewers have shown the       *)
(* records they have read, and CutAndView those that pass: in all states.  *)
THEOREM SignalsInvariant == SignalsSpec => []SignalsInv
<1>1. SignalsInit => SignalsInv
  BY InitData DEF SignalsInv, CutInv, SignalsInit
<1>2. SignalsInv /\ [SignalsNext]_signalsVars => SignalsInv'
  <2> SUFFICES ASSUME SignalsInv, [SignalsNext]_signalsVars PROVE SignalsInv'
    OBVIOUS
  <2>1. DataInv /\ ViewInv /\ CutInv /\ PhaseOK
    BY DEF SignalsInv, DataInv
  <2>2. CASE Unpack \/ Decode \/ DecodeCrashes \/ EventWritten \/ LoopEnds
    <3>1. cut' = None
      BY <2>1, <2>2 DEF Unpack, Decode, DecodeCrashes, EventWritten, LoopEnds, PhaseOK, Used
    <3> QED BY <2>1, <2>2, <3>1, ChannelsStepData DEF SignalsInv, CutInv
  <2>3. CASE \E c \in camp.cuts : StartCut(c)
    BY <2>1, <2>3, CutStepData, StartCutStep DEF SignalsInv
  <2>4. CASE CutDone
    <3>1. UNCHANGED <<camp, saved, cut, pass, shown>>
      BY <2>4 DEF CutDone
    <3> QED BY <2>1, <2>4, <3>1, CutStepData, CutStays DEF SignalsInv
  <2>5. CASE CutPass
    <3>1. phase = "cut" /\ cut # None /\ view = None /\ view' = None
      BY <2>1, <2>5 DEF CutPass, PhaseOK
    <3>2. PICK n \in Nat : n = pass /\ CutAt(n)
      BY <2>1, <3>1 DEF CutInv
    <3> DEFINE e == n + 1
    <3>3. e = n + 1
      OBVIOUS
    <3> HIDE DEF e
    <3>4. DataInv' /\ CutInv'
      BY <2>1, <2>5, <3>2, <3>3, CutPassStep
    <3> QED BY <2>1, <3>1, <3>4, ViewStays DEF SignalsInv
  <2>6. CASE \/ \E v \in camp.views : StartView(v)
             \/ SignalsViewerDD \/ SignalsViewerOsc \/ SignalsViewerDDs \/ SignalsViewerOscs
             \/ ViewCrashes \/ ViewDone
    <3>1. cut' = None
      BY <2>1, <2>6 DEF StartView, SignalsViewerDD, SignalsViewerOsc, SignalsViewerDDs, SignalsViewerOscs, ViewPass,
                        ViewCrashes, ViewDone, PhaseOK, Used
    <3> QED BY <2>1, <2>6, <3>1, ViewSteps DEF SignalsInv, CutInv
  <2>7. CASE UNCHANGED signalsVars
    <3>1. UNCHANGED <<phase, camp, chan, samples, raw, saved, cut, pass, view, at, shown>>
      BY <2>7 DEF signalsVars
    <3>2. PhaseOK'
      BY <2>1, <3>1 DEF PhaseOK, Used, IsList
    <3>3. DataInv'
      BY <2>1, <3>1, <3>2, OtherSteps
    <3> QED BY <2>1, <3>1, <3>3, ViewStays, CutStays DEF SignalsInv
  <2> QED BY <2>2, <2>3, <2>4, <2>5, <2>6, <2>7 DEF SignalsNext
<1> QED BY <1>1, <1>2, PTL DEF SignalsSpec

(* Every channel of an event finds its signal at its position and side,    *)
(* whatever the waveforms, the parameters and the layout of the fibres;    *)
(* and Decode crashes only on a signal that stays over the threshold and   *)
(* is integrated over its length.                                          *)
THEOREM SignalsAnalysed == SignalsSpec => []SignalsAreAnalysed
<1>1. SignalsInv => SignalsAreAnalysed
  BY EventsAnalysed DEF SignalsInv
<1> QED BY <1>1, SignalsInvariant, PTL

(* CutAndView shows the first signals that pass, each as its record of     *)
(* the file, if the fibres have the same order in both categories, and     *)
(* records of its channel always: for all files, cuts and numbers asked    *)
(* for.                                                                    *)
THEOREM CutShown == SignalsSpec => []CutShowsItsSignals
<1>1. SignalsInv => CutShowsItsSignals
  BY CutShows DEF SignalsInv
<1> QED BY <1>1, SignalsInvariant, PTL

(* The viewers show every record of each file in order, and one more that  *)
(* is in none if the file ends without its end being seen.                 *)
THEOREM ViewersShown == SignalsSpec => []ViewersShowTheFiles
<1>1. SignalsInv => ViewersShowTheFiles
  BY ViewShows DEF SignalsInv, DataInv
<1> QED BY <1>1, SignalsInvariant, PTL
=============================================================================

------------------------------ MODULE MCSignals ------------------------------
(* Waveforms of six samples of a base line of two.  One channel with every *)
(* waveform of three levels and all parameters; three channels with events *)
(* of two different pulses, on layouts of fibres that have positions of    *)
(* their own, share one, or change their order; files of unequal lengths.  *)
EXTENDS Signals

Par(pol, thr, ana, int, dead, bl) ==
  [pol |-> pol, thr |-> thr, anamode |-> ana, intmode |-> int, deadtime |-> dead,
   blmode |-> bl, veto_thr |-> 1 - 2 * pol]
At(l, s, side) == [m |-> 0, l |-> l, s |-> s, side |-> side]
Campaign(p, channels, files, cuts, views) ==
  [par |-> p, channels |-> channels, files |-> files, cuts |-> cuts, views |-> views]

CutCalls ==
  {[ch |-> ch, kind |-> k, range |-> <<5, 100>>, first |-> 1, last |-> last] :
     ch \in 1 .. 3, k \in {"amp", "both"}, last \in {1, 2}}
  \cup {[ch |-> ch, kind |-> "charge", range |-> <<8, 100>>, first |-> f, last |-> 2] :
          ch \in 1 .. 3, f \in {1, 2}}
ViewCalls(kinds, lists) ==
  {[kind |-> k[1], list |-> l, subtract |-> s, newline |-> k[2]] :
     k \in kinds, l \in lists, s \in BOOLEAN}
Views(n) ==
  ViewCalls({<<"DD", TRUE>>}, {<<1>>}) \cup ViewCalls({<<"DDs", TRUE>>}, {<<1, 3>>, <<3, 1>>})
  \cup IF n = 1 THEN {}
       ELSE ViewCalls({<<"Osc", TRUE>>, <<"Osc", FALSE>>}, {<<1>>})
              \cup ViewCalls({<<"Oscs", TRUE>>, <<"Oscs", FALSE>>}, {<<1, 3>>})

Settings ==
  {Par(t[1], t[2], t[3], d[1], d[2], bl) :
     t \in {<<1, 1, 0>>, <<1, 2, 0>>, <<1, 50, 1>>, <<0, -1, 0>>, <<0, -50, 1>>},
     d \in {<<0, 0>>, <<0, 4>>, <<3, 4>>}, bl \in {0, 2}}

Waves == {w \in [0 .. 5 -> {0, 2, 4}] : w[0] + w[1] \in {0, 4}}
Single ==
  {Campaign(p, <<At(0, 0, "l")>>, <<<<w>>>>, {}, {}) : p \in Settings, w \in Waves}
  \cup
  {Campaign(Par(1, thr, 0, 0, 0, 0), <<At(0, 0, "l")>>, <<<<w>>>>, {},
            ViewCalls({<<"DD", TRUE>>}, {<<1>>})) : thr \in {1, -1}, w \in Waves}

Pulse(a) == [i \in 0 .. 5 |-> IF i \in {3, 4} THEN a ELSE 2]
Layouts ==
  {<<At(0, 0, "l"), At(0, 0, "r"), At(0, 1, "l")>>,    \* aligned
   <<At(0, 1, "l"), At(1, 0, "l"), At(1, 1, "l")>>,    \* shared
   <<At(0, 2, "l"), At(2, 1, "l"), At(0, 0, "r")>>}    \* other order
Records == {<<Pulse(a), Pulse(b)>> : a, b \in {6, 8}}
Several ==
  {Campaign(Par(1, 1, 0, 0, 0, 0), ch, <<f, g, h>>, CutCalls,
            Views(Len(h))) :
     ch \in Layouts, f \in Records, g \in Records, h \in Records \cup {<<Pulse(8)>>}}

MCCampaigns == Single \cup Several
MCRawSizes == <<1, 3, 3>>
=============================================================================

------------------------------ MODULE Parameters ------------------------------
(***************************************************************************)
(* What a program takes from its parameter files: the version of a         *)
(* container that is valid for a run (ParRootSource), the parameters in    *)
(* the text of a container (ParContainer), and the tables behind the data  *)
(* (Addressing).  They share no state; a behaviour is about one of them.   *)
(***************************************************************************)
EXTENDS ParRootSource

CONSTANTS
  Params, LineValues, LineSplit, MaxLines, MaxValues, None,              (* see ParContainer *)
  Setups, AddrMin, AddrMax, Channels, Default, Rounded, MaxHits          (* see Addressing   *)

ASSUME LineValuesAssumption == LineValues \subseteq Seq(Nat)
ASSUME LineSplitAssumption == LineSplit \in Nat \ {0}
ASSUME MaxLinesAssumption == MaxLines \in Nat
ASSUME MaxValuesAssumption == MaxValues \in Nat

Fibres == [m : Nat \ {0}, l : Nat \ {0}, s : Nat]
Sides == {"l", "r"}

ASSUME NoneAssumption ==
  None \notin Params \cup Seq(Nat) \cup [fibre : Fibres, side : Sides]
ASSUME BoardsAssumption ==
  AddrMin \in Nat \ {0} /\ AddrMax \in Nat /\ AddrMin < AddrMax /\ Channels \in Nat \ {0}
ASSUME RoundedAssumption ==   \* what is written is read and written as it is
  /\ \A v \in DOMAIN Rounded : Rounded[v] \in DOMAIN Rounded /\ Rounded[Rounded[v]] = Rounded[v]
  /\ Default \in DOMAIN Rounded /\ Rounded[Default] = Default   \* 0 and 1
  /\ 0 .. 9 \subseteq DOMAIN Rounded
ASSUME SetupsAssumption ==
  \A s \in Setups :
    /\ s.kind \in {"DD", "HitFinder", "simulation"}
    /\ s.geometry \in Seq(Seq(Nat \ {0}))
    /\ s.lookup \in Seq([addr : Nat, chan : Nat, fibre : Fibres, side : Sides])
    /\ s.cal \in Seq([fibre : Fibres, side : Sides, value : DOMAIN Rounded])
ASSUME MaxHitsAssumption == MaxHits \in Nat

VARIABLES
  topic,   (* "versions", "container" or "tables"                          *)
  phase, lines, next, wn, param_name, values, parameters, original, left,
  setup, step, round, text, caltext, mods, limits, boards, calpars, asked, used

container == <<phase, lines, next, wn, param_name, values, parameters, original, left>>
tables == <<setup, step, round, text, caltext, mods, limits, boards, calpars, asked, used>>

Container == INSTANCE ParContainer
Tables == INSTANCE Addressing

(* The empty list of versions, no container, no tables.                    *)
NoVersions ==
  /\ pc = "ready" /\ list = <<>> /\ validity = <<>> /\ cache = NoVersion /\ n = 1
  /\ cont_map = [t \in Time |-> NoVersion] /\ runid = NoCall /\ answer = NoVersion

NoContainer ==
  /\ phase = "done" /\ lines = <<>> /\ next = 0 /\ wn = "param"
  /\ param_name = None /\ values = <<>> /\ left = {}
  /\ parameters = Container!NoParameters /\ original = Container!NoParameters

NoTables ==
  /\ setup = None /\ step = "none" /\ round = 1 /\ text = <<>> /\ caltext = <<>>
  /\ mods = <<>> /\ limits = <<>> /\ boards = <<>> /\ calpars = <<>> /\ asked = None /\ used = {}

ParametersInit ==
  \/ topic = "versions" /\ Init /\ NoContainer /\ NoTables
  \/ topic = "container" /\ Container!Init /\ NoVersions /\ NoTables
  \/ topic = "tables" /\ Tables!Init /\ NoVersions /\ NoContainer

ParametersNext ==
  /\ UNCHANGED topic
  /\ \/ topic = "versions" /\ Next /\ UNCHANGED <<container, tables>>
     \/ topic = "container" /\ Container!Next /\ UNCHANGED <<vars, tables>>
     \/ topic = "tables" /\ Tables!Next /\ UNCHANGED <<vars, container>>

ParametersSpec == ParametersInit /\ [][ParametersNext]_<<topic, vars, container, tables>>
-----------------------------------------------------------------------------
(* See ParContainer: the parameters that are read are those of their last  *)
(* complete definitions, and are the same after writing and reading.       *)
ParametersAsWritten == Container!ParametersAsWritten
RoundTrip == Container!RoundTrip

(* See Addressing: every hit finds its own fibre, calibration and layer,   *)
(* also in a program that reads the tables another one has written.        *)
HitsFindTheirFibre == topic = "tables" => Tables!HitsFindTheirFibre

(* See Addressing: a written lookup table has every channel of the range   *)
(* of boards it was made for.                                              *)
WrittenBoardsAreRead == topic = "tables" => Tables!WrittenBoardsAreRead
=============================================================================

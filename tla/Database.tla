------------------------------ MODULE Database ------------------------------
(***************************************************************************)
(* SDatabase (lib/base/database/SDatabase.cc): the parameter manager, with *)
(* its sources of kind SParAsciiSource.                                    *)
(*                                                                         *)
(* Three kinds of objects are registered by name and filled from a source  *)
(* when they are asked for: parameters, lookup tables and calibrations.    *)
(* Which ones have been filled is not kept with the objects: for the       *)
(* parameters there is a map of their containers, and for the other kinds  *)
(* the map of the sources by name, which all three kinds write.            *)
(***************************************************************************)
EXTENDS ParAsciiSource

CONSTANTS
  Registrable,  (* the pairs of a kind and a name that are registered      *)
  MaxSources    (* bound: sources                                          *)

Kinds == {"par", "lu", "cal"}
Objects == Kinds \X Names

ASSUME RegistrableAssumption == Registrable \subseteq Objects
ASSUME MaxSourcesAssumption == MaxSources \in Nat
ASSUME NoneIsNoValue ==
  /\ None \notin Nat /\ None \notin Objects
  /\ None \notin [source : Nat, lines : Seq(Nat)]

VARIABLES
  assertations,    (* SiFi::assertationsDisabled is false                  *)
  running,         (* the program has not called exit                      *)
  sources,
  registered,      (* par_parameters, lu_containers and cal_containers     *)
  filled,          (* the source and the lines each object has, or None    *)
  par_containers,  (* the names of its keys                                *)
  conts_sources,   (* the source of each name, or None                     *)
  answer           (* the object that was handed out, or None: nullptr     *)

dbVars == <<assertations, running, sources, registered, filled,
            par_containers, conts_sources, answer>>
vars == <<sourceVars, dbVars>>

Init ==
  /\ Closed
  /\ assertations \in BOOLEAN
  /\ running = TRUE
  /\ sources = <<>>
  /\ registered = {}
  /\ filled = [o \in Objects |-> None]
  /\ par_containers = {}
  /\ conts_sources = [n \in Names |-> None]
  /\ answer = None

(* The program is one thread: while a source is constructed no call is     *)
(* made.                                                                   *)
Ready == running /\ state = "closed"
-----------------------------------------------------------------------------
(* addSource(new SParAsciiSource(...)).                                    *)
OpenSource(f, terminated) ==
  /\ Ready /\ Len(sources) < MaxSources
  /\ Open(f, terminated)
  /\ UNCHANGED dbVars

OpenFails ==
  /\ Ready /\ Len(sources) < MaxSources
  /\ running' = FALSE
  /\ UNCHANGED <<assertations, sources, registered, filled, par_containers, conts_sources, answer>>
  /\ UNCHANGED sourceVars

ParseSource ==
  /\ running
  /\ ParseNext
  /\ UNCHANGED dbVars

AddSource ==
  /\ running /\ state \in {"parsed", "rejected"}
  /\ sources' = Append(sources, containers)
  /\ Close
  /\ UNCHANGED <<assertations, running, registered, filled, par_containers, conts_sources, answer>>

ParseAborts ==
  /\ running /\ state = "aborted"
  /\ running' = FALSE
  /\ UNCHANGED <<assertations, sources, registered, filled, par_containers, conts_sources, answer>>
  /\ UNCHANGED sourceVars

(* addParContainer, addLookupContainer and addCalContainer: a name of the  *)
(* kind that is there keeps its object.                                    *)
MutantAddContainer(o) ==   \* the object is replaced by the new one
  /\ Ready
  /\ registered' = registered \cup {o}
  /\ filled' = [filled EXCEPT ![o] = None]
  /\ UNCHANGED <<assertations, running, sources, par_containers, conts_sources, answer>>
  /\ UNCHANGED sourceVars
AddContainer(o) ==
  /\ Ready
  /\ registered' = registered \cup {o}
  /\ UNCHANGED <<assertations, running, sources, filled, par_containers, conts_sources, answer>>
  /\ UNCHANGED sourceVars
-----------------------------------------------------------------------------
Kind(o) == o[1]
Name(o) == o[2]

(* getParContainer asks its own map, the others ask that of the sources.   *)
WasRead(o) ==
  IF Kind(o) = "par" THEN Name(o) \in par_containers ELSE conts_sources[Name(o)] # None

Having(n) == {s \in DOMAIN sources : sources[s][n] # None}

(* The loop over the sources ends at the first one with a container.       *)
MutantFirstHaving(n) ==   \* all sources are asked, and the last one counts
  CHOOSE s \in Having(n) : \A t \in Having(n) : t <= s
FirstHaving(n) == CHOOSE s \in Having(n) : \A t \in Having(n) : s <= t

GetRead(o) ==
  /\ Ready
  /\ o \in registered /\ WasRead(o)
  /\ answer' = o
  /\ UNCHANGED <<assertations, running, sources, registered, filled, par_containers, conts_sources>>
  /\ UNCHANGED sourceVars

(* emplace does not change a source that is in the map already.            *)
GetFirst(o) ==
  /\ Ready
  /\ o \in registered /\ ~WasRead(o) /\ Having(Name(o)) # {}
  /\ LET s == FirstHaving(Name(o)) IN
       /\ filled' = [filled EXCEPT ![o] = [source |-> s, lines |-> sources[s][Name(o)]]]
       /\ conts_sources' = IF conts_sources[Name(o)] = None
                             THEN [conts_sources EXCEPT ![Name(o)] = s] ELSE conts_sources
  /\ par_containers' = IF Kind(o) = "par" THEN par_containers \cup {Name(o)} ELSE par_containers
  /\ answer' = o
  /\ UNCHANGED <<assertations, running, sources, registered>>
  /\ UNCHANGED sourceVars

(* The lines of the container are not what the object expects, and the     *)
(* program aborts or exits (ParContainer has the cases for parameters).    *)
GetAborts(o) ==
  /\ Ready
  /\ o \in registered /\ ~WasRead(o) /\ Having(Name(o)) # {}
  /\ running' = FALSE
  /\ UNCHANGED <<assertations, sources, registered, filled, par_containers, conts_sources, answer>>
  /\ UNCHANGED sourceVars

(* "not known" and "could not be initialized": exit, or nullptr when the   *)
(* assertations are disabled.                                              *)
GetFails(o) ==
  /\ Ready
  /\ o \notin registered \/ (~WasRead(o) /\ Having(Name(o)) = {})
  /\ answer' = None
  /\ running' = ~assertations
  /\ UNCHANGED <<assertations, sources, registered, filled, par_containers, conts_sources>>
  /\ UNCHANGED sourceVars

Next ==
  \/ \E f \in Files, terminated \in BOOLEAN : OpenSource(f, terminated)
  \/ OpenFails \/ ParseSource \/ AddSource \/ ParseAborts
  \/ \E o \in Registrable : AddContainer(o)
  \/ \E o \in Objects : GetRead(o) \/ GetFirst(o) \/ GetAborts(o) \/ GetFails(o)

Spec == Init /\ [][Next]_vars

(* The constructor of a source runs until it returns.                      *)
FairSpec == Spec /\ WF_vars(ParseSource)
-----------------------------------------------------------------------------
(* The values of the variables.                                            *)
TypeOK ==
  /\ SourceTypeOK
  /\ assertations \in BOOLEAN
  /\ running \in BOOLEAN
  /\ sources \in Seq([Names -> Seq(Nat) \cup {None}]) /\ Len(sources) <= MaxSources
  /\ registered \subseteq Registrable
  /\ filled \in [Objects -> [source : DOMAIN sources, lines : Seq(Nat)] \cup {None}]
  /\ par_containers \subseteq Names
  /\ conts_sources \in [Names -> DOMAIN sources \cup {None}]
  /\ answer \in registered \cup {None}

(* The promise to the callers.                                             *)
Store == INSTANCE ParameterStore

(* The lines of an object, and the source remembered for its name, are     *)
(* those of the first source with a container of that name, also when more *)
(* sources were added, or other kinds asked for the name, in the meantime. *)
FirstSourceWins ==
  \A o \in Objects :
    /\ filled[o] # None =>
         /\ Store!IsFirst(filled[o].source, Name(o))
         /\ filled[o].lines = sources[filled[o].source][Name(o)]
    /\ conts_sources[Name(o)] # None => Store!IsFirst(conts_sources[Name(o)], Name(o))

(* No name is registered for two kinds.                                    *)
NoClash == \A o, p \in Registrable : Name(o) = Name(p) => o = p

(* "Check if Container was initialized from source, and if not, do it."    *)
(* (SDatabase.cc:227): an object that is handed out has been filled.       *)
HandedOutFilled == answer # None => filled[answer] # None

(* The maps by name are as good as a flag in each object: an object is     *)
(* filled when it is asked for the first time and at no other time.        *)
ImplementsStore == Store!StoreSpec

(* The constructor of a source returns, or the program aborts, but for a   *)
(* file of one line without a newline.                                     *)
SourceIsParsed == (state = "lines" /\ ~OneOpenLine) ~> state # "lines"
=============================================================================

--------------------------- MODULE ParameterStore ---------------------------
(***************************************************************************)
(* What the parameter database promises: an object that was registered is  *)
(* filled when it is asked for the first time, from the first source that  *)
(* has a container of its name, and then stays as it is.  Whoever gets an  *)
(* object gets it filled.                                                  *)
(***************************************************************************)
EXTENDS Naturals, Sequences

CONSTANTS
  Objects,  (* pairs of a kind and a name                                  *)
  None

VARIABLES
  sources,     (* the containers of each source, by name                   *)
  registered,  (* the objects that were added                              *)
  filled,      (* what each object was filled with, or None                *)
  answer,      (* the object handed out last, or None                      *)
  running

storeVars == <<sources, registered, filled, answer, running>>

StoreInit ==
  /\ sources = <<>>
  /\ registered = {}
  /\ filled = [o \in Objects |-> None]
  /\ answer = None
  /\ running = TRUE

AddSource(containers) ==
  /\ sources' = Append(sources, containers)
  /\ UNCHANGED <<registered, filled, answer, running>>

Register(o) ==
  /\ registered' = registered \cup {o}
  /\ UNCHANGED <<sources, filled, answer, running>>

IsFirst(s, n) ==
  /\ s \in DOMAIN sources /\ sources[s][n] # None
  /\ \A t \in 1 .. s - 1 : sources[t][n] = None

Get(o) ==
  /\ o \in registered
  /\ \/ filled[o] # None /\ UNCHANGED filled
     \/ /\ filled[o] = None
        /\ \E s \in DOMAIN sources :
             /\ IsFirst(s, o[2])
             /\ filled' = [filled EXCEPT ![o] = [source |-> s, lines |-> sources[s][o[2]]]]
  /\ answer' = o
  /\ UNCHANGED <<sources, registered, running>>

(* An object that is not known, or that no source has, is not handed out.  *)
Refuse(o) ==
  /\ o \notin registered \/
       (filled[o] = None /\ \A s \in DOMAIN sources : sources[s][o[2]] = None)
  /\ answer' = None
  /\ running' \in BOOLEAN
  /\ UNCHANGED <<sources, registered, filled>>

Stop == running' = FALSE /\ UNCHANGED <<sources, registered, filled, answer>>

StoreNext ==
  /\ running
  /\ \/ \E o \in Objects : Register(o) \/ Get(o) \/ Refuse(o)
     \/ Len(sources') = Len(sources) + 1 /\ AddSource(sources'[Len(sources')])
     \/ Stop

StoreSpec == StoreInit /\ [][StoreNext]_storeVars
=============================================================================

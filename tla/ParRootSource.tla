--------------------------- MODULE ParRootSource ---------------------------
(***************************************************************************)
(* SParRootSource (lib/base/database/SParRootSource.cc) with               *)
(* validity_range_t (SContainer.h): the versions of one parameter          *)
(* container in a ROOT file, each valid for a range of runs.               *)
(*                                                                         *)
(* parseSource goes through the list of versions twice.  First each one is *)
(* truncated by the one that follows it in the list, then they are put     *)
(* into a map ordered by the beginning of their ranges.  getContainer asks *)
(* that map for the version of a run.  SParDatabaseSource has the same     *)
(* lookup.                                                                 *)
(***************************************************************************)
EXTENDS Naturals, Integers, Sequences, FiniteSets

CONSTANTS
  MaxTime,      (* bound: run numbers, which the code takes for times      *)
  MaxVersions,  (* bound: versions in the list                             *)
  NoVersion     (* nullptr                                                 *)

ASSUME MaxTimeAssumption == MaxTime \in Nat
ASSUME MaxVersionsAssumption == MaxVersions \in Nat
ASSUME NoVersionAssumption == NoVersion \notin Nat

Time == 0 .. MaxTime
NoCall == -1
Ranges == {r \in [from : Time, to : Time] : r.from < r.to}

VARIABLES
  pc,
  list,      (* the ranges of the versions as they are in the file         *)
  validity,  (* SContainer::validity of each version                       *)
  cache,     (* the version before, or NoVersion                           *)
  n,         (* the version the loop is at                                 *)
  cont_map,  (* the version at each key, a beginning of a range            *)
  runid,     (* the argument of the last getContainer, or NoCall           *)
  answer     (* and its result                                             *)

vars == <<pc, list, validity, cache, n, cont_map, runid, answer>>

Versions == DOMAIN list

Init ==
  /\ pc = "truncate"
  /\ list \in UNION {[1 .. m -> Ranges] : m \in 0 .. MaxVersions}
  /\ validity = list
  /\ cache = NoVersion
  /\ n = 1
  /\ cont_map = [t \in Time |-> NoVersion]
  /\ runid = NoCall
  /\ answer = NoVersion
-----------------------------------------------------------------------------
(* validity_range_t::operator==(time).                                     *)
IsValid(range, t) == range.from <= t /\ t < range.to

CheckOverlap(a, b) == a.from < b.to

(* truncate: the end of the range becomes the beginning of the other one.  *)
MutantTruncated(a, b) ==   \* up to the end of the other
  IF CheckOverlap(a, b) THEN [a EXCEPT !.to = b.to] ELSE a
MutantTruncatedBefore(a, b) ==   \* for ranges closed at both ends
  IF CheckOverlap(a, b) THEN [a EXCEPT !.to = b.from - 1] ELSE a
Truncated(a, b) == IF CheckOverlap(a, b) THEN [a EXCEPT !.to = b.from] ELSE a

Truncate ==
  /\ pc = "truncate" /\ n \in Versions
  /\ validity' = IF cache = NoVersion THEN validity
                 ELSE [validity EXCEPT ![cache] = Truncated(@, validity[n])]
  /\ cache' = n
  /\ n' = n + 1
  /\ UNCHANGED <<pc, list, cont_map, runid, answer>>

AllTruncated ==
  /\ pc = "truncate" /\ n \notin Versions
  /\ n' = 1
  /\ pc' = "insert"
  /\ UNCHANGED <<list, validity, cache, cont_map, runid, answer>>

(* map::insert leaves a key that is there as it is.                        *)
MutantInsert ==   \* the key is the end of the range
  /\ pc = "insert" /\ n \in Versions
  /\ LET key == validity[n].to IN
       cont_map' = IF cont_map[key] = NoVersion THEN [cont_map EXCEPT ![key] = n] ELSE cont_map
  /\ n' = n + 1
  /\ UNCHANGED <<pc, list, validity, cache, runid, answer>>
Insert ==
  /\ pc = "insert" /\ n \in Versions
  /\ LET key == validity[n].from IN
       cont_map' = IF cont_map[key] = NoVersion THEN [cont_map EXCEPT ![key] = n] ELSE cont_map
  /\ n' = n + 1
  /\ UNCHANGED <<pc, list, validity, cache, runid, answer>>

AllInserted ==
  /\ pc = "insert" /\ n \notin Versions
  /\ pc' = "ready"
  /\ UNCHANGED <<list, validity, cache, n, cont_map, runid, answer>>

(* map::lower_bound: the first key that does not lie before the time.      *)
LowerBound(t) ==
  {k \in Time : k >= t /\ cont_map[k] # NoVersion /\
    \A j \in Time : j >= t /\ cont_map[j] # NoVersion => k <= j}

(* last_container is never set, so that every call asks the map.           *)
Found(t) == {cont_map[k] : k \in {k \in LowerBound(t) : IsValid(validity[cont_map[k]], t)}}

MutantGetContainer(t) ==   \* the version is not asked whether it is valid
  /\ pc = "ready"
  /\ runid' = t
  /\ answer' = IF LowerBound(t) = {} THEN NoVersion ELSE cont_map[CHOOSE k \in LowerBound(t) : TRUE]
  /\ UNCHANGED <<pc, list, validity, cache, n, cont_map>>
GetContainer(t) ==
  /\ pc = "ready"
  /\ runid' = t
  /\ answer' = IF Found(t) = {} THEN NoVersion ELSE CHOOSE v \in Found(t) : TRUE
  /\ UNCHANGED <<pc, list, validity, cache, n, cont_map>>

Next ==
  \/ Truncate \/ AllTruncated \/ Insert \/ AllInserted
  \/ \E t \in Time : GetContainer(t)

Spec == Init /\ [][Next]_vars
-----------------------------------------------------------------------------
(* The values of the variables; a truncated range may be empty.            *)
TypeOK ==
  /\ pc \in {"truncate", "insert", "ready"}
  /\ list \in Seq(Ranges) /\ Len(list) <= MaxVersions
  /\ validity \in [Versions -> [from : Time, to : Time]]
  /\ cache \in Versions \cup {NoVersion}
  /\ n \in 1 .. Len(list) + 1
  /\ cont_map \in [Time -> Versions \cup {NoVersion}]
  /\ runid \in Time \cup {NoCall}
  /\ answer \in Versions \cup {NoVersion}

(* The list has the versions in the order of their ranges.                 *)
Ordered == \A v, w \in Versions : v < w => list[v].from < list[w].from

(* Truncation makes the ranges of an ordered list disjoint: there is at    *)
(* most one version to choose from.                                        *)
RangesDisjoint ==
  pc # "truncate" /\ Ordered =>
    \A v, w \in Versions : v # w =>
      \A t \in Time : ~(IsValid(validity[v], t) /\ IsValid(validity[w], t))

(* Truncation takes from a version only the runs for which a later one     *)
(* begins: the latest version begun before a run, when the file has it     *)
(* valid for that run, still is.                                           *)
LatestVersionKept ==
  Ordered =>
    \A t \in Time : \A w \in Versions :
      /\ IsValid(list[w], t)
      /\ \A v \in Versions : list[v].from <= t => v <= w
      => IsValid(validity[w], t)

(* The answer for a run is a version that is valid for it in the file,     *)
(* although the ranges that are asked are not those of the file: in a list *)
(* with gaps truncate also extends them.                                   *)
AnswerIsValid == answer # NoVersion => IsValid(list[answer], runid)

(* A version of an ordered list is the answer for the first of its runs.   *)
FoundAtItsBeginning ==
  Ordered => \A v \in Versions : runid = list[v].from => answer = v

(* "validity; ///< run validity start,end id" (SContainer.h:111): a run in *)
(* the range of one version, and of no other, is answered with it.         *)
ValidVersionIsFound ==
  \A v \in Versions :
    runid # NoCall /\ {w \in Versions : IsValid(list[w], runid)} = {v} /\ Ordered
      => answer = v
=============================================================================

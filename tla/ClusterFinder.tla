--------------------------- MODULE ClusterFinder ---------------------------
(***************************************************************************)
(* SFibersClusterFinder::execute (lib/fibers/SFibersClusterFinder.cc): the *)
(* hits of one event are grouped into clusters, two hits belonging         *)
(* together when check_overlap says that they overlap within their errors. *)
(*                                                                         *)
(* A hit that has no cluster seeds one; the cluster then grows by the      *)
(* unassigned hits that overlap one of its hits.  The list of hits is      *)
(* scanned while it grows, and the scan is repeated as often as there are  *)
(* unassigned hits, a count that sinks while the loop runs.  Finally every *)
(* cluster gets a slot of the module of its first hit.  Positions, errors  *)
(* and energies of the clusters are not modelled.                          *)
(***************************************************************************)
EXTENDS Naturals, Integers, Sequences, FiniteSets

CONSTANTS
  N,       (* the number of hits; a hit is its rank in hit_cluster_map,    *)
           (* whose keys are pointers: 1 .. N is the order of iteration    *)
  Modules  (* the module numbers of the geometry                           *)

ASSUME NAssumption == N \in Nat
ASSUME ModulesAssumption == Modules # {} /\ Modules \subseteq Nat

Hits == 1 .. N
Ids == 0 .. N - 1
Unassigned == -1

VARIABLES
  near,       (* check_overlap: the pairs of hits that overlap             *)
  module,     (* the module in the address of each hit                     *)
  stage,      (* the loop that is running                                  *)
  assigned,   (* hit_cluster_map: the cluster of a hit, or Unassigned      *)
  members,    (* clusters[id].hits                                         *)
  cluster_id, (* the number of the last cluster                            *)
  unassigned, (* how many hits have no cluster, as the code counts them    *)
  h, h2,      (* the map iterators of the outer and the inner loop; N+1 is *)
              (* end()                                                     *)
  turn,       (* the pass over the hits of the cluster                     *)
  hit_nr,     (* the hit of the cluster that is compared                   *)
  clus_cnt,   (* the clusters placed in each module                        *)
  slots       (* the cluster in the slot <<module, number>>, if any        *)

loopVars == <<h, h2, turn, hit_nr>>
placeVars == <<clus_cnt, slots>>
clusterVars == <<near, module, stage, assigned, members, cluster_id, unassigned, loopVars, placeVars>>

Overlap(a, b) == <<a, b>> \in near
Current == members[cluster_id]

(* check_overlap compares the distance of the hits with the sum of their   *)
(* errors, so it is symmetric, and a hit overlaps itself.                  *)
Overlaps ==
  {r \in SUBSET (Hits \X Hits) :
     \A a, b \in Hits : <<a, a>> \in r /\ (<<a, b>> \in r <=> <<b, a>> \in r)}

ClusterInit ==
  /\ near \in Overlaps
  /\ module \in [Hits -> Modules]
  /\ stage = "seed"
  /\ assigned = [g \in Hits |-> Unassigned]
  /\ members = [c \in Ids |-> <<>>]
  /\ cluster_id = -1
  /\ unassigned = N
  /\ h = 1 /\ h2 = 1 /\ turn = 0 /\ hit_nr = 1
  /\ clus_cnt = [m \in Modules |-> 0]
  /\ slots = [s \in Modules \X Ids |-> Unassigned]
-----------------------------------------------------------------------------
(* A hit that has a cluster already seeds none.                            *)
SkipSeed ==
  /\ stage = "seed" /\ h \in Hits
  /\ assigned[h] # Unassigned
  /\ h' = h + 1
  /\ UNCHANGED <<near, module, stage, assigned, members, cluster_id, unassigned,
                 h2, turn, hit_nr, placeVars>>

(* A new cluster with the hit as its first member.                         *)
SeedCluster ==
  /\ stage = "seed" /\ h \in Hits
  /\ assigned[h] = Unassigned
  /\ cluster_id' = cluster_id + 1
  /\ assigned' = [assigned EXCEPT ![h] = cluster_id + 1]
  /\ members' = [members EXCEPT ![cluster_id + 1] = <<h>>]
  /\ unassigned' = unassigned - 1
  /\ turn' = 0
  /\ stage' = "pass"
  /\ UNCHANGED <<near, module, h, h2, hit_nr, placeVars>>

StartPass ==
  /\ stage = "pass" /\ turn < unassigned
  /\ hit_nr' = 1
  /\ h2' = h
  /\ stage' = "compare"
  /\ UNCHANGED <<near, module, assigned, members, cluster_id, unassigned, h, turn, placeVars>>

LastPassDone ==
  /\ stage = "pass" /\ turn >= unassigned
  /\ h' = h + 1
  /\ stage' = "seed"
  /\ UNCHANGED <<near, module, assigned, members, cluster_id, unassigned,
                 h2, turn, hit_nr, placeVars>>

(* The hit joins the cluster, at the end of the list that is scanned.      *)
Join(g) ==
  /\ assigned' = [assigned EXCEPT ![g] = cluster_id]
  /\ members' = [members EXCEPT ![cluster_id] = Append(@, g)]
  /\ unassigned' = unassigned - 1

(* One turn of the inner loop: an unassigned hit that overlaps hit_nr      *)
(* joins the cluster.                                                      *)
MutantCompareSeed ==   \* the seed for hit_nr
  /\ stage = "compare" /\ hit_nr <= Len(Current) /\ h2 \in Hits
  /\ h2' = h2 + 1
  /\ IF assigned[h2] = Unassigned /\ Overlap(Current[1], h2)
       THEN Join(h2)
       ELSE UNCHANGED <<assigned, members, unassigned>>
  /\ UNCHANGED <<near, module, stage, cluster_id, h, turn, hit_nr, placeVars>>
Compare ==
  /\ stage = "compare" /\ hit_nr <= Len(Current) /\ h2 \in Hits
  /\ h2' = h2 + 1
  /\ IF assigned[h2] = Unassigned /\ Overlap(Current[hit_nr], h2)
       THEN Join(h2)
       ELSE UNCHANGED <<assigned, members, unassigned>>
  /\ UNCHANGED <<near, module, stage, cluster_id, h, turn, hit_nr, placeVars>>

MutantNextMember ==   \* h2 is not set back
  /\ stage = "compare" /\ hit_nr <= Len(Current) /\ h2 = N + 1
  /\ hit_nr' = hit_nr + 1
  /\ UNCHANGED <<near, module, stage, assigned, members, cluster_id, unassigned, h, h2, turn, placeVars>>
NextMember ==
  /\ stage = "compare" /\ hit_nr <= Len(Current) /\ h2 = N + 1
  /\ hit_nr' = hit_nr + 1
  /\ h2' = h
  /\ UNCHANGED <<near, module, stage, assigned, members, cluster_id, unassigned, h, turn, placeVars>>

MutantPassDone ==   \* the pass is not counted
  /\ stage = "compare" /\ hit_nr > Len(Current)
  /\ stage' = "pass"
  /\ UNCHANGED <<near, module, assigned, members, cluster_id, unassigned,
                 loopVars, placeVars>>
PassDone ==
  /\ stage = "compare" /\ hit_nr > Len(Current)
  /\ turn' = turn + 1
  /\ stage' = "pass"
  /\ UNCHANGED <<near, module, assigned, members, cluster_id, unassigned,
                 h, h2, hit_nr, placeVars>>

SeedsDone ==
  /\ stage = "seed" /\ h = N + 1
  /\ turn' = 0
  /\ stage' = "place"
  /\ UNCHANGED <<near, module, assigned, members, cluster_id, unassigned,
                 h, h2, hit_nr, placeVars>>

(* Each cluster gets the next slot of the module of its first hit.          *)
MutantPlace ==   \* the modules share one count
  /\ stage = "place" /\ turn <= cluster_id
  /\ LET m == module[members[turn][1]] IN
       /\ slots' = [slots EXCEPT ![<<m, clus_cnt[m]>>] = turn]
       /\ clus_cnt' = [clus_cnt EXCEPT ![m] = turn + 1]
  /\ turn' = turn + 1
  /\ UNCHANGED <<near, module, stage, assigned, members, cluster_id, unassigned, h, h2, hit_nr>>
Place ==
  /\ stage = "place" /\ turn <= cluster_id
  /\ LET m == module[members[turn][1]] IN
       /\ slots' = [slots EXCEPT ![<<m, clus_cnt[m]>>] = turn]
       /\ clus_cnt' = [clus_cnt EXCEPT ![m] = @ + 1]
  /\ turn' = turn + 1
  /\ UNCHANGED <<near, module, stage, assigned, members, cluster_id, unassigned, h, h2, hit_nr>>

Finish ==
  /\ stage = "place" /\ turn > cluster_id
  /\ stage' = "done"
  /\ UNCHANGED <<near, module, assigned, members, cluster_id, unassigned, loopVars, placeVars>>

ClusterNext ==
  \/ SkipSeed \/ SeedCluster \/ StartPass \/ LastPassDone
  \/ Compare \/ NextMember \/ PassDone
  \/ SeedsDone \/ Place \/ Finish

ClusterSpec == ClusterInit /\ [][ClusterNext]_clusterVars
-----------------------------------------------------------------------------
ClusterTypeOK ==
  /\ near \in Overlaps
  /\ module \in [Hits -> Modules]
  /\ stage \in {"seed", "pass", "compare", "place", "done"}
  /\ assigned \in [Hits -> Ids \cup {Unassigned}]
  /\ members \in [Ids -> Seq(Hits)]
  /\ cluster_id \in Ids \cup {-1}
  /\ unassigned \in 0 .. N
  /\ h \in 1 .. N + 1 /\ h2 \in 1 .. N + 1
  /\ turn \in 0 .. N /\ hit_nr \in Nat \ {0}
  /\ clus_cnt \in [Modules -> 0 .. N]
  /\ slots \in [Modules \X Ids -> Ids \cup {Unassigned}]

InCluster(g, c) == \E k \in DOMAIN members[c] : members[c][k] = g

(* hit_cluster_map and the lists of hits agree, and no list holds a hit    *)
(* twice: the clusters are disjoint.                                       *)
MapMatchesLists ==
  /\ \A g \in Hits, c \in Ids : assigned[g] = c <=> InCluster(g, c)
  /\ \A c \in Ids : \A j, k \in DOMAIN members[c] : members[c][j] = members[c][k] => j = k

(* Every hit of a cluster but the first overlaps an earlier one: nothing   *)
(* is in a cluster that is not connected to its seed.                      *)
ClustersConnected ==
  \A c \in Ids : \A k \in DOMAIN members[c] :
    k > 1 => \E j \in 1 .. k - 1 : Overlap(members[c][j], members[c][k])

(* A cluster the outer loop has left is complete: none of its hits         *)
(* overlaps a hit outside it, whether that one is in another cluster or    *)
(* has none yet.                                                           *)
Left(c) == c < cluster_id \/ (c = cluster_id /\ stage \notin {"pass", "compare"})
LeftClustersComplete ==
  \A a, b \in Hits : assigned[a] # Unassigned /\ Left(assigned[a]) /\ Overlap(a, b)
                       => assigned[b] = assigned[a]

(* The hits that can be reached from a by steps between overlapping hits:  *)
(* those in every set that has a, and with a hit all it overlaps.          *)
Component(a) ==
  {b \in Hits :
     \A S \in SUBSET Hits :
       a \in S /\ (\A g \in S, f \in Hits : Overlap(g, f) => f \in S) => b \in S}

(* The clusters of an event are the connected components of the overlap    *)
(* relation, in whatever order the hits are visited.                       *)
ClustersAreComponents ==
  stage \in {"place", "done"} =>
    \A a, b \in Hits : assigned[a] = assigned[b] <=> b \in Component(a)

(* At the end every hit is in a cluster and every cluster in one slot, of  *)
(* the module of its first hit; the slots of a module are numbered from 0. *)
EveryClusterPlaced ==
  stage = "done" =>
    /\ \A g \in Hits : assigned[g] \in 0 .. cluster_id
    /\ \A c \in 0 .. cluster_id : \E n \in Ids :
         LET m == module[members[c][1]] IN
         /\ slots[<<m, n>>] = c
         /\ n < clus_cnt[m]
         /\ \A s \in Modules \X Ids : slots[s] = c => s = <<m, n>>
    /\ \A m \in Modules, n \in Ids : slots[<<m, n>>] # Unassigned <=> n < clus_cnt[m]
=============================================================================

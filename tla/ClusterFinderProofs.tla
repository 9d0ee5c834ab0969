------------------------ MODULE ClusterFinderProofs ------------------------
(***************************************************************************)
(* Proofs about ClusterFinder, for any number of hits, any relation of     *)
(* overlaps and any modules.  The properties are conjuncts of one          *)
(* inductive invariant, Inv; its other conjuncts say how far the loops     *)
(* have come.                                                              *)
(***************************************************************************)
EXTENDS ClusterFinder, FiniteSetTheorems, WellFoundedInduction, TLAPS

Growing == stage \in {"pass", "compare"}
Free == {g \in Hits : assigned[g] = Unassigned}

(* The outer loop: there are fewer clusters than visited hits, and every   *)
(* visited hit has a cluster.                                              *)
Visited ==
  /\ stage = "seed" => cluster_id + 1 <= h - 1
  /\ Growing => h \in Hits /\ cluster_id \in 0 .. h - 1 /\ assigned[h] # Unassigned
  /\ stage = "compare" => turn < N /\ h2 >= h
  /\ stage \in {"place", "done"} => h = N + 1
  /\ \A g \in Hits : g < h => assigned[g] # Unassigned

(* The clusters are numbered 0 .. cluster_id and none of them is empty.    *)
Numbered ==
  /\ \A g \in Hits : assigned[g] <= cluster_id
  /\ \A c \in Ids : Len(members[c]) > 0 <=> c <= cluster_id

Counted == unassigned = Cardinality(Free)

(* The inner loops: hits without a cluster that overlap a member of the    *)
(* current one lie ahead of the first pass, and there are none in the      *)
(* later ones.                                                             *)
Scanned ==
  Growing =>
    \A b \in Free : \A k \in 1 .. Len(Current) :
      Overlap(Current[k], b) =>
        /\ turn = 0
        /\ stage = "compare" => k > hit_nr \/ (k = hit_nr /\ b >= h2)

(* The last loop: the clusters below turn have their slots.                *)
Placement ==
  /\ stage \in {"seed", "pass", "compare"} =>
       /\ \A m \in Modules : clus_cnt[m] = 0
       /\ \A s \in Modules \X Ids : slots[s] = Unassigned
  /\ stage \in {"place", "done"} =>
       /\ turn <= cluster_id + 1
       /\ \A m \in Modules : clus_cnt[m] <= turn
       /\ \A m \in Modules, n \in Ids : slots[<<m, n>>] # Unassigned <=> n < clus_cnt[m]
       /\ \A m \in Modules, n \in Ids : slots[<<m, n>>] < turn
       /\ \A c \in 0 .. turn - 1 : \E n \in Ids : slots[<<module[members[c][1]], n>>] = c
       /\ \A s, t \in Modules \X Ids : slots[s] # Unassigned /\ slots[s] = slots[t] => s = t
  /\ stage = "done" => turn = cluster_id + 1

Inv ==
  /\ ClusterTypeOK
  /\ Visited
  /\ Numbered
  /\ Counted
  /\ MapMatchesLists
  /\ ClustersConnected
  /\ Scanned
  /\ LeftClustersComplete
  /\ Placement
-----------------------------------------------------------------------------
(* check_overlap is the same for both orders of its arguments.             *)
LEMMA OverlapSymmetric ==
  ClusterTypeOK => \A a, b \in Hits : Overlap(a, b) => Overlap(b, a)
  BY DEF ClusterTypeOK, Overlaps, Overlap

(* A list of hits is a function on 1 .. Len of it.                         *)
LEMMA MemberLists ==
  ASSUME ClusterTypeOK, NEW c \in Ids
  PROVE  /\ Len(members[c]) \in Nat
         /\ DOMAIN members[c] = 1 .. Len(members[c])
         /\ \A k \in 1 .. Len(members[c]) : members[c][k] \in Hits
  BY DEF ClusterTypeOK

(* The hits are finitely many; the count of those without a cluster sinks  *)
(* by one when one of them is assigned, and is 0 only when there is none.  *)
LEMMA FreeFinite == IsFiniteSet(Free) /\ Cardinality(Free) \in 0 .. N
<1>1. IsFiniteSet(Hits) /\ Cardinality(Hits) = N
  BY FS_Interval, NAssumption DEF Hits
<1>2. Free \subseteq Hits
  BY DEF Free
<1>3. IsFiniteSet(Free) /\ Cardinality(Free) <= Cardinality(Hits)
  BY <1>1, <1>2, FS_Subset
<1>4. Cardinality(Free) \in Nat
  BY <1>3, FS_CardinalityType
<1> QED
  BY <1>1, <1>3, <1>4, NAssumption

(* Assigning a hit takes exactly that hit from the free ones.              *)
LEMMA OneFewer ==
  ASSUME ClusterTypeOK, Counted, NEW g \in Free, NEW c \in Ids,
         assigned' = [assigned EXCEPT ![g] = c]
  PROVE  /\ Free' = Free \ {g}
         /\ Cardinality(Free') = unassigned - 1
         /\ unassigned - 1 \in 0 .. N
<1>1. Unassigned \notin Ids
  BY NAssumption DEF Unassigned, Ids
<1>2. Free' = Free \ {g}
  BY <1>1 DEF ClusterTypeOK, Free
<1>3. Cardinality(Free \ {g}) = Cardinality(Free) - 1
  BY FreeFinite, FS_RemoveElement
<1>4. IsFiniteSet(Free \ {g})
  BY FreeFinite, FS_RemoveElement
<1>5. Cardinality(Free \ {g}) \in Nat
  BY <1>4, FS_CardinalityType
<1> QED
  BY <1>2, <1>3, <1>5, NAssumption DEF Counted, ClusterTypeOK

(* A count of 0 means that every hit has a cluster.                        *)
LEMMA NoneFree == ClusterTypeOK /\ Counted /\ unassigned = 0 => Free = {}
  BY FreeFinite, FS_EmptySet DEF Counted

(* What one more hit changes in the list of the current cluster.           *)
LEMMA JoinFacts ==
  ASSUME ClusterTypeOK, cluster_id \in Ids, NEW g \in Hits, Join(g)
  PROVE  /\ Len(Current) \in Nat /\ DOMAIN Current = 1 .. Len(Current)
         /\ Len(members'[cluster_id]) = Len(Current) + 1
         /\ DOMAIN members'[cluster_id] = 1 .. Len(Current) + 1
         /\ members'[cluster_id][Len(Current) + 1] = g
         /\ \A k \in 1 .. Len(Current) : members'[cluster_id][k] = Current[k]
         /\ \A c \in Ids \ {cluster_id} : members'[c] = members[c]
         /\ members' \in [Ids -> Seq(Hits)]
         /\ assigned' \in [Hits -> Ids \cup {Unassigned}]
         /\ assigned'[g] = cluster_id
         /\ \A a \in Hits \ {g} : assigned'[a] = assigned[a]
<1>1. Current \in Seq(Hits)
  BY DEF ClusterTypeOK, Current
<1>2. members'[cluster_id] = Append(Current, g)
  BY DEF Join, ClusterTypeOK, Current
<1>3. members' \in [Ids -> Seq(Hits)]
  BY <1>1 DEF Join, ClusterTypeOK, Current
<1>4. /\ Len(Append(Current, g)) = Len(Current) + 1
      /\ DOMAIN Append(Current, g) = 1 .. Len(Current) + 1
      /\ Len(Current) \in Nat /\ DOMAIN Current = 1 .. Len(Current)
  BY <1>1
<1>5. Append(Current, g)[Len(Current) + 1] = g
  BY <1>1
<1>6. \A k \in 1 .. Len(Current) : Append(Current, g)[k] = Current[k]
  BY <1>1
<1>7. \A c \in Ids \ {cluster_id} : members'[c] = members[c]
  BY DEF Join, ClusterTypeOK
<1>8. /\ assigned' \in [Hits -> Ids \cup {Unassigned}]
      /\ assigned'[g] = cluster_id
      /\ \A a \in Hits \ {g} : assigned'[a] = assigned[a]
  BY DEF Join, ClusterTypeOK
<1> QED
  BY <1>2, <1>3, <1>4, <1>5, <1>6, <1>7, <1>8

(* What a new cluster changes.                                             *)
LEMMA SeedFacts ==
  ASSUME ClusterTypeOK, Visited, SeedCluster
  PROVE  /\ h \in Free
         /\ cluster_id + 1 \in Ids
         /\ members' \in [Ids -> Seq(Hits)]
         /\ members'[cluster_id + 1] = <<h>>
         /\ \A c \in Ids \ {cluster_id + 1} : members'[c] = members[c]
         /\ assigned' \in [Hits -> Ids \cup {Unassigned}]
         /\ assigned'[h] = cluster_id + 1
         /\ \A a \in Hits \ {h} : assigned'[a] = assigned[a]
<1>1. h \in Free
  BY DEF SeedCluster, Free
<1>2. cluster_id + 1 \in Ids
  BY NAssumption DEF SeedCluster, Visited, ClusterTypeOK, Hits, Ids
<1>3. <<h>> \in Seq(Hits)
  BY DEF SeedCluster
<1> QED
  BY <1>1, <1>2, <1>3 DEF SeedCluster, ClusterTypeOK
-----------------------------------------------------------------------------
(* The invariant holds when execute begins.                                *)
LEMMA InitInv == ClusterInit => Inv
<1> SUFFICES ASSUME ClusterInit
             PROVE  Inv
  OBVIOUS
<1> USE DEF ClusterInit
<1>1. Unassigned \notin Ids /\ Unassigned = -1
  BY NAssumption DEF Unassigned, Ids
<1>2. \A c \in Ids : members[c] = <<>> /\ Len(members[c]) = 0 /\ DOMAIN members[c] = {}
  OBVIOUS
<1>3. ClusterTypeOK
  <2>1. members \in [Ids -> Seq(Hits)]
    OBVIOUS
  <2> QED
    BY <2>1, NAssumption DEF ClusterTypeOK, Hits, Ids, Unassigned
<1>4. Visited
  BY NAssumption DEF Visited, Growing, Hits
<1>5. Numbered
  <2>1. \A c \in Ids : c \in Nat
    BY NAssumption DEF Ids
  <2> QED
    BY <1>1, <1>2, <2>1 DEF Numbered
<1>6. Counted
  <2>1. Free = Hits
    BY DEF Free
  <2>2. Cardinality(Hits) = N
    BY FS_Interval, NAssumption DEF Hits
  <2> QED
    BY <2>1, <2>2 DEF Counted
<1>7. MapMatchesLists
  BY <1>1, <1>2 DEF MapMatchesLists, InCluster
<1>8. ClustersConnected
  BY <1>2 DEF ClustersConnected
<1>9. Scanned
  BY DEF Scanned, Growing
<1>10. LeftClustersComplete
  BY DEF LeftClustersComplete
<1>11. Placement
  BY DEF Placement
<1> QED
  BY <1>3, <1>4, <1>5, <1>6, <1>7, <1>8, <1>9, <1>10, <1>11 DEF Inv

(* The type of the variables is kept: the number of a new cluster stays    *)
(* below N, the count of hits without a cluster does not sink below 0.     *)
LEMMA TypeStep == Inv /\ [ClusterNext]_clusterVars => ClusterTypeOK'
<1> SUFFICES ASSUME Inv, [ClusterNext]_clusterVars
             PROVE  ClusterTypeOK'
  OBVIOUS
<1> USE NAssumption DEF Inv
<1>1. CASE SkipSeed
  BY <1>1 DEF SkipSeed, ClusterTypeOK, placeVars, Hits
<1>2. CASE SeedCluster
  <2>1. unassigned - 1 \in 0 .. N
    BY <1>2, SeedFacts, OneFewer DEF SeedCluster
  <2>2. cluster_id' \in Ids
    BY <1>2, SeedFacts DEF SeedCluster
  <2> QED
    BY <1>2, <2>1, <2>2, SeedFacts DEF SeedCluster, ClusterTypeOK, placeVars
<1>3. CASE StartPass
  BY <1>3 DEF StartPass, ClusterTypeOK, placeVars
<1>4. CASE LastPassDone
  BY <1>4 DEF LastPassDone, ClusterTypeOK, Visited, Growing, placeVars, Hits
<1>5. CASE Compare
  <2>1. h2' \in 1 .. N + 1
    BY <1>5 DEF Compare, ClusterTypeOK, Hits
  <2>2. CASE assigned[h2] = Unassigned /\ Overlap(Current[hit_nr], h2)
    <3>1. Join(h2) /\ h2 \in Free /\ cluster_id \in Ids
      BY <1>5, <2>2 DEF Compare, Free, Visited, Growing, Ids, Hits
    <3>2. unassigned - 1 \in 0 .. N
      BY <3>1, OneFewer DEF Join
    <3>3. members' \in [Ids -> Seq(Hits)] /\ assigned' \in [Hits -> Ids \cup {Unassigned}]
      BY <3>1, JoinFacts DEF Free
    <3> QED
      BY <1>5, <2>1, <3>1, <3>2, <3>3 DEF Compare, Join, ClusterTypeOK, placeVars
  <2>3. CASE ~(assigned[h2] = Unassigned /\ Overlap(Current[hit_nr], h2))
    BY <1>5, <2>1, <2>3 DEF Compare, ClusterTypeOK, placeVars
  <2> QED
    BY <2>2, <2>3
<1>6. CASE NextMember
  BY <1>6 DEF NextMember, ClusterTypeOK, placeVars
<1>7. CASE PassDone
  BY <1>7 DEF PassDone, ClusterTypeOK, Visited, placeVars
<1>8. CASE SeedsDone
  BY <1>8 DEF SeedsDone, ClusterTypeOK, placeVars
<1>9. CASE Place
  <2> DEFINE m == module[members[turn][1]]
  <2>1. turn \in Ids /\ turn + 1 \in 0 .. N
    BY <1>9 DEF Place, ClusterTypeOK, Ids
  <2>2. members[turn][1] \in Hits
    BY <1>9, <2>1, MemberLists DEF Place, Numbered
  <2>3. m \in Modules
    BY <2>2 DEF ClusterTypeOK
  <2>4. clus_cnt[m] \in Ids /\ clus_cnt[m] + 1 \in 0 .. N
    <3>1. clus_cnt[m] <= turn
      BY <1>9, <2>3 DEF Place, Placement
    <3>2. clus_cnt[m] \in 0 .. N
      BY <2>3 DEF ClusterTypeOK
    <3> HIDE DEF m
    <3> QED
      BY <2>1, <3>1, <3>2 DEF Ids
  <2>5. /\ slots' = [slots EXCEPT ![<<m, clus_cnt[m]>>] = turn]
        /\ clus_cnt' = [clus_cnt EXCEPT ![m] = clus_cnt[m] + 1]
    BY <1>9 DEF Place
  <2> HIDE DEF m
  <2>6. clus_cnt' \in [Modules -> 0 .. N]
    BY <2>3, <2>4, <2>5 DEF ClusterTypeOK
  <2>7. slots' \in [Modules \X Ids -> Ids \cup {Unassigned}]
    BY <2>1, <2>5 DEF ClusterTypeOK
  <2> QED
    BY <1>9, <2>1, <2>6, <2>7 DEF Place, ClusterTypeOK
<1>10. CASE Finish
  BY <1>10 DEF Finish, ClusterTypeOK, placeVars, loopVars
<1>11. CASE UNCHANGED clusterVars
  BY <1>11 DEF clusterVars, ClusterTypeOK, placeVars, loopVars
<1> QED
  BY <1>1, <1>2, <1>3, <1>4, <1>5, <1>6, <1>7, <1>8, <1>9, <1>10, <1>11 DEF ClusterNext

(* The outer loop leaves no hit without a cluster behind.                  *)
LEMMA VisitedStep == Inv /\ [ClusterNext]_clusterVars => Visited'
<1> SUFFICES ASSUME Inv, [ClusterNext]_clusterVars
             PROVE  Visited'
  OBVIOUS
<1> USE NAssumption DEF Inv, Visited, Growing
<1>0. Unassigned \notin Ids
  BY DEF Unassigned, Ids
<1>1. CASE SkipSeed
  BY <1>1 DEF SkipSeed, ClusterTypeOK, Hits, Ids
<1>2. CASE SeedCluster
  <2>1. \A g \in Hits : g <= h => assigned'[g] # Unassigned
    BY <1>0, <1>2, SeedFacts DEF SeedCluster, ClusterTypeOK, Hits
  <2> QED
    BY <1>2, <2>1 DEF SeedCluster, ClusterTypeOK, Ids, Hits
<1>3. CASE StartPass
  BY <1>3 DEF StartPass, ClusterTypeOK, Hits
<1>4. CASE LastPassDone
  BY <1>4 DEF LastPassDone, ClusterTypeOK, Hits
<1>5. CASE Compare
  <2>1. \A g \in Hits : assigned[g] # Unassigned => assigned'[g] # Unassigned
    <3>1. CASE Join(h2)
      <4>1. cluster_id \in Ids /\ h2 \in Hits
        BY <1>5 DEF Compare, Ids, Hits
      <4> QED
        BY <1>0, <3>1, <4>1, JoinFacts
    <3>2. CASE assigned' = assigned
      BY <3>2
    <3> QED
      BY <1>5, <3>1, <3>2 DEF Compare
  <2> QED
    BY <1>5, <2>1 DEF Compare, ClusterTypeOK, Hits
<1>6. CASE NextMember
  BY <1>6 DEF NextMember, ClusterTypeOK, Hits
<1>7. CASE PassDone
  BY <1>7 DEF PassDone, ClusterTypeOK
<1>8. CASE SeedsDone
  BY <1>8 DEF SeedsDone, ClusterTypeOK
<1>9. CASE Place
  BY <1>9 DEF Place, ClusterTypeOK
<1>10. CASE Finish
  BY <1>10 DEF Finish, ClusterTypeOK, loopVars
<1>11. CASE UNCHANGED clusterVars
  BY <1>11 DEF clusterVars, ClusterTypeOK, loopVars
<1> QED
  BY <1>1, <1>2, <1>3, <1>4, <1>5, <1>6, <1>7, <1>8, <1>9, <1>10, <1>11 DEF ClusterNext
-----------------------------------------------------------------------------
(* Only two kinds of steps change the clusters: a new one, and a hit that  *)
(* joins the current one.                                                  *)
LEMMA ClusterSteps ==
  ASSUME [ClusterNext]_clusterVars
  PROVE  /\ near' = near /\ module' = module
         /\ \/ SeedCluster
            \/ Compare /\ Join(h2) /\ h2 \in Free /\ Overlap(Current[hit_nr], h2)
            \/ UNCHANGED <<assigned, members, cluster_id, unassigned>>
<1>1. CASE SkipSeed
  BY <1>1 DEF SkipSeed
<1>2. CASE SeedCluster
  BY <1>2 DEF SeedCluster
<1>3. CASE StartPass
  BY <1>3 DEF StartPass
<1>4. CASE LastPassDone
  BY <1>4 DEF LastPassDone
<1>5. CASE Compare
  BY <1>5 DEF Compare, Free
<1>6. CASE NextMember
  BY <1>6 DEF NextMember
<1>7. CASE PassDone
  BY <1>7 DEF PassDone
<1>8. CASE SeedsDone
  BY <1>8 DEF SeedsDone
<1>9. CASE Place
  BY <1>9 DEF Place
<1>10. CASE Finish
  BY <1>10 DEF Finish
<1>11. CASE UNCHANGED clusterVars
  BY <1>11 DEF clusterVars
<1> QED
  BY <1>1, <1>2, <1>3, <1>4, <1>5, <1>6, <1>7, <1>8, <1>9, <1>10, <1>11 DEF ClusterNext

(* A hit joins the current cluster, which exists.                          *)
LEMMA Joining ==
  ASSUME Inv, Compare, Join(h2), h2 \in Free
  PROVE  /\ cluster_id \in Ids /\ cluster_id' = cluster_id
         /\ h2 \in Hits /\ assigned[h2] = Unassigned
         /\ hit_nr \in 1 .. Len(Current) /\ Len(Current) \in Nat
         /\ Current = members[cluster_id]
<1>1. cluster_id \in Ids
  BY NAssumption DEF Inv, Compare, Visited, Growing, Ids, Hits
<1>2. Len(Current) \in Nat
  BY <1>1, MemberLists DEF Inv, Current
<1> QED
  BY <1>1, <1>2 DEF Inv, ClusterTypeOK, Compare, Free, Current

(* The clusters in use stay numbered without gaps, none empty.             *)
LEMMA NumberedStep == Inv /\ [ClusterNext]_clusterVars => Numbered'
<1> SUFFICES ASSUME Inv, [ClusterNext]_clusterVars
             PROVE  Numbered'
  OBVIOUS
<1>0. \A c \in Ids : c \in Nat /\ c # Unassigned
  BY NAssumption DEF Ids, Unassigned
<1>1. CASE SeedCluster
  <2>1. cluster_id' = cluster_id + 1 /\ cluster_id \in Ids \cup {-1}
    BY <1>1 DEF SeedCluster, Inv, ClusterTypeOK
  <2>2. \A g \in Hits : assigned'[g] <= cluster_id + 1
    <3>1. \A g \in Hits \ {h} : assigned'[g] <= cluster_id
      BY <1>1, SeedFacts DEF Inv, Numbered
    <3>2. assigned'[h] = cluster_id + 1
      BY <1>1, SeedFacts DEF Inv
    <3>3. assigned' \in [Hits -> Ids \cup {Unassigned}]
      BY <1>1, SeedFacts DEF Inv
    <3> QED
      BY <1>0, <2>1, <3>1, <3>2, <3>3 DEF Unassigned
  <2>3. \A c \in Ids : Len(members'[c]) > 0 <=> c <= cluster_id + 1
    <3> TAKE c \in Ids
    <3>1. CASE c = cluster_id + 1
      <4>1. members'[c] = <<h>>
        BY <1>1, <3>1, SeedFacts DEF Inv
      <4> QED
        BY <1>0, <3>1, <4>1
    <3>2. CASE c # cluster_id + 1
      <4>1. members'[c] = members[c]
        BY <1>1, <3>2, SeedFacts DEF Inv
      <4>2. Len(members[c]) > 0 <=> c <= cluster_id
        BY DEF Inv, Numbered
      <4> QED
        BY <1>0, <2>1, <3>2, <4>1, <4>2
    <3> QED
      BY <3>1, <3>2
  <2> QED
    BY <2>1, <2>2, <2>3 DEF Numbered
<1>2. CASE Compare /\ Join(h2) /\ h2 \in Free
  <2>1. \A g \in Hits : assigned'[g] <= cluster_id
    BY <1>0, <1>2, Joining, JoinFacts DEF Inv, Numbered
  <2>2. \A c \in Ids : Len(members'[c]) > 0 <=> c <= cluster_id
    <3> TAKE c \in Ids
    <3>1. CASE c = cluster_id
      <4>1. Len(members'[c]) = Len(Current) + 1 /\ Len(Current) \in Nat
        BY <1>2, <3>1, Joining, JoinFacts DEF Inv
      <4> QED
        BY <1>0, <3>1, <4>1
    <3>2. CASE c # cluster_id
      BY <1>2, <3>2, Joining, JoinFacts DEF Inv, Numbered
    <3> QED
      BY <3>1, <3>2
  <2> QED
    BY <1>2, <2>1, <2>2, Joining DEF Numbered
<1>3. CASE UNCHANGED <<assigned, members, cluster_id, unassigned>>
  BY <1>3 DEF Inv, Numbered
<1> QED
  BY <1>1, <1>2, <1>3, ClusterSteps

(* The code's count of the hits without a cluster is right.                *)
LEMMA CountedStep == Inv /\ [ClusterNext]_clusterVars => Counted'
<1> SUFFICES ASSUME Inv, [ClusterNext]_clusterVars
             PROVE  Counted'
  OBVIOUS
<1>1. CASE SeedCluster
  BY <1>1, SeedFacts, OneFewer DEF Inv, SeedCluster, Counted
<1>2. CASE Compare /\ Join(h2) /\ h2 \in Free
  BY <1>2, Joining, OneFewer DEF Inv, Join, Counted
<1>3. CASE UNCHANGED <<assigned, members, cluster_id, unassigned>>
  BY <1>3 DEF Inv, Counted, Free
<1> QED
  BY <1>1, <1>2, <1>3, ClusterSteps
-----------------------------------------------------------------------------
(* The map of the hits and the lists of the clusters are changed together. *)
LEMMA MapStep == Inv /\ [ClusterNext]_clusterVars => MapMatchesLists'
<1> SUFFICES ASSUME Inv, [ClusterNext]_clusterVars
             PROVE  MapMatchesLists'
  OBVIOUS
<1>0. Unassigned \notin Ids /\ \A c \in Ids : c \in Nat
  BY NAssumption DEF Unassigned, Ids
<1>1. CASE SeedCluster
  <2> DEFINE new == cluster_id + 1
  <2>1. /\ h \in Hits /\ assigned[h] = Unassigned
        /\ new \in Ids /\ members'[new] = <<h>>
        /\ assigned'[h] = new
        /\ \A a \in Hits \ {h} : assigned'[a] = assigned[a]
        /\ \A c \in Ids \ {new} : members'[c] = members[c]
    BY <1>1, SeedFacts DEF Inv, Free
  <2>2. \A g \in Hits : ~ InCluster(g, new)
    <3>1. \A g \in Hits : assigned[g] # new
      <4>1. \A g \in Hits : assigned[g] <= cluster_id
        BY DEF Inv, Numbered
      <4>2. cluster_id \in Ids \cup {-1}
        BY DEF Inv, ClusterTypeOK
      <4> QED
        BY <1>0, <4>1, <4>2
    <3> QED
      BY <2>1, <3>1 DEF Inv, MapMatchesLists
  <2> HIDE DEF new
  <2>3. DOMAIN members'[new] = {1} /\ members'[new][1] = h
    BY <2>1
  <2>4. ASSUME NEW g \in Hits, NEW c \in Ids
        PROVE  assigned'[g] = c <=> InCluster(g, c)'
    <3>1. CASE c = new
      <4>1. InCluster(g, c)' <=> g = h
        BY <2>3, <3>1 DEF InCluster
      <4>2. assigned'[g] = new <=> g = h
        BY <2>1, <2>2 DEF Inv, MapMatchesLists
      <4> QED
        BY <3>1, <4>1, <4>2
    <3>2. CASE c # new
      <4>1. InCluster(g, c)' <=> InCluster(g, c)
        BY <2>1, <3>2 DEF InCluster
      <4>2. assigned'[g] = c <=> assigned[g] = c
        BY <1>0, <2>1, <3>2
      <4> QED
        BY <4>1, <4>2 DEF Inv, MapMatchesLists
    <3> QED
      BY <3>1, <3>2
  <2>5. ASSUME NEW c \in Ids, NEW j \in DOMAIN members'[c], NEW k \in DOMAIN members'[c],
               members'[c][j] = members'[c][k]
        PROVE  j = k
    BY <2>1, <2>3, <2>5 DEF Inv, MapMatchesLists
  <2> QED
    BY <2>4, <2>5 DEF MapMatchesLists
<1>2. CASE Compare /\ Join(h2) /\ h2 \in Free
  <2> DEFINE len == Len(Current)
  <2>1. /\ h2 \in Hits /\ assigned[h2] = Unassigned
        /\ cluster_id \in Ids
        /\ assigned'[h2] = cluster_id
        /\ \A a \in Hits \ {h2} : assigned'[a] = assigned[a]
        /\ \A c \in Ids \ {cluster_id} : members'[c] = members[c]
    BY <1>2, Joining, JoinFacts DEF Inv
  <2>2. /\ len \in Nat
        /\ DOMAIN members[cluster_id] = 1 .. len
        /\ DOMAIN members'[cluster_id] = 1 .. len + 1
        /\ members'[cluster_id][len + 1] = h2
        /\ \A k \in 1 .. len : members'[cluster_id][k] = members[cluster_id][k]
    <3>1. Current = members[cluster_id]
      BY DEF Current
    <3> QED
      BY <1>2, <2>1, <3>1, JoinFacts DEF Inv
  <2> HIDE DEF len
  <2>3. 1 .. len + 1 = (1 .. len) \cup {len + 1}
    BY <2>2
  <2>4. ASSUME NEW g \in Hits, NEW c \in Ids
        PROVE  assigned'[g] = c <=> InCluster(g, c)'
    <3>1. CASE c = cluster_id
      <4>1. InCluster(g, c)' <=> g = h2 \/ InCluster(g, c)
        BY <2>2, <2>3, <3>1 DEF InCluster
      <4>2. assigned'[g] = c <=> g = h2 \/ assigned[g] = c
        BY <2>1, <3>1
      <4> QED
        BY <4>1, <4>2 DEF Inv, MapMatchesLists
    <3>2. CASE c # cluster_id
      <4>1. InCluster(g, c)' <=> InCluster(g, c)
        BY <2>1, <3>2 DEF InCluster
      <4>2. assigned'[g] = c <=> assigned[g] = c
        BY <1>0, <2>1, <3>2
      <4> QED
        BY <4>1, <4>2 DEF Inv, MapMatchesLists
    <3> QED
      BY <3>1, <3>2
  <2>5. \A k \in 1 .. len : members[cluster_id][k] # h2
    <3>1. ~ InCluster(h2, cluster_id)
      BY <1>0, <2>1 DEF Inv, MapMatchesLists
    <3> QED
      BY <2>2, <3>1 DEF InCluster
  <2>6. ASSUME NEW c \in Ids, NEW j \in DOMAIN members'[c], NEW k \in DOMAIN members'[c],
               members'[c][j] = members'[c][k]
        PROVE  j = k
    <3>1. CASE c = cluster_id
      <4>1. j \in (1 .. len) \cup {len + 1} /\ k \in (1 .. len) \cup {len + 1}
        BY <2>2, <2>3, <3>1
      <4>2. CASE j \in 1 .. len /\ k \in 1 .. len
        BY <2>2, <2>6, <3>1, <4>2 DEF Inv, MapMatchesLists
      <4>3. CASE j = len + 1 \/ k = len + 1
        BY <2>2, <2>5, <2>6, <3>1, <4>1, <4>3
      <4> QED
        BY <4>1, <4>2, <4>3
    <3>2. CASE c # cluster_id
      BY <2>1, <2>6, <3>2 DEF Inv, MapMatchesLists
    <3> QED
      BY <3>1, <3>2
  <2> QED
    BY <2>4, <2>6 DEF MapMatchesLists
<1>3. CASE UNCHANGED <<assigned, members, cluster_id, unassigned>>
  BY <1>3 DEF Inv, MapMatchesLists, InCluster
<1> QED
  BY <1>1, <1>2, <1>3, ClusterSteps

(* A hit joins a cluster because of the member hit_nr.                     *)
LEMMA ConnectedStep == Inv /\ [ClusterNext]_clusterVars => ClustersConnected'
<1> SUFFICES ASSUME Inv, [ClusterNext]_clusterVars
             PROVE  ClustersConnected'
  OBVIOUS
<1>1. CASE SeedCluster
  <2> SUFFICES ASSUME NEW c \in Ids, NEW k \in DOMAIN members'[c], k > 1
               PROVE  \E j \in 1 .. k - 1 : Overlap(members[c][j], members[c][k])'
    BY DEF ClustersConnected
  <2>1. CASE c = cluster_id + 1
    <3>1. members'[c] = <<h>>
      BY <1>1, <2>1, SeedFacts DEF Inv
    <3>2. k = 1
      BY <3>1
    <3> QED
      BY <3>2
  <2>2. CASE c # cluster_id + 1
    <3>1. members'[c] = members[c] /\ near' = near
      BY <1>1, <2>2, SeedFacts DEF Inv, SeedCluster
    <3> QED
      BY <3>1 DEF Inv, ClustersConnected, Overlap
  <2> QED
    BY <2>1, <2>2
<1>2. CASE Compare /\ Join(h2) /\ h2 \in Free /\ Overlap(Current[hit_nr], h2)
  <2> DEFINE len == Len(Current)
  <2>0. near' = near
    BY ClusterSteps
  <2> SUFFICES ASSUME NEW c \in Ids, NEW k \in DOMAIN members'[c], k > 1
               PROVE  \E j \in 1 .. k - 1 : Overlap(members'[c][j], members'[c][k])
    BY <2>0 DEF ClustersConnected, Overlap
  <2>1. CASE c = cluster_id
    <3>1. /\ len \in Nat /\ hit_nr \in 1 .. len
          /\ Current = members[c]
          /\ DOMAIN members[c] = 1 .. len
          /\ DOMAIN members'[c] = 1 .. len + 1
          /\ members'[c][len + 1] = h2
          /\ \A j \in 1 .. len : members'[c][j] = members[c][j]
      <4>1. Current = members[c] /\ hit_nr \in 1 .. len /\ cluster_id \in Ids /\ h2 \in Hits
        BY <1>2, <2>1, Joining DEF Current
      <4> QED
        BY <1>2, <2>1, <4>1, JoinFacts DEF Inv
    <3> HIDE DEF len
    <3>2. CASE k = len + 1
      <4>1. members'[c][hit_nr] = Current[hit_nr] /\ members'[c][k] = h2
        BY <3>1, <3>2
      <4>2. Overlap(members'[c][hit_nr], members'[c][k])
        BY <1>2, <4>1
      <4>3. hit_nr \in 1 .. k - 1
        BY <3>1, <3>2
      <4> QED
        BY <4>2, <4>3
    <3>3. CASE k # len + 1
      <4>1. k \in 1 .. len /\ \A j \in 1 .. k - 1 : j \in 1 .. len
        BY <3>1, <3>3
      <4>2. PICK j \in 1 .. k - 1 : Overlap(members[c][j], members[c][k])
        BY <3>1, <4>1 DEF Inv, ClustersConnected
      <4> QED
        BY <3>1, <4>1, <4>2
    <3> QED
      BY <3>2, <3>3
  <2>2. CASE c # cluster_id
    <3>1. members'[c] = members[c]
      BY <1>2, <2>2, Joining, JoinFacts DEF Inv
    <3> QED
      BY <3>1 DEF Inv, ClustersConnected
  <2> QED
    BY <2>1, <2>2
<1>3. CASE UNCHANGED <<assigned, members, cluster_id, unassigned>>
  BY <1>3, ClusterSteps DEF Inv, ClustersConnected, Overlap
<1> QED
  BY <1>1, <1>2, <1>3, ClusterSteps
-----------------------------------------------------------------------------
(* The first pass misses no hit: what it has not compared yet lies ahead,  *)
(* although the list it goes through grows, and hits that join are at its  *)
(* end.                                                                    *)
LEMMA ScannedStep == Inv /\ [ClusterNext]_clusterVars => Scanned'
<1> SUFFICES ASSUME Inv, [ClusterNext]_clusterVars, Growing',
                    NEW b \in Free', NEW k \in 1 .. Len(Current'), Overlap(Current[k], b)'
             PROVE  turn' = 0 /\ (stage' = "compare" => k > hit_nr' \/ (k = hit_nr' /\ b >= h2'))
  BY DEF Scanned
<1>0. near' = near /\ h2 \in 1 .. N + 1 /\ hit_nr \in Nat /\ h \in 1 .. N + 1 /\ turn \in Nat
  BY ClusterSteps DEF Inv, ClusterTypeOK
<1>1. ASSUME UNCHANGED <<assigned, members, cluster_id, unassigned>>, Growing
      PROVE  /\ b \in Free /\ b \in Hits /\ b > h /\ h \in Hits
             /\ k \in 1 .. Len(Current)
             /\ Overlap(Current[k], b)
             /\ turn = 0
             /\ stage = "compare" => k > hit_nr \/ (k = hit_nr /\ b >= h2)
  <2>1. b \in Free /\ k \in 1 .. Len(Current) /\ Overlap(Current[k], b)
    BY <1>0, <1>1 DEF Free, Current, Overlap
  <2>2. b \in Hits /\ assigned[b] = Unassigned
    BY <2>1 DEF Free
  <2>3. h \in Hits /\ assigned[h] # Unassigned /\ ~(b < h)
    BY <1>1, <2>2 DEF Inv, Visited
  <2>4. b > h
    BY <2>2, <2>3, NAssumption DEF Hits
  <2> QED
    BY <1>1, <2>1, <2>2, <2>3, <2>4 DEF Inv, Scanned
<1>2. CASE SkipSeed
  BY <1>2 DEF SkipSeed, Growing
<1>3. CASE SeedCluster
  BY <1>3 DEF SeedCluster
<1>4. CASE StartPass
  <2>1. UNCHANGED <<assigned, members, cluster_id, unassigned>> /\ Growing
    BY <1>4 DEF StartPass, Growing
  <2>2. k \in 1 .. Len(Current) /\ turn = 0 /\ b > h /\ b \in Hits
    BY <1>1, <2>1
  <2>3. turn' = turn /\ hit_nr' = 1 /\ h2' = h
    BY <1>4 DEF StartPass
  <2>4. k = 1 \/ k > 1
    BY <2>2
  <2> QED
    BY <1>0, <2>2, <2>3, <2>4, NAssumption DEF Hits
<1>5. CASE LastPassDone
  BY <1>5 DEF LastPassDone, Growing
<1>6. CASE Compare /\ ~ Join(h2)
  <2>1. UNCHANGED <<assigned, members, cluster_id, unassigned>> /\ Growing
    BY <1>6 DEF Compare, Growing
  <2>2. /\ b \in Free /\ b \in Hits /\ turn = 0
        /\ Overlap(Current[k], b)
        /\ k > hit_nr \/ (k = hit_nr /\ b >= h2)
    BY <1>1, <1>6, <2>1 DEF Compare
  <2>3. k = hit_nr => b # h2
    BY <1>6, <2>2 DEF Compare, Free
  <2>4. turn' = turn /\ hit_nr' = hit_nr /\ h2' = h2 + 1
    BY <1>6 DEF Compare
  <2> QED
    BY <1>0, <2>2, <2>3, <2>4, NAssumption DEF Hits
<1>7. CASE Compare /\ Join(h2) /\ h2 \in Free /\ Overlap(Current[hit_nr], h2)
  <2>1. /\ cluster_id \in Ids /\ cluster_id' = cluster_id
        /\ h2 \in Hits
        /\ hit_nr \in 1 .. Len(Current) /\ Len(Current) \in Nat
    BY <1>7, Joining
  <2>2. turn = 0
    BY <1>7, <2>1 DEF Inv, Scanned, Growing, Compare
  <2>3. b \in Free /\ b # h2 /\ b \in Hits
    BY <1>7, <2>1, OneFewer DEF Inv, Join, Free
  <2>4. turn' = turn /\ hit_nr' = hit_nr /\ h2' = h2 + 1
    BY <1>7 DEF Compare
  <2>5. Current' = members'[cluster_id]
    BY <2>1 DEF Current
  <2>6. /\ Len(Current') = Len(Current) + 1
        /\ \A j \in 1 .. Len(Current) : Current'[j] = Current[j]
    BY <1>7, <2>1, <2>5, JoinFacts DEF Inv
  <2>7. CASE k \in 1 .. Len(Current)
    <3>1. Overlap(Current[k], b)
      BY <1>0, <2>6, <2>7 DEF Overlap
    <3>2. k > hit_nr \/ (k = hit_nr /\ b >= h2)
      BY <1>7, <2>3, <2>7, <3>1 DEF Inv, Scanned, Growing, Compare
    <3> QED
      BY <1>0, <2>2, <2>3, <2>4, <2>7, <3>2, NAssumption DEF Hits
  <2>8. CASE k \notin 1 .. Len(Current)
    BY <2>1, <2>2, <2>4, <2>6, <2>8
  <2> QED
    BY <2>7, <2>8
<1>8. CASE NextMember
  <2>1. UNCHANGED <<assigned, members, cluster_id, unassigned>> /\ Growing
    BY <1>8 DEF NextMember, Growing
  <2>2. /\ b \in Hits /\ b > h /\ turn = 0 /\ k \in Nat
        /\ k > hit_nr \/ (k = hit_nr /\ b >= h2)
    BY <1>1, <1>8, <2>1 DEF NextMember
  <2>3. turn' = turn /\ hit_nr' = hit_nr + 1 /\ h2' = h /\ h2 = N + 1
    BY <1>8 DEF NextMember
  <2>4. k > hit_nr
    BY <2>2, <2>3, NAssumption DEF Hits
  <2> QED
    BY <1>0, <2>2, <2>3, <2>4, NAssumption DEF Hits
<1>9. CASE PassDone
  <2>1. UNCHANGED <<assigned, members, cluster_id, unassigned>> /\ Growing
    BY <1>9 DEF PassDone, Growing
  <2>2. k \in 1 .. Len(Current) /\ (k > hit_nr \/ k = hit_nr)
    BY <1>1, <1>9, <2>1 DEF PassDone
  <2>3. cluster_id \in Ids
    BY <1>9, NAssumption DEF PassDone, Inv, Visited, Growing, Ids, Hits
  <2>4. Len(Current) \in Nat
    BY <2>3, MemberLists DEF Inv, Current
  <2>5. hit_nr > Len(Current)
    BY <1>9 DEF PassDone
  <2> QED
    BY <1>0, <2>2, <2>4, <2>5
<1>10. CASE SeedsDone \/ Place \/ Finish
  BY <1>10 DEF SeedsDone, Place, Finish, Growing
<1>11. CASE UNCHANGED clusterVars
  <2>1. /\ UNCHANGED <<assigned, members, cluster_id, unassigned>>
        /\ stage' = stage /\ turn' = turn /\ hit_nr' = hit_nr /\ h2' = h2
    BY <1>11 DEF clusterVars, loopVars
  <2> QED
    BY <1>1, <2>1 DEF Growing
<1>12. Compare => \/ Compare /\ ~ Join(h2)
                  \/ Compare /\ Join(h2) /\ h2 \in Free /\ Overlap(Current[hit_nr], h2)
  <2>1. ASSUME Compare, Join(h2)
        PROVE  assigned[h2] = Unassigned /\ Overlap(Current[hit_nr], h2)
    <3>1. unassigned' = unassigned - 1 /\ unassigned \in Nat
      BY <2>1 DEF Join, Inv, ClusterTypeOK
    <3>2. unassigned' # unassigned
      BY <3>1
    <3> QED
      BY <2>1, <3>2 DEF Compare
  <2> QED
    BY <2>1 DEF Compare, Free
<1> QED
  BY <1>2, <1>3, <1>4, <1>5, <1>6, <1>7, <1>8, <1>9, <1>10, <1>11, <1>12 DEF ClusterNext
-----------------------------------------------------------------------------
(* When the outer loop leaves a cluster nothing that overlaps it is left   *)
(* outside: hits without a cluster because of the scan, hits of earlier    *)
(* clusters because those were complete.                                   *)
LEMMA LeftStep == Inv /\ [ClusterNext]_clusterVars => LeftClustersComplete'
<1> SUFFICES ASSUME Inv, [ClusterNext]_clusterVars,
                    NEW a \in Hits, NEW b \in Hits,
                    assigned'[a] # Unassigned, Left(assigned[a])', Overlap(a, b)'
             PROVE  assigned'[b] = assigned'[a]
  BY DEF LeftClustersComplete
<1>0. /\ Overlap(a, b) /\ Overlap(b, a)
      /\ assigned \in [Hits -> Ids \cup {Unassigned}]
      /\ cluster_id \in Ids \cup {-1}
      /\ Ids \subseteq Nat /\ Unassigned \notin Ids
  BY ClusterSteps, OverlapSymmetric, NAssumption DEF Overlap, Inv, ClusterTypeOK, Ids, Unassigned
<1>1. ASSUME assigned[a] # Unassigned, Left(assigned[a])
      PROVE  assigned[b] = assigned[a]
  BY <1>0, <1>1 DEF Inv, LeftClustersComplete
<1>2. CASE SeedCluster
  <2>1. stage = "seed" /\ stage' = "pass" /\ cluster_id' = cluster_id + 1
    BY <1>2 DEF SeedCluster
  <2>2. /\ h \in Hits /\ assigned[h] = Unassigned
        /\ assigned'[h] = cluster_id + 1
        /\ \A g \in Hits \ {h} : assigned'[g] = assigned[g]
    BY <1>2, SeedFacts DEF Inv, Free
  <2>3. a # h
    BY <1>0, <2>1, <2>2 DEF Left
  <2>4. assigned[a] # Unassigned /\ assigned[a] < cluster_id + 1
    BY <2>1, <2>2, <2>3 DEF Left
  <2>5. Left(assigned[a])
    <3>1. assigned[a] \in Nat /\ cluster_id \in Int
      <4>1. assigned[a] \in Ids
        BY <1>0, <2>4
      <4>2. cluster_id \in (0 .. N - 1) \cup {-1}
        BY <1>0 DEF Ids
      <4> QED
        BY <4>1, <4>2, NAssumption DEF Ids
    <3>2. assigned[a] < cluster_id \/ assigned[a] = cluster_id
      BY <2>4, <3>1
    <3> QED
      BY <2>1, <3>2 DEF Left
  <2>6. assigned[b] = assigned[a] /\ b # h
    BY <1>1, <2>2, <2>4, <2>5
  <2> QED
    BY <2>2, <2>3, <2>6
<1>3. CASE Compare /\ Join(h2) /\ h2 \in Free
  <2>1. stage = "compare" /\ stage' = stage /\ cluster_id' = cluster_id
    BY <1>3 DEF Compare
  <2>2. /\ h2 \in Hits /\ assigned[h2] = Unassigned
        /\ assigned'[h2] = cluster_id
        /\ \A g \in Hits \ {h2} : assigned'[g] = assigned[g]
    BY <1>3, Joining, JoinFacts DEF Inv
  <2>3. a # h2
    BY <1>0, <2>1, <2>2 DEF Left
  <2>4. assigned[a] # Unassigned /\ Left(assigned[a])
    BY <2>1, <2>2, <2>3 DEF Left
  <2> QED
    BY <1>1, <2>2, <2>3, <2>4
<1>4. CASE LastPassDone
  <2>1. /\ stage = "pass" /\ turn >= unassigned
        /\ UNCHANGED <<assigned, members, cluster_id, unassigned>>
    BY <1>4 DEF LastPassDone
  <2>2. cluster_id \in Ids
    BY <2>1, NAssumption DEF Inv, Visited, Growing, Ids, Hits
  <2>3. CASE assigned[a] # cluster_id
    BY <1>1, <2>1, <2>3 DEF Left
  <2>4. CASE assigned[a] = cluster_id
    <3>1. PICK k \in 1 .. Len(Current) : Current[k] = a
      <4>1. InCluster(a, cluster_id)
        BY <2>2, <2>4 DEF Inv, MapMatchesLists
      <4>2. DOMAIN Current = 1 .. Len(Current)
        BY <2>2, MemberLists DEF Inv, Current
      <4> QED
        BY <4>1, <4>2 DEF InCluster, Current
    <3>2. b \notin Free
      <4>1. SUFFICES ASSUME b \in Free
                     PROVE  FALSE
        OBVIOUS
      <4>2. turn = 0
        BY <1>0, <2>1, <3>1, <4>1 DEF Inv, Scanned, Growing
      <4>3. unassigned = 0
        BY <2>1, <4>2 DEF Inv, ClusterTypeOK
      <4> QED
        BY <4>1, <4>3, NoneFree DEF Inv
    <3>3. assigned[b] \in Ids /\ assigned[b] # Unassigned /\ assigned[b] <= cluster_id
      BY <1>0, <3>2 DEF Free, Inv, Numbered
    <3>4. ~ (assigned[b] < cluster_id)
      <4>1. SUFFICES ASSUME assigned[b] < cluster_id
                     PROVE  FALSE
        OBVIOUS
      <4>2. assigned[a] = assigned[b]
        BY <1>0, <3>3, <4>1 DEF Inv, LeftClustersComplete, Left
      <4>3. cluster_id \in Nat
        BY <1>0, <2>2
      <4> QED
        BY <2>4, <4>1, <4>2, <4>3
    <3>5. assigned[b] \in Nat /\ cluster_id \in Nat
      BY <1>0, <2>2, <3>3
    <3>6. assigned[b] = cluster_id
      BY <3>3, <3>4, <3>5
    <3> QED
      BY <2>1, <2>4, <3>6
  <2> QED
    BY <2>3, <2>4
<1>5. CASE /\ UNCHANGED <<assigned, cluster_id>>
           /\ stage' \in {"pass", "compare"} <=> stage \in {"pass", "compare"}
  BY <1>1, <1>5 DEF Left
<1>6. \/ SkipSeed \/ StartPass \/ NextMember \/ PassDone \/ SeedsDone
      \/ Place \/ Finish \/ UNCHANGED clusterVars
      => /\ UNCHANGED <<assigned, cluster_id>>
         /\ stage' \in {"pass", "compare"} <=> stage \in {"pass", "compare"}
  BY DEF SkipSeed, StartPass, NextMember, PassDone, SeedsDone, Place, Finish, clusterVars
<1>7. Compare => \/ Compare /\ Join(h2) /\ h2 \in Free
                 \/ UNCHANGED <<assigned, cluster_id, stage>>
  BY DEF Compare, Free
<1> QED
  BY <1>2, <1>3, <1>4, <1>5, <1>6, <1>7 DEF ClusterNext
-----------------------------------------------------------------------------
(* The slots of the last loop: a number of a module is used once, in       *)
(* order, and a cluster gets one slot.                                     *)
LEMMA PlacementStep == Inv /\ [ClusterNext]_clusterVars => Placement'
<1> SUFFICES ASSUME Inv, [ClusterNext]_clusterVars
             PROVE  Placement'
  OBVIOUS
<1>1. CASE \/ SkipSeed \/ SeedCluster \/ StartPass \/ LastPassDone
           \/ Compare \/ NextMember \/ PassDone
  <2>1. /\ stage \in {"seed", "pass", "compare"}
        /\ stage' \in {"seed", "pass", "compare"}
        /\ UNCHANGED <<clus_cnt, slots>>
    BY <1>1 DEF SkipSeed, SeedCluster, StartPass, LastPassDone, Compare, NextMember,
                PassDone, placeVars
  <2> QED
    BY <2>1 DEF Inv, Placement
<1>2. CASE SeedsDone
  <2>1. /\ stage = "seed" /\ stage' = "place" /\ turn' = 0
        /\ UNCHANGED <<module, members, cluster_id, clus_cnt, slots>>
    BY <1>2 DEF SeedsDone, placeVars
  <2>2. /\ \A m \in Modules : clus_cnt[m] = 0
        /\ \A s \in Modules \X Ids : slots[s] = Unassigned
    BY <2>1 DEF Inv, Placement
  <2>3. cluster_id \in Ids \cup {-1} /\ \A n \in Ids : n \in Nat
    BY NAssumption DEF Inv, ClusterTypeOK, Ids
  <2>4. turn' <= cluster_id' + 1
    BY <2>1, <2>3
  <2>5. \A m \in Modules, n \in Ids : slots[<<m, n>>] = Unassigned
    BY <2>2
  <2> QED
    BY <2>1, <2>2, <2>3, <2>4, <2>5 DEF Placement, Unassigned
<1>3. CASE Place
  <2> DEFINE m0 == module[members[turn][1]]
             n0 == clus_cnt[m0]
  <2>1. /\ stage = "place" /\ stage' = "place" /\ turn <= cluster_id /\ turn' = turn + 1
        /\ UNCHANGED <<module, members, cluster_id>>
        /\ slots' = [slots EXCEPT ![<<m0, n0>>] = turn]
        /\ clus_cnt' = [clus_cnt EXCEPT ![m0] = n0 + 1]
    BY <1>3 DEF Place
  <2>2. turn \in Ids /\ turn \in Nat /\ cluster_id \in Ids
    <3>1. turn \in 0 .. N /\ cluster_id \in (0 .. N - 1) \cup {-1} /\ turn <= cluster_id
      BY <2>1 DEF Inv, ClusterTypeOK, Ids
    <3> QED
      BY <3>1, NAssumption DEF Ids
  <2>3. members[turn][1] \in Hits
    BY <2>1, <2>2, MemberLists DEF Inv, Numbered
  <2>4. m0 \in Modules
    BY <2>3 DEF Inv, ClusterTypeOK
  <2>5. /\ \A m \in Modules : clus_cnt[m] <= turn
        /\ \A m \in Modules, n \in Ids : slots[<<m, n>>] # Unassigned <=> n < clus_cnt[m]
        /\ \A m \in Modules, n \in Ids : slots[<<m, n>>] < turn
        /\ \A c \in 0 .. turn - 1 : \E n \in Ids : slots[<<module[members[c][1]], n>>] = c
        /\ \A s, t \in Modules \X Ids : slots[s] # Unassigned /\ slots[s] = slots[t] => s = t
    BY <2>1 DEF Inv, Placement
  <2>6. /\ clus_cnt \in [Modules -> 0 .. N]
        /\ slots \in [Modules \X Ids -> Ids \cup {Unassigned}]
    BY DEF Inv, ClusterTypeOK
  <2>7. n0 \in Ids /\ n0 \in Nat
    <3>1. n0 <= turn /\ n0 \in 0 .. N
      BY <2>4, <2>5, <2>6
    <3> HIDE DEF n0, m0
    <3> QED
      BY <2>2, <3>1, NAssumption DEF Ids
  <2> HIDE DEF m0, n0
  <2>8. /\ slots'[<<m0, n0>>] = turn
        /\ \A s \in Modules \X Ids : s # <<m0, n0>> => slots'[s] = slots[s]
        /\ clus_cnt'[m0] = n0 + 1
        /\ \A m \in Modules \ {m0} : clus_cnt'[m] = clus_cnt[m]
    BY <2>1, <2>4, <2>6, <2>7
  <2>9. turn # Unassigned /\ \A n \in Ids : n \in Nat
    BY <2>2, NAssumption DEF Unassigned, Ids
  <2>10. clus_cnt[m0] = n0
    BY DEF n0
  <2>11. turn + 1 <= cluster_id + 1
    BY <2>1, <2>2, NAssumption DEF Ids
  <2>12. \A m \in Modules : clus_cnt'[m] <= turn + 1
    BY <2>2, <2>5, <2>6, <2>7, <2>8, <2>10
  <2>13. \A m \in Modules, n \in Ids : slots'[<<m, n>>] # Unassigned <=> n < clus_cnt'[m]
    <3> TAKE m \in Modules, n \in Ids
    <3>0. /\ slots[<<m, n>>] # Unassigned <=> n < clus_cnt[m]
          /\ n \in Nat
      BY <2>5, <2>9
    <3>1. CASE m = m0 /\ n = n0
      <4>1. slots'[<<m, n>>] = turn /\ clus_cnt'[m] = n + 1
        BY <2>8, <3>1
      <4> QED
        BY <2>9, <3>0, <4>1
    <3>2. CASE m = m0 /\ n # n0
      <4>1. slots'[<<m, n>>] = slots[<<m, n>>] /\ clus_cnt'[m] = n0 + 1 /\ clus_cnt[m] = n0
        BY <2>8, <2>10, <3>2
      <4>2. n < n0 + 1 <=> n < n0
        BY <2>7, <3>0, <3>2
      <4> QED
        BY <3>0, <4>1, <4>2
    <3>3. CASE m # m0
      <4>1. slots'[<<m, n>>] = slots[<<m, n>>] /\ clus_cnt'[m] = clus_cnt[m]
        BY <2>8, <3>3
      <4> QED
        BY <3>0, <4>1
    <3> QED
      BY <3>1, <3>2, <3>3
  <2>14. \A m \in Modules, n \in Ids : slots'[<<m, n>>] < turn + 1
    <3> TAKE m \in Modules, n \in Ids
    <3>1. CASE <<m, n>> = <<m0, n0>>
      BY <2>2, <2>8, <3>1
    <3>2. CASE <<m, n>> # <<m0, n0>>
      <4>1. slots'[<<m, n>>] = slots[<<m, n>>] /\ slots[<<m, n>>] < turn
        BY <2>5, <2>8, <3>2
      <4>2. slots[<<m, n>>] \in Ids \cup {Unassigned}
        BY <2>6
      <4>3. slots[<<m, n>>] \in Int
        BY <2>9, <4>2 DEF Unassigned
      <4> QED
        BY <2>2, <4>1, <4>3
    <3> QED
      BY <3>1, <3>2
  <2>15. \A c \in 0 .. turn : \E n \in Ids : slots'[<<module[members[c][1]], n>>] = c
    <3> TAKE c \in 0 .. turn
    <3>1. CASE c = turn
      <4>1. module[members[c][1]] = m0
        BY <3>1 DEF m0
      <4> QED
        BY <2>7, <2>8, <3>1, <4>1
    <3>2. CASE c # turn
      <4>1. c \in 0 .. turn - 1 /\ c \in Ids /\ c <= cluster_id
        BY <2>1, <2>2, <3>2, NAssumption DEF Ids
      <4>2. PICK n \in Ids : slots[<<module[members[c][1]], n>>] = c
        BY <2>5, <4>1
      <4>3. members[c][1] \in Hits
        BY <4>1, MemberLists DEF Inv, Numbered
      <4>4. module[members[c][1]] \in Modules
        BY <4>3 DEF Inv, ClusterTypeOK
      <4>5. <<module[members[c][1]], n>> # <<m0, n0>>
        <5>1. slots[<<m0, n0>>] = Unassigned
          BY <2>4, <2>5, <2>7, <2>10
        <5> QED
          BY <2>9, <4>1, <4>2, <5>1 DEF Unassigned
      <4> QED
        BY <2>8, <4>2, <4>4, <4>5
    <3> QED
      BY <3>1, <3>2
  <2>16. \A s, t \in Modules \X Ids : slots'[s] # Unassigned /\ slots'[s] = slots'[t] => s = t
    <3>1. \A s \in Modules \X Ids : slots[s] # turn
      <4>1. ASSUME NEW m \in Modules, NEW n \in Ids
            PROVE  slots[<<m, n>>] # turn
        <5>1. slots[<<m, n>>] < turn
          BY <2>5
        <5> QED
          BY <2>2, <5>1
      <4> QED
        BY <4>1
    <3> QED
      BY <2>5, <2>8, <3>1
  <2>17. \A c \in 0 .. turn' - 1 : \E n \in Ids : slots'[<<module'[members'[c][1]], n>>] = c
    <3>1. turn' - 1 = turn
      BY <2>1, <2>2
    <3> QED
      BY <2>1, <2>15, <3>1
  <2>18. /\ turn' <= cluster_id' + 1
         /\ \A m \in Modules : clus_cnt'[m] <= turn'
         /\ \A m \in Modules, n \in Ids : slots'[<<m, n>>] < turn'
    BY <2>1, <2>11, <2>12, <2>14
  <2> QED
    BY <2>1, <2>13, <2>16, <2>17, <2>18 DEF Placement
<1>4. CASE Finish
  <2>1. /\ stage = "place" /\ stage' = "done" /\ turn > cluster_id
        /\ UNCHANGED <<module, members, cluster_id, turn, clus_cnt, slots>>
    BY <1>4 DEF Finish, loopVars, placeVars
  <2>2. turn = cluster_id + 1
    BY <2>1, NAssumption DEF Inv, Placement, ClusterTypeOK, Ids
  <2> QED
    BY <2>1, <2>2 DEF Inv, Placement
<1>5. CASE UNCHANGED clusterVars
  BY <1>5 DEF Inv, Placement, clusterVars, loopVars, placeVars
<1> QED
  BY <1>1, <1>2, <1>3, <1>4, <1>5 DEF ClusterNext
-----------------------------------------------------------------------------
(* Inv is kept by every step of execute.                                   *)
THEOREM InvCorrect == ClusterSpec => []Inv
<1>1. Inv /\ [ClusterNext]_clusterVars => Inv'
  BY TypeStep, VisitedStep, NumberedStep, CountedStep, MapStep, ConnectedStep,
     ScannedStep, LeftStep, PlacementStep DEF Inv
<1> QED
  BY InitInv, <1>1, PTL DEF ClusterSpec

(* The counters of the loops stay in their ranges: there are never more    *)
(* clusters than hits, never more slots in a module than clusters.         *)
THEOREM TypeCorrect == ClusterSpec => []ClusterTypeOK
<1>1. Inv => ClusterTypeOK
  BY DEF Inv
<1> QED
  BY InvCorrect, <1>1, PTL

(* hit_cluster_map and the hit lists of the clusters agree, and clusters   *)
(* are disjoint, for every number of hits and every relation of overlaps.  *)
THEOREM MapCorrect == ClusterSpec => []MapMatchesLists
<1>1. Inv => MapMatchesLists
  BY DEF Inv
<1> QED
  BY InvCorrect, <1>1, PTL

(* Every hit of a cluster is connected to the hit that seeded it.          *)
THEOREM ConnectedCorrect == ClusterSpec => []ClustersConnected
<1>1. Inv => ClustersConnected
  BY DEF Inv
<1> QED
  BY InvCorrect, <1>1, PTL

(* When execute returns every hit is in a cluster and every cluster has    *)
(* one slot, of the module of its first hit.                               *)
THEOREM PlacementCorrect == ClusterSpec => []EveryClusterPlaced
<1>1. Inv => EveryClusterPlaced
  <2> SUFFICES ASSUME Inv, stage = "done"
               PROVE  EveryClusterPlaced
    BY DEF EveryClusterPlaced
  <2>1. /\ turn = cluster_id + 1
        /\ \A m \in Modules, n \in Ids : slots[<<m, n>>] # Unassigned <=> n < clus_cnt[m]
        /\ \A c \in 0 .. turn - 1 : \E n \in Ids : slots[<<module[members[c][1]], n>>] = c
        /\ \A s, t \in Modules \X Ids : slots[s] # Unassigned /\ slots[s] = slots[t] => s = t
    BY DEF Inv, Placement
  <2>2. cluster_id \in Ids \cup {-1} /\ h = N + 1
    BY DEF Inv, ClusterTypeOK, Visited
  <2>3. \A g \in Hits : assigned[g] \in 0 .. cluster_id
    <3> TAKE g \in Hits
    <3>1. g < h
      BY <2>2, NAssumption DEF Hits
    <3>2. assigned[g] \in Ids /\ assigned[g] <= cluster_id
      BY <3>1 DEF Inv, ClusterTypeOK, Visited, Numbered
    <3> QED
      BY <2>2, <3>2, NAssumption DEF Ids
  <2>4. ASSUME NEW c \in 0 .. cluster_id
        PROVE  /\ c \in 0 .. turn - 1 /\ c \in Ids /\ c # Unassigned
               /\ module[members[c][1]] \in Modules
    <3>1. c \in 0 .. turn - 1 /\ c \in Ids /\ c # Unassigned /\ c <= cluster_id
      BY <2>1, <2>2, NAssumption DEF Ids, Unassigned
    <3>2. members[c][1] \in Hits
      BY <3>1, MemberLists DEF Inv, Numbered
    <3> QED
      BY <3>1, <3>2 DEF Inv, ClusterTypeOK
  <2>5. ASSUME NEW c \in 0 .. cluster_id
        PROVE  \E n \in Ids :
                 LET m == module[members[c][1]] IN
                 /\ slots[<<m, n>>] = c
                 /\ n < clus_cnt[m]
                 /\ \A s \in Modules \X Ids : slots[s] = c => s = <<m, n>>
    <3> DEFINE m == module[members[c][1]]
    <3>1. PICK n \in Ids : slots[<<m, n>>] = c
      BY <2>1, <2>4
    <3>2. m \in Modules /\ c # Unassigned
      BY <2>4
    <3> HIDE DEF m
    <3>3. n < clus_cnt[m]
      BY <2>1, <3>1, <3>2
    <3>4. \A s \in Modules \X Ids : slots[s] = c => s = <<m, n>>
      BY <2>1, <3>1, <3>2
    <3> QED
      BY <3>1, <3>3, <3>4 DEF m
  <2> QED
    BY <2>1, <2>3, <2>5 DEF EveryClusterPlaced
<1> QED
  BY InvCorrect, <1>1, PTL

(* No hit outside a finished cluster overlaps one of its hits: scanning    *)
(* the list once while it grows finds them all.                            *)
THEOREM CompleteCorrect == ClusterSpec => []LeftClustersComplete
<1>1. Inv => LeftClustersComplete
  BY DEF Inv
<1> QED
  BY InvCorrect, <1>1, PTL

-----------------------------------------------------------------------------
(* The clusters are the components of the overlap relation.                *)
LEMMA LeastNumber ==
  ASSUME NEW S, S \subseteq Nat, S # {}
  PROVE  \E s \in S : \A t \in S : s <= t
<1>1. IsWellFoundedOn(OpToRel(<, Nat), Nat)
  BY NatLessThanWellFounded
<1>2. PICK s \in S : \A t \in S : ~(<<t, s>> \in OpToRel(<, Nat))
  BY <1>1, WFMin
<1>3. ASSUME NEW t \in S PROVE s <= t
  <2>1. ~(t < s)
    BY <1>2 DEF OpToRel
  <2> QED BY <2>1
<1> QED BY <1>3

(* A set that is closed under overlap has all hits of a cluster, or none.  *)
LEMMA ClusterInClosed ==
  ASSUME Inv, NEW S \in SUBSET Hits, \A g \in S, f \in Hits : Overlap(g, f) => f \in S,
         NEW c \in Ids
  PROVE  \A k \in DOMAIN members[c] : members[c][k] \in S <=> members[c][1] \in S
<1> DEFINE m == members[c]
           Odd == {k \in DOMAIN m : ~(m[k] \in S <=> m[1] \in S)}
<1>1. /\ Len(m) \in Nat /\ DOMAIN m = 1 .. Len(m)
      /\ \A k \in 1 .. Len(m) : m[k] \in Hits
  BY MemberLists DEF Inv
<1>2. \A k \in DOMAIN m : k > 1 => \E j \in 1 .. k - 1 : Overlap(m[j], m[k])
  BY DEF Inv, ClustersConnected
<1> HIDE DEF m
<1> SUFFICES ASSUME Odd # {} PROVE FALSE
  BY DEF m
<1>3. Odd \subseteq Nat
  BY <1>1
<1>4. PICK k \in Odd : \A t \in Odd : k <= t
  <2> HIDE DEF Odd
  <2> QED BY <1>3, LeastNumber
<1>5. k \in 1 .. Len(m) /\ k > 1
  BY <1>1, <1>4
<1>6. PICK j \in 1 .. k - 1 : Overlap(m[j], m[k])
  BY <1>1, <1>2, <1>5
<1>7. j \in DOMAIN m /\ j < k /\ j \notin Odd
  BY <1>1, <1>4, <1>5
<1>8. m[j] \in Hits /\ m[k] \in Hits /\ Overlap(m[k], m[j])
  BY <1>1, <1>5, <1>6, <1>7, OverlapSymmetric DEF Inv
<1>9. m[j] \in S <=> m[k] \in S
  BY <1>6, <1>8
<1> QED BY <1>4, <1>7, <1>9

(* When all hits have been visited, the clusters of an event are the       *)
(* connected components of check_overlap, whatever the order of the hits.  *)
THEOREM ComponentsCorrect == ClusterSpec => []ClustersAreComponents
<1>1. Inv => ClustersAreComponents
  <2> SUFFICES ASSUME Inv, stage \in {"place", "done"}, NEW a \in Hits, NEW b \in Hits
               PROVE  assigned[a] = assigned[b] <=> b \in Component(a)
    BY DEF ClustersAreComponents
  <2>1. \A g \in Hits : assigned[g] \in Ids /\ assigned[g] # Unassigned /\ Left(assigned[g])
    <3> SUFFICES ASSUME NEW g \in Hits
                 PROVE  assigned[g] \in Ids /\ assigned[g] # Unassigned /\ Left(assigned[g])
      OBVIOUS
    <3>1. g < h
      BY NAssumption DEF Inv, Visited, Hits
    <3>2. assigned[g] # Unassigned /\ assigned[g] \in Ids \cup {Unassigned}
      BY <3>1 DEF Inv, Visited, ClusterTypeOK
    <3>3. assigned[g] <= cluster_id /\ cluster_id \in Ids \cup {-1}
      BY DEF Inv, Numbered, ClusterTypeOK
    <3> QED BY <3>2, <3>3, NAssumption DEF Left, Ids
  <2>2. ASSUME assigned[a] = assigned[b] PROVE b \in Component(a)
    <3> SUFFICES ASSUME NEW S \in SUBSET Hits, a \in S,
                        \A g \in S, f \in Hits : Overlap(g, f) => f \in S
                 PROVE  b \in S
      BY DEF Component
    <3> DEFINE c == assigned[a]
    <3>1. c \in Ids /\ InCluster(a, c) /\ InCluster(b, c)
      BY <2>1, <2>2 DEF Inv, MapMatchesLists
    <3>2. PICK j \in DOMAIN members[c] : members[c][j] = a
      BY <3>1 DEF InCluster
    <3>3. PICK k \in DOMAIN members[c] : members[c][k] = b
      BY <3>1 DEF InCluster
    <3> HIDE DEF c
    <3> QED BY <3>1, <3>2, <3>3, ClusterInClosed
  <2>3. ASSUME b \in Component(a) PROVE assigned[a] = assigned[b]
    <3> DEFINE S == {g \in Hits : assigned[g] = assigned[a]}
    <3>1. S \in SUBSET Hits /\ a \in S
      OBVIOUS
    <3>2. \A g \in S, f \in Hits : Overlap(g, f) => f \in S
      BY <2>1 DEF Inv, LeftClustersComplete
    <3>3. b \in S
      BY <2>3, <3>1, <3>2 DEF Component
    <3> QED BY <3>3
  <2> QED BY <2>2, <2>3
<1> QED BY InvCorrect, <1>1, PTL
=============================================================================

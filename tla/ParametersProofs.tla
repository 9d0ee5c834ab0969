-------------------------- MODULE ParametersProofs --------------------------
(***************************************************************************)
(* Proofs about ParRootSource: for every list of versions, of any length,  *)
(* truncation makes the ranges of an ordered list disjoint and loses no    *)
(* run, and an answer is valid for the run that was asked for.             *)
(*                                                                         *)
(* Proofs about ParContainer, as part of Parameters: whatever the lines of *)
(* a container are, it is read as its complete definitions say, and        *)
(* parameters of any size are the same when they were written and read.    *)
(*                                                                         *)
(* Proofs about Addressing, as part of Parameters: whatever tables a user  *)
(* writes, every hit finds its own fibre, calibration and layer, also in a *)
(* program that reads the tables another one has written.                  *)
(***************************************************************************)
EXTENDS Parameters, SequencesExt, SequenceTheorems, FiniteSetTheorems, FunctionTheorems,
        WellFoundedInduction, TLAPS

(* How many versions of the list the first loop is through with: their     *)
(* ranges, but that of the last of them, have been truncated.              *)
Through == IF pc = "truncate" THEN n - 1 ELSE Len(list)

(* The range of a version the loop is through with, in an ordered list,    *)
(* ends where the next one begins; the other ranges are those of the file. *)
Truncation ==
  \A v \in Versions :
    /\ validity[v].from = list[v].from
    /\ v < Through /\ Ordered => validity[v].to = list[v + 1].from
    /\ v >= Through => validity[v] = list[v]

(* The loop remembers the version before.                                  *)
Remembered == pc = "truncate" => cache = IF n = 1 THEN NoVersion ELSE n - 1

(* The map leads from a key to a version that begins there, and from the   *)
(* beginning of every version that was inserted to that version.           *)
Keyed ==
  \A k \in Time : cont_map[k] # NoVersion => list[cont_map[k]].from = k
Inserted ==
  \A v \in Versions :
    Ordered /\ (pc = "ready" \/ (pc = "insert" /\ v < n)) => cont_map[list[v].from] = v

(* Nothing is asked before the file has been read.                         *)
NotAsked == pc # "ready" => runid = NoCall /\ answer = NoVersion

Inv ==
  /\ TypeOK
  /\ Truncation
  /\ Remembered
  /\ Keyed
  /\ Inserted
  /\ NotAsked
  /\ AnswerIsValid
  /\ FoundAtItsBeginning
-----------------------------------------------------------------------------
(* A version of the list is a range that is not empty.                     *)
LEMMA ListRanges ==
  ASSUME TypeOK, NEW v \in Versions
  PROVE  /\ v \in 1 .. Len(list) /\ Len(list) \in Nat
         /\ list[v] \in Ranges
         /\ list[v].from \in Time /\ list[v].to \in Time
         /\ list[v].from < list[v].to
         /\ NoVersion # v
<1>1. v \in 1 .. Len(list) /\ Len(list) \in Nat
  BY DEF TypeOK, Versions
<1>2. list[v] \in Ranges
  BY <1>1 DEF TypeOK
<1>3. NoVersion # v
  BY <1>1, NoVersionAssumption
<1> QED BY <1>1, <1>2, <1>3 DEF Ranges

(* The invariant holds before the file is read.                            *)
LEMMA InitInv == Init => Inv
<1> SUFFICES ASSUME Init PROVE Inv
  OBVIOUS
<1>1. PICK m \in 0 .. MaxVersions : list \in [1 .. m -> Ranges]
  BY DEF Init
<1>2. Len(list) = m /\ list \in Seq(Ranges) /\ m \in Nat
  BY <1>1, MaxVersionsAssumption
<1>3. Versions = 1 .. m
  BY <1>1 DEF Versions
<1>4. \A r \in Ranges : r \in [from : Time, to : Time]
  BY DEF Ranges
<1>5. TypeOK
  BY <1>1, <1>2, <1>3, <1>4, MaxVersionsAssumption DEF Init, TypeOK, NoCall
<1>6. Truncation
  BY <1>2, <1>3 DEF Init, Truncation, Through
<1>7. FoundAtItsBeginning
  BY <1>5, ListRanges, MaxTimeAssumption DEF Init, FoundAtItsBeginning, NoCall, Time
<1> QED
  BY <1>5, <1>6, <1>7 DEF Init, Inv, Remembered, Keyed, Inserted, NotAsked, AnswerIsValid
-----------------------------------------------------------------------------
(* One turn of the first loop truncates the version before.                *)
LEMMA TruncateStep == Inv /\ Truncate => Inv'
<1> SUFFICES ASSUME Inv, Truncate PROVE Inv'
  OBVIOUS
<1> USE DEF Inv
<1>1. /\ Versions' = Versions /\ list' = list /\ n \in Versions /\ n' = n + 1
      /\ pc = "truncate" /\ pc' = "truncate" /\ cache' = n
      /\ Versions = 1 .. Len(list) /\ Len(list) \in Nat
      /\ n \in 1 .. Len(list)
  BY DEF Truncate, Versions, TypeOK
<1>2. Ordered' = Ordered
  BY <1>1 DEF Ordered
<1>3. Through = n - 1 /\ Through' = n
  BY <1>1 DEF Through
<1>4. CASE n = 1
  <2>1. cache = NoVersion /\ validity' = validity
    BY <1>1, <1>4 DEF Remembered, Truncate
  <2>2. TypeOK'
    BY <1>1, <2>1 DEF TypeOK, Truncate
  <2>3. Truncation'
    BY <1>1, <1>2, <1>3, <1>4, <2>1 DEF Truncation
  <2>4. QED
    BY <1>1, <1>2, <2>1, <2>2, <2>3, NoVersionAssumption
       DEF Truncate, Remembered, Keyed, Inserted, NotAsked, AnswerIsValid, FoundAtItsBeginning, IsValid
<1>5. CASE n # 1
  <2>1. cache = n - 1 /\ cache \in Versions /\ cache # NoVersion
    BY <1>1, <1>5, NoVersionAssumption DEF Remembered
  <2>2. validity' = [validity EXCEPT ![n - 1] = Truncated(validity[n - 1], validity[n])]
    BY <2>1 DEF Truncate
  <2>3. validity[n] = list[n] /\ validity[n - 1] = list[n - 1]
    BY <1>1, <1>3, <2>1 DEF Truncation
  <2>4. /\ list[n] \in Ranges /\ list[n - 1] \in Ranges
        /\ list[n].from < list[n].to
        /\ list[n].from \in Int /\ list[n].to \in Int /\ list[n - 1].from \in Int
    BY <1>1, <2>1, ListRanges, MaxTimeAssumption DEF Time
  <2>5. list[n - 1] \in [from : Time, to : Time] /\ list[n].from \in Time
    BY <1>1, <2>4, ListRanges DEF Ranges
  <2>6. Truncated(list[n - 1], list[n]) \in [from : Time, to : Time]
    BY <2>5 DEF Truncated
  <2>7. Truncated(list[n - 1], list[n]).from = list[n - 1].from
    BY <2>5 DEF Truncated
  <2>8. Ordered => Truncated(list[n - 1], list[n]).to = list[n].from
    <3> SUFFICES ASSUME Ordered PROVE Truncated(list[n - 1], list[n]).to = list[n].from
      OBVIOUS
    <3>1. list[n - 1].from < list[n].from
      BY <1>1, <2>1 DEF Ordered
    <3>2. list[n - 1].from < list[n].to
      BY <3>1, <2>4
    <3>3. QED BY <3>2, <2>5 DEF Truncated, CheckOverlap
  <2>9. TypeOK'
    BY <1>1, <2>1, <2>2, <2>3, <2>6 DEF TypeOK, Truncate
  <2>10. Truncation'
    <3> SUFFICES ASSUME NEW v \in Versions
                 PROVE  /\ validity'[v].from = list[v].from
                        /\ v < n /\ Ordered => validity'[v].to = list[v + 1].from
                        /\ v >= n => validity'[v] = list[v]
      BY <1>1, <1>2, <1>3 DEF Truncation
    <3>1. validity \in [Versions -> [from : Time, to : Time]]
      BY DEF TypeOK
    <3>2. CASE v = n - 1
      <4>1. validity'[v] = Truncated(list[n - 1], list[n])
        BY <3>1, <3>2, <2>1, <2>2, <2>3
      <4>2. v + 1 = n /\ ~(v >= n)
        BY <1>1, <3>2
      <4> QED BY <4>1, <4>2, <3>2, <2>7, <2>8
    <3>3. CASE v # n - 1
      <4>1. validity'[v] = validity[v]
        BY <3>1, <3>3, <2>2
      <4>2. (v < n => v < n - 1) /\ (v >= n => v >= n - 1)
        BY <1>1, <3>3
      <4> QED BY <4>1, <4>2, <1>3 DEF Truncation
    <3> QED BY <3>2, <3>3
  <2>11. QED
    BY <1>1, <1>2, <2>9, <2>10, NoVersionAssumption
       DEF Truncate, Remembered, Keyed, Inserted, NotAsked, AnswerIsValid, FoundAtItsBeginning, IsValid
<1> QED BY <1>4, <1>5

(* After the first loop all versions have been gone through.               *)
LEMMA AllTruncatedStep == Inv /\ AllTruncated => Inv'
<1> SUFFICES ASSUME Inv, AllTruncated PROVE Inv'
  OBVIOUS
<1> USE DEF Inv
<1>1. /\ Versions' = Versions /\ list' = list /\ validity' = validity /\ cont_map' = cont_map
      /\ pc = "truncate" /\ pc' = "insert" /\ n' = 1
      /\ runid' = runid /\ answer' = answer /\ cache' = cache
      /\ Versions = 1 .. Len(list) /\ Len(list) \in Nat
  BY DEF AllTruncated, Versions, TypeOK
<1>2. n = Len(list) + 1
  BY <1>1 DEF AllTruncated, TypeOK
<1>3. Through' = Through
  BY <1>1, <1>2 DEF Through
<1>4. Ordered' = Ordered
  BY <1>1 DEF Ordered
<1>5. TypeOK'
  BY <1>1 DEF TypeOK
<1>6. Truncation'
  BY <1>1, <1>3, <1>4 DEF Truncation
<1>7. Inserted'
  BY <1>1 DEF Inserted
<1> QED
  BY <1>1, <1>4, <1>5, <1>6, <1>7
     DEF Remembered, Keyed, NotAsked, AnswerIsValid, FoundAtItsBeginning, IsValid

(* One turn of the second loop gives a version the key of its beginning,   *)
(* which no other version of an ordered list has.                          *)
LEMMA InsertStep == Inv /\ Insert => Inv'
<1> SUFFICES ASSUME Inv, Insert PROVE Inv'
  OBVIOUS
<1> USE DEF Inv
<1>1. /\ Versions' = Versions /\ list' = list /\ validity' = validity /\ n \in Versions
      /\ pc = "insert" /\ pc' = "insert" /\ n' = n + 1
      /\ runid' = runid /\ answer' = answer /\ cache' = cache
      /\ Versions = 1 .. Len(list) /\ Len(list) \in Nat /\ n \in 1 .. Len(list)
  BY DEF Insert, Versions, TypeOK
<1>2. Through' = Through /\ Ordered' = Ordered
  BY <1>1 DEF Through, Ordered
<1> DEFINE key == list[n].from
<1>3. validity[n].from = key /\ key \in Time
  BY <1>1, ListRanges DEF Truncation
<1>4. cont_map' = IF cont_map[key] = NoVersion THEN [cont_map EXCEPT ![key] = n] ELSE cont_map
  BY <1>3 DEF Insert
<1>5. cont_map \in [Time -> Versions \cup {NoVersion}]
  BY DEF TypeOK
<1> HIDE DEF key
<1>6. TypeOK'
  <2>1. cont_map' \in [Time -> Versions \cup {NoVersion}]
    BY <1>1, <1>3, <1>4, <1>5
  <2>2. QED BY <1>1, <2>1 DEF TypeOK
<1>7. Truncation'
  BY <1>1, <1>2 DEF Truncation
<1>8. Keyed'
  <2> SUFFICES ASSUME NEW k \in Time, cont_map'[k] # NoVersion PROVE list[cont_map'[k]].from = k
    BY <1>1 DEF Keyed
  <2>1. CASE cont_map'[k] = cont_map[k]
    BY <2>1 DEF Keyed
  <2>2. CASE cont_map'[k] # cont_map[k]
    BY <2>2, <1>4, <1>5 DEF key
  <2> QED BY <2>1, <2>2
<1>9. Inserted'
  <2> SUFFICES ASSUME NEW v \in Versions, Ordered, v < n + 1
               PROVE  cont_map'[list[v].from] = v
    BY <1>1, <1>2 DEF Inserted
  <2>1. list[v].from \in Time
    BY ListRanges
  <2>2. CASE v < n
    <3>1. list[v].from # key
      <4>1. list[v].from < list[n].from
        BY <1>1, <2>2 DEF Ordered
      <4>2. QED BY <4>1, <2>1, <1>3, MaxTimeAssumption DEF Time, key
    <3>2. cont_map[list[v].from] = v
      BY <1>1, <2>2 DEF Inserted
    <3>3. QED BY <3>1, <3>2, <1>4, <1>5, <2>1
  <2>3. CASE v = n
    <3>1. CASE cont_map[key] = NoVersion
      BY <3>1, <2>3, <1>3, <1>4, <1>5 DEF key
    <3>2. CASE cont_map[key] # NoVersion
      <4>1. PICK w \in Versions : w = cont_map[key] /\ list[w].from = list[n].from
        BY <3>2, <1>3, <1>5 DEF Keyed, key
      <4>2. list[n].from \in Int
        BY <1>1, ListRanges, MaxTimeAssumption DEF Time
      <4>3. ~(w < n) /\ ~(n < w)
        BY <4>1, <4>2, <1>1 DEF Ordered
      <4>4. w = n
        BY <4>3, <1>1
      <4> QED BY <4>1, <4>4, <3>2, <2>3, <1>4 DEF key
    <3> QED BY <3>1, <3>2
  <2> QED BY <2>2, <2>3, <1>1
<1> QED
  BY <1>1, <1>2, <1>6, <1>7, <1>8, <1>9
     DEF Remembered, NotAsked, AnswerIsValid, FoundAtItsBeginning, IsValid

(* When the second loop ends every version has its key.                    *)
LEMMA AllInsertedStep == Inv /\ AllInserted => Inv'
<1> SUFFICES ASSUME Inv, AllInserted PROVE Inv'
  OBVIOUS
<1> USE DEF Inv
<1>1. /\ Versions' = Versions /\ list' = list /\ validity' = validity /\ cont_map' = cont_map
      /\ pc = "insert" /\ pc' = "ready" /\ n' = n
      /\ runid' = runid /\ answer' = answer /\ cache' = cache
      /\ Versions = 1 .. Len(list) /\ Len(list) \in Nat
  BY DEF AllInserted, Versions, TypeOK
<1>2. n = Len(list) + 1
  BY <1>1 DEF AllInserted, TypeOK
<1>3. Through' = Through /\ Ordered' = Ordered
  BY <1>1 DEF Through, Ordered
<1>4. TypeOK'
  BY <1>1 DEF TypeOK
<1>5. Truncation'
  BY <1>1, <1>3 DEF Truncation
<1>6. Inserted'
  BY <1>1, <1>2, <1>3 DEF Inserted
<1> QED
  BY <1>1, <1>3, <1>4, <1>5, <1>6
     DEF Remembered, Keyed, NotAsked, AnswerIsValid, FoundAtItsBeginning, IsValid

(* lower_bound finds a version for a run only at the beginning of its      *)
(* range, because no version that begins later is valid for the run.       *)
LEMMA FoundBeginsThere ==
  ASSUME Inv, NEW t \in Time, NEW v \in Found(t)
  PROVE  v \in Versions /\ list[v].from = t
<1> USE DEF Inv
<1>1. PICK k \in Time : /\ k >= t /\ cont_map[k] # NoVersion
                        /\ v = cont_map[k] /\ IsValid(validity[v], t)
  BY DEF Found, LowerBound
<1>2. v \in Versions /\ list[v].from = k
  BY <1>1 DEF Keyed, TypeOK
<1>3. k <= t
  BY <1>1, <1>2 DEF IsValid, Truncation
<1> QED BY <1>1, <1>2, <1>3, MaxTimeAssumption DEF Time

(* And at the beginning of a version of an ordered list it does find it.   *)
LEMMA BeginningIsFound ==
  ASSUME Inv, Ordered, pc = "ready", NEW v \in Versions
  PROVE  v \in Found(list[v].from)
<1> USE DEF Inv
<1> DEFINE t == list[v].from
<1>1. t \in Time /\ t \in Int /\ Time \subseteq Int
  BY ListRanges, MaxTimeAssumption DEF Time
<1>2. cont_map[t] = v /\ cont_map[t] # NoVersion
  BY ListRanges DEF Inserted
<1>3. validity[v].from = t
  BY DEF Truncation
<1>4. t < validity[v].to
  <2>1. Versions = 1 .. Len(list) /\ Len(list) \in Nat /\ v \in 1 .. Len(list)
    BY DEF Versions, TypeOK
  <2>2. Through = Len(list)
    BY DEF Through
  <2>3. CASE v = Len(list)
    BY <2>1, <2>2, <2>3, ListRanges DEF Truncation
  <2>4. CASE v # Len(list)
    <3>1. v + 1 \in Versions /\ v < v + 1 /\ v < Through
      BY <2>1, <2>2, <2>4
    <3>2. t < list[v + 1].from
      BY <3>1 DEF Ordered
    <3>3. validity[v].to = list[v + 1].from
      BY <3>1 DEF Truncation
    <3> QED BY <3>2, <3>3
  <2> QED BY <2>3, <2>4
<1> HIDE DEF t
<1>5. IsValid(validity[v], t)
  BY <1>1, <1>3, <1>4 DEF IsValid
<1>6. t \in LowerBound(t)
  BY <1>1, <1>2 DEF LowerBound
<1>7. v \in Found(t)
  BY <1>2, <1>5, <1>6 DEF Found
<1> QED BY <1>7 DEF t

(* An answer is a version that was found for the run, if there is one.     *)
LEMMA GetContainerStep ==
  ASSUME Inv, NEW t \in Time, GetContainer(t)
  PROVE  Inv'
<1> USE DEF Inv
<1>1. /\ Versions' = Versions /\ list' = list /\ validity' = validity /\ cont_map' = cont_map
      /\ pc = "ready" /\ pc' = "ready" /\ n' = n /\ runid' = t /\ cache' = cache
  BY DEF GetContainer, Versions
<1>2. Through' = Through /\ Ordered' = Ordered
  BY <1>1 DEF Through, Ordered
<1>3. answer' \in Found(t) \/ (answer' = NoVersion /\ Found(t) = {})
  BY DEF GetContainer
<1>4. answer' # NoVersion => answer' \in Versions /\ list[answer'].from = t
  BY <1>3, FoundBeginsThere
<1>5. TypeOK'
  BY <1>1, <1>4 DEF TypeOK
<1>6. AnswerIsValid'
  <2> SUFFICES ASSUME answer' # NoVersion PROVE IsValid(list[answer'], t)
    BY <1>1 DEF AnswerIsValid, IsValid
  <2>1. answer' \in Versions /\ list[answer'].from = t
    BY <1>4
  <2>2. t < list[answer'].to
    BY <2>1, ListRanges
  <2> QED BY <2>1, <2>2, MaxTimeAssumption DEF IsValid, Time
<1>7. FoundAtItsBeginning'
  <2> SUFFICES ASSUME Ordered, NEW v \in Versions, t = list[v].from PROVE answer' = v
    BY <1>1, <1>2 DEF FoundAtItsBeginning
  <2>1. v \in Found(t)
    BY <1>1, BeginningIsFound
  <2>2. answer' \in Found(t)
    BY <1>3, <2>1
  <2>3. answer' \in Versions /\ list[answer'].from = list[v].from
    BY <2>2, FoundBeginsThere
  <2>4. list[v].from \in Int
    BY ListRanges, MaxTimeAssumption DEF Time
  <2>5. ~(answer' < v) /\ ~(v < answer')
    BY <2>3, <2>4 DEF Ordered
  <2>6. answer' \in Nat /\ v \in Nat
    BY <2>3 DEF Versions, TypeOK
  <2> QED BY <2>5, <2>6
<1>8. Truncation' /\ Keyed' /\ Inserted'
  BY <1>1, <1>2 DEF Truncation, Keyed, Inserted
<1> QED
  BY <1>1, <1>5, <1>6, <1>7, <1>8 DEF Remembered, NotAsked
-----------------------------------------------------------------------------
(* Inv is kept by parseSource and by every call of getContainer.           *)
THEOREM InvCorrect == Spec => []Inv
<1>1. Inv /\ UNCHANGED vars => Inv'
  BY DEF vars, Inv, TypeOK, Truncation, Through, Remembered, Keyed, Inserted, NotAsked,
         AnswerIsValid, FoundAtItsBeginning, IsValid, Ordered, Versions
<1>2. Inv /\ [Next]_vars => Inv'
  BY <1>1, TruncateStep, AllTruncatedStep, InsertStep, AllInsertedStep, GetContainerStep DEF Next
<1> QED BY InitInv, <1>2, PTL DEF Spec

(* The loops stay inside the list and the map inside the file.             *)
THEOREM TypeCorrect == Spec => []TypeOK
<1>1. Inv => TypeOK
  BY DEF Inv
<1> QED BY <1>1, InvCorrect, PTL

(* An answer is valid, in the file, for the run that was asked for.        *)
THEOREM AnswerCorrect == Spec => []AnswerIsValid
<1>1. Inv => AnswerIsValid
  BY DEF Inv
<1> QED BY <1>1, InvCorrect, PTL

(* A version of an ordered list is the answer for its first run.           *)
THEOREM BeginningCorrect == Spec => []FoundAtItsBeginning
<1>1. Inv => FoundAtItsBeginning
  BY DEF Inv
<1> QED BY <1>1, InvCorrect, PTL

(* Where a version of an ordered list ends once it has been truncated.     *)
LEMMA EndsAtTheNext ==
  ASSUME Inv, Ordered, NEW v \in Versions
  PROVE  \/ validity[v] = list[v]
         \/ /\ v + 1 \in Versions
            /\ validity[v].from = list[v].from
            /\ validity[v].to = list[v + 1].from
<1> USE DEF Inv
<1>1. Versions = 1 .. Len(list) /\ Len(list) \in Nat /\ n \in 1 .. Len(list) + 1
  BY DEF Versions, TypeOK
<1>2. Through \in Int /\ Through <= Len(list)
  BY <1>1 DEF Through
<1>3. CASE v < Through
  BY <1>1, <1>2, <1>3 DEF Truncation
<1>4. CASE v >= Through
  BY <1>4 DEF Truncation
<1> QED BY <1>1, <1>2, <1>3, <1>4

LEMMA DisjointInv == Inv => RangesDisjoint
<1> SUFFICES ASSUME Inv, pc # "truncate", Ordered
             PROVE  \A v, w \in Versions : v # w =>
                      \A t \in Time : ~(IsValid(validity[v], t) /\ IsValid(validity[w], t))
  BY DEF RangesDisjoint
<1>1. Versions = 1 .. Len(list) /\ Len(list) \in Nat
  BY DEF Versions, Inv, TypeOK
<1> SUFFICES ASSUME NEW v \in Versions, NEW w \in Versions, v < w, NEW t \in Time,
                    IsValid(validity[v], t), IsValid(validity[w], t)
             PROVE  FALSE
  <2>1. \A v, w \in Versions : v # w => v < w \/ w < v
    BY <1>1
  <2> QED BY <2>1
<1> USE DEF Inv
<1>2. v < Through /\ v + 1 \in Versions
  BY <1>1 DEF Through
<1>3. validity[v].to = list[v + 1].from /\ validity[w].from = list[w].from
  BY <1>2 DEF Truncation
<1>4. list[w].from \in Int /\ list[v + 1].from \in Int /\ t \in Int
  BY <1>2, ListRanges, MaxTimeAssumption DEF Time
<1>5. list[v + 1].from <= list[w].from
  BY <1>1, <1>2, <1>4 DEF Ordered
<1>6. t < list[v + 1].from /\ list[w].from <= t
  BY <1>3 DEF IsValid
<1> QED BY <1>4, <1>5, <1>6

(* Of two versions of an ordered list the earlier one has ended when the   *)
(* later one begins.                                                       *)
THEOREM DisjointCorrect == Spec => []RangesDisjoint
BY DisjointInv, InvCorrect, PTL

LEMMA LatestInv == Inv => LatestVersionKept
<1> SUFFICES ASSUME Inv, Ordered, NEW t \in Time, NEW w \in Versions,
                    IsValid(list[w], t),
                    \A v \in Versions : list[v].from <= t => v <= w
             PROVE  IsValid(validity[w], t)
  BY DEF LatestVersionKept
<1> USE DEF Inv
<1>1. CASE validity[w] = list[w]
  BY <1>1
<1>2. CASE /\ w + 1 \in Versions /\ validity[w].from = list[w].from
           /\ validity[w].to = list[w + 1].from
  <2>1. list[w + 1].from \in Int /\ t \in Int
    BY <1>2, ListRanges, MaxTimeAssumption DEF Time
  <2>2. ~(w + 1 <= w)
    BY DEF Versions, TypeOK
  <2>3. t < list[w + 1].from
    BY <1>2, <2>1, <2>2
  <2> QED BY <1>2, <2>3 DEF IsValid
<1> QED BY <1>1, <1>2, EndsAtTheNext

(* Truncation takes no run from the version that was begun last before it. *)
THEOREM LatestCorrect == Spec => []LatestVersionKept
BY LatestInv, InvCorrect, PTL
-----------------------------------------------------------------------------
(* The lines of a container, and their values one after the other from     *)
(* line b on.                                                              *)
LineKinds == {"heading", "values", "comment", "invalid"}
LineSet ==
  {x \in [kind : LineKinds, name : Params \cup {None}, vals : Seq(Nat), open : BOOLEAN] :
     /\ x.kind = "heading" => x.name \in Params
     /\ x.kind = "values" => x.name = None
     /\ x.kind = "comment" => x = Container!Comment
     /\ x.kind = "invalid" => x = Container!Invalid}

Kept(ls, b) ==
  LET flat[k \in b - 1 .. Len(ls)] == IF k < b THEN <<>> ELSE flat[k - 1] \o ls[k].vals
  IN flat

(* Induction, for a set of numbers.                                        *)
LEMMA NatIsIn ==
  ASSUME NEW S, 0 \in S, \A p \in Nat : p \in S => p + 1 \in S
  PROVE  Nat \subseteq S
<1> SUFFICES ASSUME NEW bad \in Nat, bad \notin S PROVE FALSE
  OBVIOUS
<1>1. IsWellFoundedOn(OpToRel(<, Nat), Nat)
  BY NatLessThanWellFounded
<1> DEFINE T == Nat \ S
<1>2. T \subseteq Nat /\ T # {}
  OBVIOUS
<1>3. PICK x \in T : \A y \in T : ~(<<y, x>> \in OpToRel(<, Nat))
  <2> HIDE DEF T
  <2> QED BY <1>1, <1>2, WFMin
<1>4. x \in Nat /\ x # 0
  OBVIOUS
<1>5. x - 1 \in Nat /\ x - 1 < x /\ (x - 1) + 1 = x
  BY <1>4
<1>6. x - 1 \in T
  BY <1>4, <1>5
<1> QED BY <1>3, <1>5, <1>6 DEF OpToRel

LEMMA LineIs ==
  ASSUME NEW ls \in Seq(LineSet), NEW k \in 1 .. Len(ls)
  PROVE  ls[k] \in LineSet /\ ls[k].vals \in Seq(Nat) /\ ls[k].open \in BOOLEAN
<1>1. ls[k] \in LineSet
  OBVIOUS
<1> QED BY <1>1 DEF LineSet

(* The recursion of Kept has a solution, so that it is what it says.       *)
LEMMA KeptIs ==
  ASSUME NEW ls \in Seq(LineSet), NEW b \in 1 .. Len(ls)
  PROVE  /\ Kept(ls, b)[b - 1] = <<>>
         /\ \A k \in b .. Len(ls) : Kept(ls, b)[k] = Kept(ls, b)[k - 1] \o ls[k].vals
         /\ \A k \in b - 1 .. Len(ls) : Kept(ls, b)[k] \in Seq(Nat)
<1> DEFINE Body(f, k) == IF k < b THEN <<>> ELSE f[k - 1] \o ls[k].vals
           size == Len(ls)
           Solves(f, p) == /\ f \in [b - 1 .. p -> Seq(Nat)]
                           /\ \A k \in b - 1 .. p : f[k] = Body(f, k)
           S == {j \in Nat : b - 1 + j <= size => \E f : Solves(f, b - 1 + j)}
<1>1. size \in Nat /\ b \in Nat /\ b >= 1 /\ b <= size /\ \A k \in 1 .. size : ls[k].vals \in Seq(Nat)
  BY LineIs
<1> HIDE DEF size
<1>2. 0 \in S
  <2> DEFINE f == [k \in b - 1 .. b - 1 |-> <<>>]
  <2>1. f \in [b - 1 .. b - 1 -> Seq(Nat)]
    OBVIOUS
  <2>2. ASSUME NEW k \in b - 1 .. b - 1 PROVE f[k] = Body(f, k)
    <3>1. f[k] = <<>> /\ k < b
      BY <1>1
    <3> HIDE DEF f
    <3> QED BY <3>1
  <2>3. Solves(f, b - 1)
    BY <2>1, <2>2
  <2>4. b - 1 + 0 = b - 1
    BY <1>1
  <2> HIDE DEF f, Solves
  <2> QED BY <2>3, <2>4
<1>3. ASSUME NEW j \in Nat, j \in S PROVE j + 1 \in S
  <2> DEFINE p == b - 1 + j
  <2> HIDE DEF Solves
  <2> SUFFICES ASSUME p + 1 <= size PROVE \E f : Solves(f, p + 1)
    <3>1. b - 1 + (j + 1) = p + 1
      BY <1>1
    <3> HIDE DEF p
    <3> QED BY <3>1
  <2>1. p \in Nat /\ p <= size /\ p + 1 \in 1 .. size /\ p + 1 >= b /\ p >= b - 1
    BY <1>1
  <2>2. PICK f : Solves(f, p)
    BY <1>3, <2>1
  <2> HIDE DEF p
  <2> USE DEF Solves
  <2> DEFINE g == [k \in b - 1 .. p + 1 |-> IF k = p + 1 THEN Body(f, k) ELSE f[k]]
  <2>3. Body(f, p + 1) \in Seq(Nat)
    <3>1. f[p] \in Seq(Nat) /\ ls[p + 1].vals \in Seq(Nat)
      BY <1>1, <2>1, <2>2
    <3>2. f[p] \o ls[p + 1].vals \in Seq(Nat)
      BY <3>1
    <3>3. (p + 1) - 1 = p /\ ~(p + 1 < b)
      BY <1>1, <2>1
    <3> QED BY <3>2, <3>3
  <2> HIDE DEF Body
  <2>4. \A k \in b - 1 .. p + 1 : k = p + 1 \/ k \in b - 1 .. p
    BY <1>1, <2>1
  <2>5. g \in [b - 1 .. p + 1 -> Seq(Nat)]
    BY <2>2, <2>3, <2>4
  <2>6. ASSUME NEW k \in b - 1 .. p + 1 PROVE g[k] = Body(g, k)
    <3>1. g[k] = Body(f, k)
      BY <2>2, <2>4
    <3>2. k < b \/ (k - 1 \in b - 1 .. p + 1 /\ k - 1 # p + 1 /\ g[k - 1] = f[k - 1])
      BY <1>1, <2>1
    <3> HIDE DEF g
    <3> QED BY <3>1, <3>2 DEF Body
  <2> HIDE DEF g
  <2>7. Solves(g, p + 1)
    BY <2>5, <2>6
  <2> HIDE DEF Solves
  <2> QED BY <2>7
<1> HIDE DEF S, Solves, Body
<1>4. PICK f : Solves(f, size)
  <2>1. Nat \subseteq S
    BY <1>2, <1>3, NatIsIn
  <2>2. size - (b - 1) \in Nat /\ b - 1 + (size - (b - 1)) = size
    BY <1>1
  <2>3. size - (b - 1) \in S
    BY <2>1, <2>2
  <2> QED BY <1>1, <2>2, <2>3 DEF S
<1> DEFINE flat == CHOOSE h : h = [k \in b - 1 .. size |-> Body(h, k)]
<1>5. f = [k \in b - 1 .. size |-> Body(f, k)]
  BY <1>4 DEF Solves
<1>6. flat = [k \in b - 1 .. size |-> Body(flat, k)]
  BY <1>5
<1>7. Kept(ls, b) = flat
  BY DEF Kept, Body, size
<1> HIDE DEF flat
<1>8. flat[b - 1] = <<>>
  BY <1>1, <1>6 DEF Body
<1>9. ASSUME NEW k \in b .. size PROVE flat[k] = flat[k - 1] \o ls[k].vals
  <2>1. k \in b - 1 .. size /\ ~(k < b)
    BY <1>1
  <2>2. flat[k] = Body(flat, k)
    BY <1>6, <2>1
  <2> QED BY <2>1, <2>2 DEF Body
<1> DEFINE T == {j \in Nat : b - 1 + j <= size => flat[b - 1 + j] \in Seq(Nat)}
<1>10. 0 \in T
  <2>1. b - 1 + 0 = b - 1 /\ <<>> \in Seq(Nat)
    BY <1>1
  <2> QED BY <1>8, <2>1
<1>11. ASSUME NEW j \in Nat, j \in T PROVE j + 1 \in T
  <2> SUFFICES ASSUME b - 1 + (j + 1) <= size PROVE flat[b - 1 + (j + 1)] \in Seq(Nat)
    OBVIOUS
  <2>1. flat[b - 1 + j] \in Seq(Nat)
    BY <1>1, <1>11
  <2>2. b - 1 + (j + 1) \in b .. size /\ b - 1 + (j + 1) - 1 = b - 1 + j /\ b - 1 + (j + 1) \in 1 .. size
    BY <1>1
  <2>3. ls[b - 1 + (j + 1)].vals \in Seq(Nat)
    BY <1>1, <2>2
  <2>4. flat[b - 1 + (j + 1)] = flat[b - 1 + j] \o ls[b - 1 + (j + 1)].vals
    <3> DEFINE i == b - 1 + (j + 1)
    <3>1. i \in b .. size /\ i - 1 = b - 1 + j
      BY <2>2
    <3> HIDE DEF i
    <3>2. flat[i] = flat[i - 1] \o ls[i].vals
      BY <1>9, <3>1
    <3>3. flat[i] = flat[b - 1 + j] \o ls[i].vals
      BY <3>1, <3>2
    <3> QED BY <3>3 DEF i
  <2> QED BY <2>1, <2>3, <2>4
<1> HIDE DEF T
<1>12. ASSUME NEW k \in b - 1 .. size PROVE flat[k] \in Seq(Nat)
  <2>1. Nat \subseteq T
    BY <1>10, <1>11, NatIsIn
  <2>2. k - (b - 1) \in Nat /\ b - 1 + (k - (b - 1)) = k /\ k <= size
    BY <1>1
  <2>3. k - (b - 1) \in T
    BY <2>1, <2>2
  <2> QED BY <2>2, <2>3 DEF T
<1> QED BY <1>7, <1>8, <1>9, <1>12 DEF size

LEMMA KeptLocal ==
  ASSUME NEW ls \in Seq(LineSet), NEW b \in 1 .. Len(ls),
         NEW ms \in Seq(LineSet), NEW c \in 1 .. Len(ms),
         NEW size \in Nat, b - 1 + size <= Len(ls), c - 1 + size <= Len(ms),
         \A j \in 1 .. size : ls[b - 1 + j] = ms[c - 1 + j]
  PROVE  Kept(ls, b)[b - 1 + size] = Kept(ms, c)[c - 1 + size]
<1> DEFINE S == {j \in Nat : j <= size => Kept(ls, b)[b - 1 + j] = Kept(ms, c)[c - 1 + j]}
<1>1. 0 \in S
  <2>1. b - 1 + 0 = b - 1 /\ c - 1 + 0 = c - 1
    OBVIOUS
  <2> QED BY <2>1, KeptIs
<1>2. ASSUME NEW j \in Nat, j \in S PROVE j + 1 \in S
  <2> SUFFICES ASSUME j + 1 <= size
               PROVE  Kept(ls, b)[b - 1 + (j + 1)] = Kept(ms, c)[c - 1 + (j + 1)]
    OBVIOUS
  <2>1. Kept(ls, b)[b - 1 + j] = Kept(ms, c)[c - 1 + j]
    BY <1>2
  <2> DEFINE x == b - 1 + (j + 1)
             y == c - 1 + (j + 1)
  <2>2. /\ x \in b .. Len(ls) /\ x - 1 = b - 1 + j
        /\ y \in c .. Len(ms) /\ y - 1 = c - 1 + j
    OBVIOUS
  <2>3. ls[x] = ms[y]
    <3> DEFINE i == j + 1
    <3>1. i \in 1 .. size
      OBVIOUS
    <3> HIDE DEF i
    <3>2. ls[b - 1 + i] = ms[c - 1 + i]
      BY <3>1
    <3> QED BY <3>2 DEF i
  <2> HIDE DEF x, y
  <2>4. Kept(ls, b)[x] = Kept(ls, b)[x - 1] \o ls[x].vals
    BY <2>2, KeptIs
  <2>5. Kept(ms, c)[y] = Kept(ms, c)[y - 1] \o ms[y].vals
    BY <2>2, KeptIs
  <2>6. Kept(ls, b)[x] = Kept(ms, c)[y]
    BY <2>1, <2>2, <2>3, <2>4, <2>5
  <2> QED BY <2>6 DEF x, y
<1> HIDE DEF S
<1>3. size \in S
  BY <1>1, <1>2, NatIsIn
<1> QED BY <1>3 DEF S
-----------------------------------------------------------------------------
(* A definition of p, and the lines of a parameter that is not complete.   *)
Defines(ls, p, b, e) ==
  /\ ls[b].kind = "heading" /\ ls[b].name = p
  /\ \A k \in b .. e : ls[k].open <=> k < e
OpenTo(ls, b, e) ==
  /\ ls[b].kind = "heading"
  /\ \A k \in b .. e : ls[k].open

(* The value of p after the first m lines.                                 *)
Latest(ls, m, p, vs) ==
  IF vs = None
    THEN \A b, e \in 1 .. m : b <= e => ~Defines(ls, p, b, e)
    ELSE \E b, e \in 1 .. m :
           /\ b <= e /\ Defines(ls, p, b, e)
           /\ vs = Kept(ls, b)[e]
           /\ \A c, d \in 1 .. m : c <= d /\ Defines(ls, p, c, d) => c <= b

(* What one more line adds.                                                *)
LEMMA OneMoreDefines ==
  ASSUME NEW ls \in Seq(LineSet), NEW m \in Nat, m + 1 <= Len(ls),
         NEW p, NEW b \in 1 .. m + 1, Defines(ls, p, b, m + 1)
  PROVE  /\ ~ls[m + 1].open
         /\ \/ b = m + 1
            \/ b \in 1 .. m /\ OpenTo(ls, b, m)
<1>1. m + 1 \in b .. m + 1 /\ ~(m + 1 < m + 1)
  OBVIOUS
<1>2. ~ls[m + 1].open
  BY <1>1 DEF Defines
<1>3. ASSUME b # m + 1 PROVE b \in 1 .. m /\ OpenTo(ls, b, m)
  <2>1. \A k \in b .. m : k \in b .. m + 1 /\ k < m + 1
    OBVIOUS
  <2> QED BY <1>3, <2>1 DEF Defines, OpenTo
<1> QED BY <1>2, <1>3

LEMMA OneMoreOpen ==
  ASSUME NEW ls \in Seq(LineSet), NEW m \in Nat, m + 1 <= Len(ls),
         NEW b \in 1 .. m + 1
  PROVE  OpenTo(ls, b, m + 1) <=>
           /\ ls[m + 1].open
           /\ \/ b = m + 1 /\ ls[b].kind = "heading"
              \/ b \in 1 .. m /\ OpenTo(ls, b, m)
<1>1. \A k \in b .. m + 1 : k = m + 1 \/ k \in b .. m
  OBVIOUS
<1>2. (\A k \in b .. m : k \in b .. m + 1) /\ m + 1 \in b .. m + 1
  OBVIOUS
<1>3. CASE b = m + 1
  BY <1>1, <1>2, <1>3 DEF OpenTo
<1>4. CASE b \in 1 .. m
  BY <1>1, <1>2, <1>4 DEF OpenTo
<1> QED BY <1>3, <1>4

LEMMA SameLatest ==
  ASSUME NEW ls \in Seq(LineSet), NEW m \in Nat, m + 1 <= Len(ls),
         NEW p, NEW vs, Latest(ls, m, p, vs),
         \A b \in 1 .. m + 1 : ~Defines(ls, p, b, m + 1)
  PROVE  Latest(ls, m + 1, p, vs)
<1>1. \A b, e \in 1 .. m + 1 : b <= e /\ Defines(ls, p, b, e) => b \in 1 .. m /\ e \in 1 .. m
  <2> SUFFICES ASSUME NEW b \in 1 .. m + 1, NEW e \in 1 .. m + 1, b <= e, Defines(ls, p, b, e)
               PROVE  b \in 1 .. m /\ e \in 1 .. m
    OBVIOUS
  <2>1. e # m + 1
    OBVIOUS
  <2> QED BY <2>1
<1>2. 1 .. m \subseteq 1 .. m + 1
  OBVIOUS
<1>3. CASE vs = None
  BY <1>1, <1>3 DEF Latest
<1>4. CASE vs # None
  <2>1. PICK b, e \in 1 .. m :
           /\ b <= e /\ Defines(ls, p, b, e)
           /\ vs = Kept(ls, b)[e]
           /\ \A c, d \in 1 .. m : c <= d /\ Defines(ls, p, c, d) => c <= b
    BY <1>4 DEF Latest
  <2>2. \A c, d \in 1 .. m + 1 : c <= d /\ Defines(ls, p, c, d) => c <= b
    BY <1>1, <2>1
  <2> QED BY <1>2, <1>4, <2>1, <2>2 DEF Latest
<1> QED BY <1>3, <1>4

LEMMA NewLatest ==
  ASSUME NEW ls \in Seq(LineSet), NEW m \in Nat, m + 1 <= Len(ls),
         NEW p, NEW b \in 1 .. m + 1, Defines(ls, p, b, m + 1),
         ls[m + 1].kind = "heading" => b = m + 1,
         \A c \in 1 .. m : OpenTo(ls, c, m) => c <= b,
         NEW vs, vs = Kept(ls, b)[m + 1], vs # None
  PROVE  Latest(ls, m + 1, p, vs)
<1>1. ASSUME NEW c \in 1 .. m + 1, NEW d \in 1 .. m + 1, c <= d, Defines(ls, p, c, d)
      PROVE  c <= b
  <2>1. CASE d = m + 1
    <3>1. Defines(ls, p, c, m + 1)
      BY <1>1, <2>1
    <3>2. c = m + 1 => ls[m + 1].kind = "heading"
      BY <3>1 DEF Defines
    <3>3. c = m + 1 \/ (c \in 1 .. m /\ OpenTo(ls, c, m))
      BY <3>1, OneMoreDefines
    <3> QED BY <3>2, <3>3
  <2>2. CASE d # m + 1
    <3> SUFFICES ASSUME c > b PROVE FALSE
      OBVIOUS
    <3>1. d \in b .. m + 1 /\ d < m + 1
      BY <1>1, <2>2
    <3>2. ls[d].open
      BY <3>1 DEF Defines
    <3>3. ~(d < d) /\ d \in c .. d
      BY <1>1
    <3> QED BY <1>1, <3>2, <3>3 DEF Defines
  <2> QED BY <2>1, <2>2
<1>2. m + 1 \in 1 .. m + 1 /\ b <= m + 1
  OBVIOUS
<1> QED BY <1>1, <1>2 DEF Latest
-----------------------------------------------------------------------------
(* Whether the first m lines end inside a parameter, its name and values.  *)
Inside(ls, m, what, name, vs) ==
  IF what = "param"
    THEN \A b \in 1 .. m : ~OpenTo(ls, b, m)
    ELSE \E b \in 1 .. m :
           /\ OpenTo(ls, b, m) /\ ls[b].name = name /\ vs = Kept(ls, b)[m]
           /\ \A c \in 1 .. m : OpenTo(ls, c, m) => c = b

(* The parameters of the first m lines.                                    *)
ReadAs(ls, m, pars) == \A p \in Params : Latest(ls, m, p, pars[p])

LEMMA InsideClosed ==
  ASSUME NEW ls \in Seq(LineSet), NEW m \in Nat, m + 1 <= Len(ls), ~ls[m + 1].open,
         NEW name, NEW vs
  PROVE  Inside(ls, m + 1, "param", name, vs)
BY OneMoreOpen DEF Inside

LEMMA InsideHeading ==
  ASSUME NEW ls \in Seq(LineSet), NEW m \in Nat, m + 1 <= Len(ls),
         ls[m + 1].open, ls[m + 1].kind = "heading",
         NEW name, NEW vs, Inside(ls, m, "param", name, vs)
  PROVE  Inside(ls, m + 1, "cont", ls[m + 1].name, ls[m + 1].vals)
<1>1. m + 1 \in 1 .. Len(ls) /\ (m + 1) - 1 = m /\ m + 1 \in 1 .. m + 1
  OBVIOUS
<1>2. ls[m + 1].vals \in Seq(Nat)
  BY <1>1, LineIs
<1>3. Kept(ls, m + 1)[m + 1] = ls[m + 1].vals
  <2> DEFINE b == m + 1
  <2>1. b \in 1 .. Len(ls) /\ b \in b .. Len(ls)
    OBVIOUS
  <2>2. ls[b].vals \in Seq(Nat)
    BY <1>2
  <2> HIDE DEF b
  <2>3. Kept(ls, b)[b - 1] = <<>> /\ Kept(ls, b)[b] = Kept(ls, b)[b - 1] \o ls[b].vals
    BY <2>1, KeptIs
  <2>4. Kept(ls, b)[b] = <<>> \o ls[b].vals
    BY <2>3
  <2>5. <<>> \o ls[b].vals = ls[b].vals
    BY <2>2
  <2>6. Kept(ls, b)[b] = ls[b].vals
    BY <2>4, <2>5
  <2> QED BY <2>6 DEF b
<1>4. \A c \in 1 .. m + 1 : OpenTo(ls, c, m + 1) <=> c = m + 1
  BY OneMoreOpen DEF Inside
<1> QED BY <1>1, <1>3, <1>4 DEF Inside

LEMMA InsideContinues ==
  ASSUME NEW ls \in Seq(LineSet), NEW m \in Nat, m + 1 <= Len(ls),
         ls[m + 1].open, ls[m + 1].kind # "heading",
         NEW what, NEW name, NEW vs, Inside(ls, m, what, name, vs)
  PROVE  Inside(ls, m + 1, what, name, vs \o ls[m + 1].vals)
<1>1. \A c \in 1 .. m + 1 : OpenTo(ls, c, m + 1) <=> c \in 1 .. m /\ OpenTo(ls, c, m)
  BY OneMoreOpen
<1>2. CASE what = "param"
  BY <1>1, <1>2 DEF Inside
<1>3. CASE what # "param"
  <2>1. PICK b \in 1 .. m :
           /\ OpenTo(ls, b, m) /\ ls[b].name = name /\ vs = Kept(ls, b)[m]
           /\ \A c \in 1 .. m : OpenTo(ls, c, m) => c = b
    BY <1>3 DEF Inside
  <2>2. b \in 1 .. Len(ls) /\ m + 1 \in b .. Len(ls) /\ (m + 1) - 1 = m /\ b \in 1 .. m + 1
    OBVIOUS
  <2>3. Kept(ls, b)[m + 1] = Kept(ls, b)[(m + 1) - 1] \o ls[m + 1].vals
    BY <2>2, KeptIs
  <2>4. Kept(ls, b)[m + 1] = vs \o ls[m + 1].vals
    BY <2>1, <2>2, <2>3
  <2> QED BY <1>1, <1>3, <2>1, <2>2, <2>4 DEF Inside
<1> QED BY <1>2, <1>3

LEMMA ReadAsSame ==
  ASSUME NEW ls \in Seq(LineSet), NEW m \in Nat, m + 1 <= Len(ls),
         NEW pars, ReadAs(ls, m, pars),
         \/ ls[m + 1].open
         \/ ls[m + 1].kind # "heading" /\ \A b \in 1 .. m : ~OpenTo(ls, b, m)
  PROVE  ReadAs(ls, m + 1, pars)
<1> SUFFICES ASSUME NEW p \in Params PROVE Latest(ls, m + 1, p, pars[p])
  BY DEF ReadAs
<1>1. ASSUME NEW b \in 1 .. m + 1, Defines(ls, p, b, m + 1) PROVE FALSE
  <2>1. ~ls[m + 1].open /\ (b = m + 1 \/ (b \in 1 .. m /\ OpenTo(ls, b, m)))
    BY <1>1, OneMoreDefines
  <2>2. b = m + 1 => ls[m + 1].kind = "heading"
    BY <1>1 DEF Defines
  <2> QED BY <2>1, <2>2
<1>2. Latest(ls, m, p, pars[p])
  BY DEF ReadAs
<1> QED BY <1>1, <1>2, SameLatest

LEMMA ReadAsNew ==
  ASSUME NEW ls \in Seq(LineSet), NEW m \in Nat, m + 1 <= Len(ls),
         NEW pars \in [Params -> Seq(Nat) \cup {None}], ReadAs(ls, m, pars),
         NEW b \in 1 .. m + 1, Defines(ls, ls[b].name, b, m + 1), ls[b].name \in Params,
         ls[m + 1].kind = "heading" => b = m + 1,
         \A c \in 1 .. m : OpenTo(ls, c, m) => c = b
  PROVE  ReadAs(ls, m + 1, [pars EXCEPT ![ls[b].name] = Kept(ls, b)[m + 1]])
<1> DEFINE q == ls[b].name
           vs == Kept(ls, b)[m + 1]
           new == [pars EXCEPT ![q] = vs]
<1>1. q \in Params /\ Defines(ls, q, b, m + 1)
  OBVIOUS
<1>2. vs \in Seq(Nat) /\ vs # None
  <2> DEFINE e == m + 1
  <2>1. b \in 1 .. Len(ls) /\ e \in b - 1 .. Len(ls)
    OBVIOUS
  <2> HIDE DEF e
  <2>2. Kept(ls, b)[e] \in Seq(Nat)
    BY <2>1, KeptIs
  <2>3. vs \in Seq(Nat)
    BY <2>2 DEF e
  <2> HIDE DEF vs
  <2> QED BY <2>3, NoneAssumption
<1>3. vs = Kept(ls, b)[m + 1]
  OBVIOUS
<1> SUFFICES ReadAs(ls, m + 1, new)
  OBVIOUS
<1>4. new[q] = vs /\ \A p \in Params : p # q => new[p] = pars[p]
  BY <1>1
<1> HIDE DEF q, vs, new
<1>5. \A c \in 1 .. m : OpenTo(ls, c, m) => c <= b
  OBVIOUS
<1>6. Latest(ls, m + 1, q, vs)
  BY <1>1, <1>2, <1>3, <1>5, NewLatest
<1>7. ASSUME NEW p \in Params, p # q PROVE Latest(ls, m + 1, p, new[p])
  <2>1. ASSUME NEW c \in 1 .. m + 1, Defines(ls, p, c, m + 1) PROVE FALSE
    <3>1. c = m + 1 => ls[m + 1].kind = "heading"
      BY <2>1 DEF Defines
    <3>2. c = b
      BY <2>1, <3>1, OneMoreDefines
    <3> QED BY <1>1, <1>7, <2>1, <3>2 DEF Defines
  <2>2. Latest(ls, m, p, pars[p])
    BY DEF ReadAs
  <2>3. Latest(ls, m + 1, p, pars[p])
    BY <2>1, <2>2, SameLatest
  <2> QED BY <1>4, <1>7, <2>3
<1> QED BY <1>4, <1>6, <1>7 DEF ReadAs
-----------------------------------------------------------------------------
(* What toContainer writes for a parameter: a heading, and values until    *)
(* the line without a backslash.                                           *)
IsWritten(w, p, vs) ==
  /\ w \in Seq(LineSet) /\ Len(w) >= 1
  /\ w[1].kind = "heading" /\ w[1].name = p
  /\ \A k \in 2 .. Len(w) : w[k].kind = "values" /\ w[k].vals # <<>>
  /\ \A k \in 1 .. Len(w) : w[k].open <=> k < Len(w)
  /\ Kept(w, 1)[Len(w)] = vs

(* Lines that can be read, of parameters that have values.                 *)
Readable(ls, pars) ==
  /\ \A k \in 1 .. Len(ls) :
       /\ ls[k].kind \in {"heading", "values"}
       /\ ls[k].kind = "heading" <=> (k = 1 \/ ~ls[k - 1].open)
       /\ ls[k].kind = "values" => ls[k].vals # <<>>
       /\ ls[k].kind = "heading" /\ ~ls[k].open /\ ls[k].vals = <<>> =>
            pars[ls[k].name] = <<>>
  /\ Len(ls) > 0 => ~ls[Len(ls)].open

(* The lines of the parameters in W, each of them once.                    *)
Holds(ls, pars, W) ==
  /\ \A k \in 1 .. Len(ls) : ls[k].kind = "heading" => ls[k].name \in W
  /\ \A p \in W :
       \E b, e \in 1 .. Len(ls) :
         /\ b <= e /\ Defines(ls, p, b, e) /\ Kept(ls, b)[e] = pars[p]
         /\ \A c \in 1 .. Len(ls) : ls[c].kind = "heading" /\ ls[c].name = p => c = b

(* Such lines are read as the parameters they were written for.            *)
LEMMA HeldAreRead ==
  ASSUME NEW ls \in Seq(LineSet),
         NEW pars \in [Params -> Seq(Nat) \cup {None}],
         NEW old \in [Params -> Seq(Nat) \cup {None}],
         ReadAs(ls, Len(ls), pars), Holds(ls, old, Container!Present(old))
  PROVE  pars = old
<1> SUFFICES ASSUME NEW p \in Params PROVE pars[p] = old[p]
  OBVIOUS
<1>1. Latest(ls, Len(ls), p, pars[p])
  BY DEF ReadAs
<1>2. CASE old[p] = None
  <2> SUFFICES ASSUME pars[p] # None PROVE FALSE
    BY <1>2
  <2>1. PICK b \in 1 .. Len(ls) : \E e \in 1 .. Len(ls) : Defines(ls, p, b, e)
    BY <1>1 DEF Latest
  <2>2. ls[b].kind = "heading" /\ ls[b].name = p
    BY <2>1 DEF Defines
  <2>3. p \in Container!Present(old)
    BY <2>1, <2>2 DEF Holds
  <2> QED BY <1>2, <2>3 DEF Container!Present
<1>3. CASE old[p] # None
  <2>1. p \in Container!Present(old)
    BY <1>3 DEF Container!Present
  <2>2. PICK b, e \in 1 .. Len(ls) :
          /\ b <= e /\ Defines(ls, p, b, e) /\ Kept(ls, b)[e] = old[p]
          /\ \A c \in 1 .. Len(ls) : ls[c].kind = "heading" /\ ls[c].name = p => c = b
    BY <2>1 DEF Holds
  <2>3. pars[p] # None
    BY <1>1, <2>2 DEF Latest
  <2>4. PICK c, d \in 1 .. Len(ls) : c <= d /\ Defines(ls, p, c, d) /\ pars[p] = Kept(ls, c)[d]
    BY <1>1, <2>3 DEF Latest
  <2>5. c = b
    BY <2>2, <2>4 DEF Defines
  <2>6. Defines(ls, p, b, d) /\ b <= d
    BY <2>4, <2>5
  <2>7. d = e
    <3> SUFFICES ASSUME d # e PROVE FALSE
      OBVIOUS
    <3>1. CASE d < e
      <4>1. d \in b .. d /\ d \in b .. e /\ ~(d < d)
        BY <2>6, <3>1
      <4> QED BY <2>2, <2>6, <3>1, <4>1 DEF Defines
    <3>2. CASE e < d
      <4>1. e \in b .. d /\ e \in b .. e /\ ~(e < e)
        BY <2>2, <3>2
      <4> QED BY <2>2, <2>6, <3>2, <4>1 DEF Defines
    <3> QED BY <3>1, <3>2
  <2> QED BY <2>2, <2>4, <2>5, <2>7
<1> QED BY <1>2, <1>3

LEMMA WrittenIsReadable ==
  ASSUME NEW ls \in Seq(LineSet), NEW pars, Readable(ls, pars),
         NEW w, NEW p, IsWritten(w, p, pars[p])
  PROVE  Readable(ls \o w, pars)
<1> DEFINE new == ls \o w
           size == Len(ls)
           more == Len(w)
<1>1. w \in Seq(LineSet) /\ more \in Nat /\ more >= 1 /\ size \in Nat
  BY DEF IsWritten
<1>2. /\ Len(new) = size + more
      /\ \A k \in 1 .. size : new[k] = ls[k]
      /\ \A k \in 1 .. more : new[size + k] = w[k]
  BY <1>1
<1>3. ASSUME NEW j \in 1 .. more
      PROVE  /\ w[j].kind = "heading" <=> j = 1
             /\ w[j].kind = "values" <=> j # 1
             /\ w[j].kind = "values" => w[j].vals # <<>>
             /\ w[j].open <=> j < more
  <2>1. j = 1 \/ j \in 2 .. more
    OBVIOUS
  <2> QED BY <1>1, <2>1 DEF IsWritten
<1>4. w[1].name = p /\ (more = 1 /\ w[1].vals = <<>> => pars[p] = <<>>)
  <2>1. w[1].name = p /\ Kept(w, 1)[more] = pars[p]
    BY DEF IsWritten
  <2>2. more = 1 => Kept(w, 1)[1] = Kept(w, 1)[1 - 1] \o w[1].vals /\ Kept(w, 1)[1 - 1] = <<>>
    <3> DEFINE b == 1
    <3>1. b \in 1 .. Len(w) /\ b \in b .. Len(w)
      BY <1>1
    <3> HIDE DEF b
    <3>2. Kept(w, b)[b] = Kept(w, b)[b - 1] \o w[b].vals /\ Kept(w, b)[b - 1] = <<>>
      BY <1>1, <3>1, KeptIs
    <3> QED BY <3>2 DEF b
  <2>3. <<>> \o <<>> = <<>>
    OBVIOUS
  <2> QED BY <2>1, <2>2, <2>3
<1> HIDE DEF new, size, more
<1>5. Len(new) > 0 => ~new[Len(new)].open
  <2>1. more \in 1 .. more /\ ~(more < more)
    BY <1>1
  <2>2. new[Len(new)] = w[more]
    BY <1>2, <2>1
  <2> QED BY <1>3, <2>1, <2>2
<1>6. ASSUME NEW k \in 1 .. Len(new)
      PROVE  /\ new[k].kind \in {"heading", "values"}
             /\ new[k].kind = "heading" <=> (k = 1 \/ ~new[k - 1].open)
             /\ new[k].kind = "values" => new[k].vals # <<>>
             /\ new[k].kind = "heading" /\ ~new[k].open /\ new[k].vals = <<>> =>
                  pars[new[k].name] = <<>>
  <2>1. CASE k <= size
    <3>1. k \in 1 .. size /\ new[k] = ls[k] /\ (k # 1 => new[k - 1] = ls[k - 1])
      BY <1>1, <1>2, <2>1
    <3> QED BY <3>1 DEF Readable, size
  <2>2. CASE k > size
    <3>1. PICK j \in 1 .. more : k = size + j
      <4>1. k - size \in 1 .. more /\ k = size + (k - size)
        BY <1>1, <1>2, <2>2
      <4> QED BY <4>1
    <3>2. new[k] = w[j]
      BY <1>2, <3>1
    <3>3. CASE j = 1
      <4>1. k = 1 \/ ~new[k - 1].open
        <5>1. CASE size = 0
          BY <1>1, <3>1, <3>3, <5>1
        <5>2. CASE size > 0
          <6>1. k - 1 = size /\ size \in 1 .. size
            BY <1>1, <3>1, <3>3, <5>2
          <6>2. new[size] = ls[size] /\ ~ls[size].open
            BY <1>2, <5>2, <6>1 DEF Readable, size
          <6> QED BY <6>1, <6>2
        <5> QED BY <1>1, <5>1, <5>2
      <4> QED BY <1>1, <1>3, <1>4, <3>2, <3>3, <4>1
    <3>4. CASE j # 1
      <4>1. j - 1 \in 1 .. more /\ k - 1 = size + (j - 1) /\ j - 1 < more /\ k # 1
        BY <1>1, <3>1, <3>4
      <4>2. new[k - 1] = w[j - 1] /\ w[j - 1].open
        BY <1>2, <1>3, <4>1
      <4> QED BY <1>3, <3>2, <3>4, <4>1, <4>2
    <3> QED BY <3>3, <3>4
  <2> QED BY <1>1, <2>1, <2>2
<1>7. Readable(new, pars)
  BY <1>5, <1>6 DEF Readable
<1> QED BY <1>7 DEF new

LEMMA WrittenIsHeld ==
  ASSUME NEW ls \in Seq(LineSet), NEW pars, NEW W, Holds(ls, pars, W),
         NEW w, NEW p, p \notin W, IsWritten(w, p, pars[p])
  PROVE  Holds(ls \o w, pars, W \cup {p})
<1> DEFINE new == ls \o w
           size == Len(ls)
           more == Len(w)
<1>1. w \in Seq(LineSet) /\ more \in Nat /\ more >= 1 /\ size \in Nat
  BY DEF IsWritten
<1>2. /\ new \in Seq(LineSet) /\ Len(new) = size + more
      /\ \A k \in 1 .. size : new[k] = ls[k]
      /\ \A k \in 1 .. more : new[size + k] = w[k]
  BY <1>1
<1> HIDE DEF new, size, more
<1>3. ASSUME NEW k \in 1 .. Len(new)
      PROVE  (k \in 1 .. size /\ new[k] = ls[k]) \/ (\E j \in 1 .. more : k = size + j /\ new[k] = w[j])
  <2>1. CASE k <= size
    BY <1>1, <1>2, <2>1
  <2>2. CASE k > size
    <3>1. k - size \in 1 .. more /\ k = size + (k - size)
      BY <1>1, <1>2, <2>2
    <3> QED BY <1>2, <3>1
  <2> QED BY <1>1, <2>1, <2>2
<1>4. \A j \in 1 .. more : w[j].kind = "heading" => j = 1
  <2>1. \A j \in 1 .. more : j = 1 \/ j \in 2 .. more
    BY <1>1
  <2> QED BY <2>1 DEF IsWritten, more
<1>5. w[1].kind = "heading" /\ w[1].name = p /\ Kept(w, 1)[more] = pars[p]
      /\ \A j \in 1 .. more : w[j].open <=> j < more
  BY DEF IsWritten, more
<1>6. \A k \in 1 .. size : ls[k].kind = "heading" => ls[k].name \in W
  BY DEF Holds, size
<1>7. ASSUME NEW k \in 1 .. Len(new), new[k].kind = "heading"
      PROVE  \/ k \in 1 .. size /\ new[k] = ls[k] /\ new[k].name \in W
             \/ k = size + 1 /\ new[k].name = p
  BY <1>3, <1>4, <1>5, <1>6, <1>7
<1>8. ASSUME NEW q \in W
      PROVE  \E b, e \in 1 .. Len(new) :
               /\ b <= e /\ Defines(new, q, b, e) /\ Kept(new, b)[e] = pars[q]
               /\ \A c \in 1 .. Len(new) : new[c].kind = "heading" /\ new[c].name = q => c = b
  <2>1. PICK b, e \in 1 .. size :
          /\ b <= e /\ Defines(ls, q, b, e) /\ Kept(ls, b)[e] = pars[q]
          /\ \A c \in 1 .. size : ls[c].kind = "heading" /\ ls[c].name = q => c = b
    BY DEF Holds, size
  <2>2. b \in 1 .. Len(new) /\ e \in 1 .. Len(new)
    BY <1>1, <1>2
  <2>3. \A k \in b .. e : new[k] = ls[k]
    BY <1>1, <1>2
  <2>4. b \in b .. e
    BY <2>1
  <2>5. Defines(new, q, b, e)
    BY <2>1, <2>3, <2>4 DEF Defines
  <2>6. Kept(new, b)[e] = Kept(ls, b)[e]
    <3>1. PICK len \in Nat : b - 1 + len = e
      <4>1. e - (b - 1) \in Nat /\ b - 1 + (e - (b - 1)) = e
        BY <2>1
      <4> QED BY <4>1
    <3>2. ASSUME NEW j \in 1 .. len PROVE new[b - 1 + j] = ls[b - 1 + j]
      <4> DEFINE k == b - 1 + j
      <4>1. k \in b .. e
        BY <3>1
      <4> HIDE DEF k
      <4>2. new[k] = ls[k]
        BY <2>3, <4>1
      <4> QED BY <4>2 DEF k
    <3>3. b \in 1 .. Len(ls) /\ b - 1 + len <= Len(ls) /\ b - 1 + len <= Len(new)
      BY <1>1, <1>2, <3>1 DEF size
    <3>4. Kept(new, b)[b - 1 + len] = Kept(ls, b)[b - 1 + len]
      BY <1>2, <2>2, <3>2, <3>3, KeptLocal
    <3> QED BY <3>1, <3>4
  <2>7. ASSUME NEW c \in 1 .. Len(new), new[c].kind = "heading", new[c].name = q PROVE c = b
    BY <1>7, <2>1, <2>7
  <2> QED BY <2>1, <2>2, <2>5, <2>6, <2>7
<1>9. \E b, e \in 1 .. Len(new) :
        /\ b <= e /\ Defines(new, p, b, e) /\ Kept(new, b)[e] = pars[p]
        /\ \A c \in 1 .. Len(new) : new[c].kind = "heading" /\ new[c].name = p => c = b
  <2> DEFINE b == size + 1
             e == size + more
  <2>1. b \in 1 .. Len(new) /\ e \in 1 .. Len(new) /\ b <= e /\ 1 \in 1 .. more
    BY <1>1, <1>2
  <2>2. new[b] = w[1]
    BY <1>2, <2>1
  <2>3. ASSUME NEW k \in b .. e PROVE new[k].open <=> k < e
    <3>1. PICK j \in 1 .. more : k = size + j
      <4>1. k - size \in 1 .. more /\ k = size + (k - size)
        BY <1>1
      <4> QED BY <4>1
    <3>2. new[k] = w[j] /\ (k < e <=> j < more)
      BY <1>1, <1>2, <3>1
    <3> QED BY <1>5, <3>2
  <2>4. Defines(new, p, b, e)
    BY <1>5, <2>2, <2>3 DEF Defines
  <2>5. Kept(new, b)[e] = Kept(w, 1)[more]
    <3>1. b - 1 + more = e /\ 1 - 1 + more = more /\ 1 \in 1 .. Len(w) /\ more <= Len(w)
      BY <1>1, <2>1 DEF more
    <3>2. ASSUME NEW j \in 1 .. more PROVE new[b - 1 + j] = w[1 - 1 + j]
      <4>1. b - 1 + j = size + j /\ 1 - 1 + j = j
        BY <1>1
      <4> QED BY <1>2, <4>1
    <3>3. b - 1 + more <= Len(new) /\ 1 - 1 + more <= Len(w)
      BY <1>2, <3>1
    <3> DEFINE c == 1
    <3>4. /\ new \in Seq(LineSet) /\ w \in Seq(LineSet) /\ more \in Nat
          /\ b \in 1 .. Len(new) /\ c \in 1 .. Len(w)
          /\ b - 1 + more <= Len(new) /\ c - 1 + more <= Len(w)
      BY <1>1, <1>2, <2>1, <3>1, <3>3
    <3>5. \A j \in 1 .. more : new[b - 1 + j] = w[c - 1 + j]
      BY <3>2
    <3> HIDE DEF b, e, c
    <3>6. Kept(new, b)[b - 1 + more] = Kept(w, c)[c - 1 + more]
      BY <3>4, <3>5, KeptLocal
    <3> QED BY <3>1, <3>6 DEF c
  <2>6. ASSUME NEW c \in 1 .. Len(new), new[c].kind = "heading", new[c].name = p PROVE c = b
    BY <1>7, <2>6
  <2> HIDE DEF b, e
  <2> QED BY <1>5, <2>1, <2>4, <2>5, <2>6
<1>10. \A k \in 1 .. Len(new) : new[k].kind = "heading" => new[k].name \in W \cup {p}
  BY <1>7
<1>11. Holds(new, pars, W \cup {p})
  BY <1>8, <1>9, <1>10 DEF Holds
<1> QED BY <1>11 DEF new
-----------------------------------------------------------------------------
(* The lines of values are as many as are needed, and none is empty.       *)
LEMMA LinesNeeded ==
  ASSUME NEW split \in Nat \ {0}, NEW size \in Nat, split < size,
         NEW count, count = (size + split - 1) \div split
  PROVE  /\ count \in Nat /\ count >= 1
         /\ \A k \in 0 .. count - 1 :
              /\ k * split \in Nat /\ k * split < size
              /\ (k + 1) * split = k * split + split
<1>1. count \in Nat /\ count >= 1
  <2>1. size + split - 1 \in Nat /\ size + split - 1 >= split
    OBVIOUS
  <2> QED BY <2>1
<1>2. count * split <= size + split - 1
  OBVIOUS
<1>3. ASSUME NEW k \in 0 .. count - 1
      PROVE  k * split \in Nat /\ k * split < size /\ (k + 1) * split = k * split + split
  <2>1. k \in Nat /\ k + 1 <= count
    BY <1>1
  <2>2. (k + 1) * split <= count * split
    BY <1>1, <2>1
  <2>3. (k + 1) * split = k * split + split
    BY <2>1
  <2>4. k * split \in Nat
    BY <2>1
  <2>5. count * split \in Nat
    BY <1>1
  <2> QED BY <1>2, <2>2, <2>3, <2>4, <2>5
<1> QED BY <1>1, <1>3

LEMMA HeadingIs ==
  ASSUME NEW p \in Params, NEW vs \in Seq(Nat), NEW open \in BOOLEAN
  PROVE  Container!Heading(p, vs, open) \in LineSet
BY DEF Container!Heading, LineSet, LineKinds

LEMMA ValuesIs ==
  ASSUME NEW vs \in Seq(Nat), NEW open \in BOOLEAN
  PROVE  Container!Values(vs, open) \in LineSet
BY DEF Container!Values, LineSet, LineKinds

LEMMA WrittenIs ==
  ASSUME NEW p \in Params, NEW vs \in Seq(Nat)
  PROVE  IsWritten(Container!Written(p, vs), p, vs)
<1> DEFINE w == Container!Written(p, vs)
           size == Len(vs)
           count == Container!NumberOfLines(vs)
<1>1. CASE size <= LineSplit
  <2>1. w = <<Container!Heading(p, vs, FALSE)>>
    BY <1>1 DEF Container!Written
  <2>2. w \in Seq(LineSet) /\ Len(w) = 1 /\ w[1] = Container!Heading(p, vs, FALSE)
    <3> DEFINE line == Container!Heading(p, vs, FALSE)
    <3>1. line \in LineSet
      BY HeadingIs
    <3> HIDE DEF line
    <3>2. <<line>> \in Seq(LineSet) /\ Len(<<line>>) = 1 /\ <<line>>[1] = line
      BY <3>1
    <3>3. w = <<line>>
      BY <2>1 DEF line
    <3> HIDE DEF w
    <3> QED BY <3>2, <3>3 DEF line
  <2> HIDE DEF w
  <2>3. w[1].kind = "heading" /\ w[1].name = p /\ w[1].vals = vs /\ w[1].open = FALSE
    BY <2>2 DEF Container!Heading
  <2>4. Kept(w, 1)[1] = vs
    <3> DEFINE b == 1
    <3>1. b \in 1 .. Len(w) /\ b \in b .. Len(w) /\ w[b].vals = vs
      <4>1. w[b].vals = vs
        BY <2>3
      <4>2. Len(w) = 1
        BY <2>2
      <4> QED BY <4>1, <4>2
    <3> HIDE DEF b
    <3>2. Kept(w, b)[b] = Kept(w, b)[b - 1] \o w[b].vals /\ Kept(w, b)[b - 1] = <<>>
      BY <2>2, <3>1, KeptIs
    <3>3. Kept(w, b)[b] = <<>> \o vs
      BY <3>1, <3>2
    <3>4. Kept(w, b)[b] = vs
      BY <3>3
    <3> QED BY <3>4 DEF b
  <2>5. IsWritten(w, p, vs)
    <3>1. w \in Seq(LineSet) /\ Len(w) = 1
      BY <2>2
    <3>2. \A k \in 1 .. Len(w) : k = 1 /\ ~(k < Len(w)) /\ k \notin 2 .. Len(w)
      BY <3>1
    <3>3. \A k \in 2 .. Len(w) : FALSE
      BY <3>1
    <3>4. \A k \in 1 .. Len(w) : w[k].open <=> k < Len(w)
      BY <2>3, <3>2
    <3>5. Kept(w, 1)[Len(w)] = vs /\ Len(w) >= 1
      BY <2>4, <3>1
    <3> QED BY <2>3, <3>1, <3>3, <3>4, <3>5 DEF IsWritten
  <2> QED BY <2>5 DEF w
<1>2. CASE size > LineSplit
  <2> DEFINE cut(k) == IF k < count THEN k * LineSplit ELSE size
             Row(k) == Container!Values(SubSeq(vs, (k - 1) * LineSplit + 1, cut(k)), k < count)
             rows == [k \in 1 .. count |-> Row(k)]
             first == Container!Heading(p, <<>>, TRUE)
  <2>1. LineSplit \in Nat \ {0} /\ size \in Nat /\ LineSplit < size
    BY <1>2, LineSplitAssumption
  <2>2. w = <<first>> \o rows
    <3>1. ~(size <= LineSplit)
      BY <2>1
    <3> QED BY <3>1, Zenon DEF Container!Written
  <2>3. count = (size + LineSplit - 1) \div LineSplit
    BY DEF Container!NumberOfLines
  <2> HIDE DEF count
  <2>4. /\ count \in Nat /\ count >= 1
        /\ \A k \in 0 .. count - 1 :
              /\ k * LineSplit \in Nat /\ k * LineSplit < size
              /\ (k + 1) * LineSplit = k * LineSplit + LineSplit
    BY <2>1, <2>3, LinesNeeded
  <2>5. ASSUME NEW k \in 0 .. count - 1
        PROVE  /\ cut(k) = k * LineSplit /\ cut(k) \in 0 .. size
               /\ cut(k + 1) \in 0 .. size /\ cut(k) < cut(k + 1)
    <3>1. k * LineSplit \in Nat /\ k * LineSplit < size /\ (k + 1) * LineSplit = k * LineSplit + LineSplit
      BY <2>4
    <3>2. k < count /\ cut(k) = k * LineSplit
      BY <2>4
    <3>3. CASE k + 1 < count
      <4>1. k + 1 \in 0 .. count - 1
        BY <2>4, <3>3
      <4>2. (k + 1) * LineSplit \in Nat /\ (k + 1) * LineSplit < size
        BY <2>4, <4>1
      <4>3. cut(k + 1) = (k + 1) * LineSplit
        BY <3>3
      <4> HIDE DEF cut
      <4> QED BY <2>1, <3>1, <3>2, <4>2, <4>3
    <3>4. CASE ~(k + 1 < count)
      <4>1. cut(k + 1) = size
        BY <3>4
      <4> HIDE DEF cut
      <4> QED BY <2>1, <3>1, <3>2, <4>1
    <3> QED BY <3>3, <3>4
  <2>6. cut(0) = 0 /\ cut(count) = size
    BY <2>1, <2>4
  <2>7. ASSUME NEW k \in 1 .. count
        PROVE  /\ SubSeq(vs, (k - 1) * LineSplit + 1, cut(k)) = SubSeq(vs, cut(k - 1) + 1, cut(k))
               /\ SubSeq(vs, cut(k - 1) + 1, cut(k)) \in Seq(Nat)
               /\ SubSeq(vs, cut(k - 1) + 1, cut(k)) # <<>>
    <3>1. k - 1 \in 0 .. count - 1 /\ (k - 1) + 1 = k
      BY <2>4
    <3>2. /\ cut(k - 1) = (k - 1) * LineSplit
          /\ cut(k - 1) \in 0 .. size /\ cut(k) \in 0 .. size /\ cut(k - 1) < cut(k)
      BY <2>5, <3>1
    <3> HIDE DEF cut
    <3> DEFINE lo == cut(k - 1) + 1
               hi == cut(k)
    <3>3. lo \in Int /\ hi \in Int /\ lo <= hi /\ hi - lo + 1 # 0
          /\ \A i \in lo .. hi : vs[i] \in Nat
      <4>1. lo \in Int /\ hi \in Int /\ 1 <= lo /\ lo <= hi /\ hi <= size /\ hi - lo + 1 # 0
        BY <2>1, <3>2
      <4> HIDE DEF lo, hi
      <4>2. \A i \in lo .. hi : i \in 1 .. Len(vs)
        BY <2>1, <4>1
      <4> QED BY <4>1, <4>2
    <3> HIDE DEF lo, hi
    <3>4. SubSeq(vs, lo, hi) \in Seq(Nat) /\ Len(SubSeq(vs, lo, hi)) = hi - lo + 1
      BY <3>3, SubSeqProperties
    <3>5. SubSeq(vs, lo, hi) # <<>>
      BY <3>3, <3>4
    <3> QED BY <3>2, <3>4, <3>5 DEF lo, hi
  <2> HIDE DEF w, size, cut
  <2>8. first \in LineSet /\ first.kind = "heading" /\ first.name = p
        /\ first.vals = <<>> /\ first.open = TRUE
    <3>1. <<>> \in Seq(Nat)
      OBVIOUS
    <3> QED BY <3>1, HeadingIs DEF Container!Heading
  <2>9. ASSUME NEW k \in 1 .. count
        PROVE  /\ Row(k) \in LineSet /\ Row(k).kind = "values"
               /\ Row(k).vals = SubSeq(vs, cut(k - 1) + 1, cut(k))
               /\ Row(k).vals # <<>> /\ Row(k).open = (k < count)
    <3> DEFINE vals == SubSeq(vs, cut(k - 1) + 1, cut(k))
    <3>1. vals \in Seq(Nat) /\ vals # <<>> /\ Row(k) = Container!Values(vals, k < count)
      BY <2>7
    <3> HIDE DEF vals, Row
    <3>2. (k < count) \in BOOLEAN
      BY <2>4
    <3>3. Row(k) \in LineSet
      BY <3>1, <3>2, ValuesIs
    <3>4. Row(k).kind = "values" /\ Row(k).vals = vals /\ Row(k).open = (k < count)
      BY <3>1 DEF Container!Values
    <3> QED BY <3>1, <3>3, <3>4 DEF vals
  <2> HIDE DEF first, Row
  <2>10. rows \in Seq(LineSet) /\ Len(rows) = count
    BY <2>4, <2>9
  <2>11. /\ w \in Seq(LineSet) /\ Len(w) = count + 1 /\ w[1] = first
         /\ \A k \in 1 .. count : w[k + 1] = Row(k)
    <3>1. \A k \in 1 .. count : rows[k] = Row(k)
      OBVIOUS
    <3> HIDE DEF rows
    <3>2. w \in Seq(LineSet) /\ Len(w) = count + 1 /\ w[1] = first
      BY <2>2, <2>4, <2>8, <2>10
    <3>3. \A k \in 1 .. count : w[k + 1] = rows[k]
      BY <2>2, <2>4, <2>8, <2>10
    <3> QED BY <3>1, <3>2, <3>3
  <2> HIDE DEF rows
  <2>12. ASSUME NEW k \in 2 .. Len(w)
         PROVE  /\ w[k].kind = "values" /\ w[k].vals # <<>>
                /\ w[k].open <=> k < Len(w)
    <3>1. PICK j \in 1 .. count : k = j + 1
      <4>1. k - 1 \in 1 .. count /\ k = (k - 1) + 1
        BY <2>4, <2>11
      <4> QED BY <4>1
    <3>2. w[k] = Row(j) /\ (k < Len(w) <=> j < count)
      BY <2>4, <2>11, <3>1
    <3>3. Row(j).kind = "values" /\ Row(j).vals # <<>> /\ Row(j).open = (j < count)
      BY <2>9
    <3> QED BY <3>2, <3>3
  <2>13. \A k \in 1 .. Len(w) : w[k].open <=> k < Len(w)
    <3>1. \A k \in 1 .. Len(w) : k = 1 \/ k \in 2 .. Len(w)
      BY <2>4, <2>11
    <3>2. 1 < Len(w) /\ w[1].open = TRUE
      BY <2>4, <2>8, <2>11
    <3> QED BY <2>12, <3>1, <3>2
  <2> DEFINE S == {k \in Nat : k <= count => Kept(w, 1)[k + 1] = SubSeq(vs, 1, cut(k))}
  <2>14. 0 \in S
    <3> DEFINE b == 1
    <3>1. b \in 1 .. Len(w) /\ b \in b .. Len(w) /\ w[b].vals = <<>>
      BY <2>4, <2>8, <2>11
    <3> HIDE DEF b
    <3>2. Kept(w, b)[b] = Kept(w, b)[b - 1] \o w[b].vals /\ Kept(w, b)[b - 1] = <<>>
      BY <2>11, <3>1, KeptIs
    <3>3. <<>> \o <<>> = <<>> /\ SubSeq(vs, 1, 0) = <<>>
      BY SubSeqEmpty
    <3>4. Kept(w, b)[b] = SubSeq(vs, 1, cut(0))
      BY <2>6, <3>1, <3>2, <3>3
    <3> QED BY <3>4 DEF b
  <2>15. ASSUME NEW k \in Nat, k \in S PROVE k + 1 \in S
    <3> SUFFICES ASSUME k + 1 <= count
                 PROVE  Kept(w, 1)[(k + 1) + 1] = SubSeq(vs, 1, cut(k + 1))
      OBVIOUS
    <3>1. Kept(w, 1)[k + 1] = SubSeq(vs, 1, cut(k))
      BY <2>4, <2>15
    <3> HIDE DEF S
    <3>2. k \in 0 .. count - 1 /\ k + 1 \in 1 .. count /\ (k + 1) - 1 = k
      BY <2>4
    <3>3. cut(k) \in 0 .. size /\ cut(k + 1) \in 0 .. size /\ cut(k) < cut(k + 1)
      BY <2>5, <3>2
    <3>4. w[(k + 1) + 1].vals = SubSeq(vs, cut(k) + 1, cut(k + 1))
      BY <2>9, <2>11, <3>2
    <3>5. SubSeq(vs, 1, cut(k)) \o SubSeq(vs, cut(k) + 1, cut(k + 1)) = SubSeq(vs, 1, cut(k + 1))
      <4> DEFINE m == cut(k)
                 i == cut(k + 1)
      <4>1. 1 \in 1 .. Len(vs) + 1 /\ m \in 1 - 1 .. Len(vs) /\ i \in m .. Len(vs)
        BY <2>1, <3>3 DEF size
      <4> HIDE DEF m, i
      <4>2. SubSeq(vs, 1, m) \o SubSeq(vs, m + 1, i) = SubSeq(vs, 1, i)
        BY <4>1, ConcatAdjacentSubSeq
      <4> QED BY <4>2 DEF m, i
    <3> DEFINE x == (k + 1) + 1
               b == 1
    <3>6. b \in 1 .. Len(w) /\ x \in b .. Len(w) /\ x - 1 = k + 1
      <4>1. Len(w) = count + 1
        BY <2>11
      <4> QED BY <2>4, <3>2, <4>1
    <3>7. w[x].vals = SubSeq(vs, cut(k) + 1, cut(k + 1)) /\ Kept(w, b)[k + 1] = SubSeq(vs, 1, cut(k))
      BY <3>1, <3>4
    <3> HIDE DEF x, b
    <3>8. Kept(w, b)[x] = Kept(w, b)[x - 1] \o w[x].vals
      BY <2>11, <3>6, KeptIs
    <3>9. Kept(w, b)[x] = SubSeq(vs, 1, cut(k + 1))
      BY <3>5, <3>6, <3>7, <3>8
    <3> QED BY <3>9 DEF x, b
  <2> HIDE DEF S
  <2>16. count \in S
    BY <2>4, <2>14, <2>15, NatIsIn
  <2>17. Kept(w, 1)[Len(w)] = vs
    <3>1. Kept(w, 1)[count + 1] = SubSeq(vs, 1, Len(vs))
      BY <2>4, <2>6, <2>16 DEF S, size
    <3> QED BY <2>11, <3>1, SubSeqFull
  <2>18. Len(w) >= 1 /\ w[1].kind = "heading" /\ w[1].name = p
    BY <2>4, <2>8, <2>11
  <2>19. IsWritten(w, p, vs)
    BY <2>11, <2>12, <2>13, <2>17, <2>18 DEF IsWritten
  <2> QED BY <2>19 DEF w
<1>3. size \in Nat /\ LineSplit \in Nat
  BY LineSplitAssumption
<1> QED BY <1>1, <1>2, <1>3
-----------------------------------------------------------------------------
ContainerType ==
  /\ phase \in {"read", "write", "reread", "done"}
  /\ wn \in {"param", "cont", "failed"}
  /\ lines \in Seq(LineSet) /\ next \in 0 .. Len(lines)
  /\ wn = "cont" => param_name \in Params
  /\ values \in Seq(Nat)
  /\ parameters \in [Params -> Seq(Nat) \cup {None}]
  /\ original \in [Params -> Seq(Nat) \cup {None}]
  /\ left \subseteq Params

(* What was taken from the lines so far is what they say.                  *)
Taken ==
  phase \in {"read", "reread"} /\ wn # "failed" =>
    /\ Inside(lines, next, wn, param_name, values)
    /\ ReadAs(lines, next, parameters)

(* The lines written so far hold the parameters that are not left.         *)
WrittenSoFar ==
  phase = "write" =>
    /\ next = 0 /\ wn = "param" /\ left \subseteq Container!Present(parameters)
    /\ Readable(lines, parameters)
    /\ Holds(lines, parameters, Container!Present(parameters) \ left)

(* They are still there when they are read again.                          *)
WrittenBefore ==
  phase = "reread" =>
    /\ Readable(lines, original)
    /\ Holds(lines, original, Container!Present(original))
    /\ wn # "failed" => (wn = "cont" <=> next >= 1 /\ lines[next].open)
    /\ wn = "failed" => \E p \in Params : original[p] = <<>>

ContainerInv ==
  /\ ContainerType
  /\ Taken
  /\ WrittenSoFar
  /\ WrittenBefore
  /\ phase = "done" => parameters = original

LEMMA NothingRead ==
  ASSUME NEW ls \in Seq(LineSet), NEW name, NEW vs
  PROVE  Inside(ls, 0, "param", name, vs) /\ ReadAs(ls, 0, Container!NoParameters)
<1>1. \A b \in 1 .. 0 : FALSE
  OBVIOUS
<1>2. \A p \in Params : Container!NoParameters[p] = None
  BY DEF Container!NoParameters
<1> QED BY <1>1, <1>2 DEF Inside, ReadAs, Latest

LEMMA NothingWritten ==
  ASSUME NEW pars, NEW W, W = {}
  PROVE  Readable(<<>>, pars) /\ Holds(<<>>, pars, W)
<1>1. Len(<<>>) = 0 /\ \A k \in 1 .. 0 : FALSE
  OBVIOUS
<1> QED BY <1>1 DEF Readable, Holds

LEMMA NoParametersIs == Container!NoParameters \in [Params -> Seq(Nat) \cup {None}]
BY DEF Container!NoParameters

LEMMA ContainerInit == Container!Init => ContainerInv
<1> SUFFICES ASSUME Container!Init PROVE ContainerInv
  OBVIOUS
<1>1. next = 0 /\ wn = "param" /\ values = <<>> /\ original = Container!NoParameters
  BY DEF Container!Init
<1>2. values \in Seq(Nat) /\ original \in [Params -> Seq(Nat) \cup {None}]
  BY <1>1, NoParametersIs
<1>3. CASE /\ phase = "read" /\ parameters = Container!NoParameters /\ left = {}
           /\ lines \in UNION {[1 .. m -> Container!Lines] : m \in 0 .. MaxLines}
  <2>1. Container!Lines \subseteq LineSet
    <3>1. <<>> \in Seq(Nat)
      OBVIOUS
    <3>2. \A p \in Params, vs \in LineValues, open \in BOOLEAN :
            Container!Heading(p, vs, open) \in LineSet /\ Container!Values(vs, open) \in LineSet
      BY LineValuesAssumption, HeadingIs, ValuesIs
    <3>3. \A vs \in LineValues, open \in BOOLEAN : Container!Values(vs, open) \in LineSet
      BY LineValuesAssumption, ValuesIs
    <3>4. Container!Blank \in LineSet
      BY <3>1, ValuesIs DEF Container!Blank
    <3>5. Container!Comment \in LineSet /\ Container!Invalid \in LineSet
      BY <3>1 DEF Container!Comment, Container!Invalid, LineSet, LineKinds
    <3> QED BY <3>2, <3>3, <3>4, <3>5 DEF Container!Lines
  <2>2. PICK m \in 0 .. MaxLines : lines \in [1 .. m -> Container!Lines]
    BY <1>3
  <2>3. lines \in [1 .. m -> LineSet] /\ m \in Nat
    BY <2>1, <2>2, MaxLinesAssumption
  <2>4. lines \in Seq(LineSet) /\ next \in 0 .. Len(lines)
    BY <1>1, <2>3
  <2>5. ContainerType
    BY <1>1, <1>2, <1>3, <2>4, NoParametersIs DEF ContainerType
  <2>6. Taken
    BY <1>1, <1>3, <2>4, NothingRead DEF Taken
  <2> QED BY <1>3, <2>5, <2>6 DEF ContainerInv, WrittenSoFar, WrittenBefore
<1>4. CASE /\ phase = "write" /\ lines = <<>>
           /\ parameters \in [Params -> Container!Added \cup {None}]
           /\ left = Container!Present(parameters)
  <2>1. Container!Added \subseteq Seq(Nat)
    <3>1. ASSUME NEW k \in 0 .. MaxValues PROVE [i \in 1 .. k |-> i] \in Seq(Nat)
      <4>1. k \in Nat /\ [i \in 1 .. k |-> i] \in [1 .. k -> Nat]
        BY MaxValuesAssumption
      <4> QED BY <4>1
    <3> QED BY <3>1 DEF Container!Added
  <2>2. parameters \in [Params -> Seq(Nat) \cup {None}]
    BY <1>4, <2>1
  <2>3. left \subseteq Params
    BY <1>4 DEF Container!Present
  <2>4. lines \in Seq(LineSet) /\ Len(lines) = 0
    BY <1>4
  <2>5. ContainerType
    BY <1>1, <1>2, <1>4, <2>2, <2>3, <2>4 DEF ContainerType
  <2>6. Container!Present(parameters) \ left = {}
    BY <1>4
  <2>7. WrittenSoFar
    BY <1>1, <1>4, <2>6, NothingWritten DEF WrittenSoFar
  <2> QED BY <1>4, <2>5, <2>7 DEF ContainerInv, Taken, WrittenBefore
<1> QED BY <1>3, <1>4 DEF Container!Init

(* The line that is taken, and what taking it leaves alone.                *)
LEMMA TakenLine ==
  ASSUME ContainerInv, Container!TakeLine
  PROVE  /\ lines \in Seq(LineSet) /\ next \in Nat /\ next + 1 <= Len(lines)
         /\ Container!Line = lines[next + 1]
         /\ lines[next + 1] \in LineSet /\ lines[next + 1].vals \in Seq(Nat)
         /\ lines[next + 1].open \in BOOLEAN
         /\ phase \in {"read", "reread"} /\ wn \in {"param", "cont"}
         /\ phase' = phase /\ lines' = lines /\ next' = next + 1
         /\ original' = original /\ left' = left
         /\ Inside(lines, next, wn, param_name, values)
         /\ ReadAs(lines, next, parameters)
<1>1. /\ lines \in Seq(LineSet) /\ next \in Nat /\ next + 1 <= Len(lines)
      /\ phase \in {"read", "reread"} /\ wn \in {"param", "cont"}
  BY DEF ContainerInv, ContainerType, Container!TakeLine, Container!Reading
<1>2. lines[next + 1] \in LineSet /\ lines[next + 1].vals \in Seq(Nat) /\ lines[next + 1].open \in BOOLEAN
  <2>1. next + 1 \in 1 .. Len(lines)
    BY <1>1
  <2> QED BY <1>1, <2>1, LineIs
<1>3. Inside(lines, next, wn, param_name, values) /\ ReadAs(lines, next, parameters)
  BY <1>1 DEF ContainerInv, Taken
<1> QED BY <1>1, <1>2, <1>3 DEF Container!TakeLine, Container!Line

(* In lines that were written, a line is a heading or not as it should.    *)
LEMMA TakenWritten ==
  ASSUME ContainerInv, Container!TakeLine, phase = "reread"
  PROVE  /\ lines[next + 1].kind \in {"heading", "values"}
         /\ lines[next + 1].kind = "heading" <=> wn = "param"
         /\ lines[next + 1].kind = "values" => lines[next + 1].vals # <<>>
         /\ lines[next + 1].kind = "heading" /\ ~lines[next + 1].open /\ lines[next + 1].vals = <<>> =>
              original[lines[next + 1].name] = <<>>
<1> DEFINE k == next + 1
<1>1. k \in 1 .. Len(lines) /\ k - 1 = next /\ (k = 1 <=> ~(next >= 1))
  BY TakenLine
<1>2. Readable(lines, original) /\ (wn = "cont" <=> next >= 1 /\ lines[next].open)
  BY TakenLine DEF ContainerInv, WrittenBefore
<1>3. wn \in {"param", "cont"}
  BY TakenLine
<1> SUFFICES /\ lines[k].kind \in {"heading", "values"}
             /\ lines[k].kind = "heading" <=> wn = "param"
             /\ lines[k].kind = "values" => lines[k].vals # <<>>
             /\ lines[k].kind = "heading" /\ ~lines[k].open /\ lines[k].vals = <<>> =>
                  original[lines[k].name] = <<>>
  OBVIOUS
<1> HIDE DEF k
<1>4. /\ lines[k].kind \in {"heading", "values"}
      /\ lines[k].kind = "heading" <=> (k = 1 \/ ~lines[k - 1].open)
      /\ lines[k].kind = "values" => lines[k].vals # <<>>
      /\ lines[k].kind = "heading" /\ ~lines[k].open /\ lines[k].vals = <<>> =>
           original[lines[k].name] = <<>>
  BY <1>1, <1>2 DEF Readable
<1> QED BY <1>1, <1>2, <1>3, <1>4

LEMMA TakenStep ==
  ASSUME ContainerInv, Container!TakeLine,
         wn' \in {"param", "cont"}, wn' = "cont" => param_name' \in Params,
         values' \in Seq(Nat), parameters' \in [Params -> Seq(Nat) \cup {None}],
         Inside(lines, next + 1, wn', param_name', values'),
         ReadAs(lines, next + 1, parameters'),
         phase = "reread" => (wn' = "cont" <=> lines[next + 1].open)
  PROVE  ContainerInv'
<1>1. /\ lines' = lines /\ next' = next + 1 /\ phase' = phase
      /\ original' = original /\ left' = left
      /\ phase \in {"read", "reread"} /\ next \in Nat /\ next + 1 <= Len(lines)
  BY TakenLine
<1>2. next + 1 \in 0 .. Len(lines) /\ next + 1 >= 1 /\ Len(lines) \in Nat
  <2>1. lines \in Seq(LineSet)
    BY TakenLine
  <2> QED BY <1>1, <2>1
<1>3. ContainerType'
  BY <1>1, <1>2 DEF ContainerInv, ContainerType
<1>4. Taken'
  BY <1>1 DEF Taken
<1>5. WrittenBefore'
  <2> SUFFICES ASSUME phase = "reread" PROVE WrittenBefore'
    BY <1>1 DEF WrittenBefore
  <2>1. Readable(lines, original) /\ Holds(lines, original, Container!Present(original))
    BY DEF ContainerInv, WrittenBefore
  <2>2. Readable(lines', original') /\ Holds(lines', original', Container!Present(original)')
    BY <1>1, <2>1 DEF Container!Present
  <2>3. next' >= 1 /\ lines'[next'] = lines[next + 1]
    BY <1>1, <1>2
  <2>4. wn' = "cont" <=> next' >= 1 /\ lines'[next'].open
    BY <2>3
  <2>5. wn' # "failed"
    OBVIOUS
  <2> QED BY <2>2, <2>4, <2>5 DEF WrittenBefore
<1> QED BY <1>1, <1>3, <1>4, <1>5 DEF ContainerInv, WrittenSoFar

LEMMA SkipLineStep == ContainerInv /\ Container!SkipLine => ContainerInv'
<1> SUFFICES ASSUME ContainerInv, Container!SkipLine PROVE ContainerInv'
  OBVIOUS
<1>1. /\ Container!TakeLine /\ wn' = wn /\ param_name' = param_name
      /\ values' = values /\ parameters' = parameters
  BY DEF Container!SkipLine
<1> DEFINE line == lines[next + 1]
<1>2. line = Container!Comment \/ (line = Container!Blank /\ wn = "param")
  BY <1>1, TakenLine DEF Container!SkipLine, Container!Skipped
<1>3. /\ wn \in {"param", "cont"} /\ (wn = "cont" => param_name \in Params)
      /\ values \in Seq(Nat) /\ parameters \in [Params -> Seq(Nat) \cup {None}]
  BY <1>1, TakenLine DEF ContainerInv, ContainerType
<1>4. phase # "reread"
  <2> SUFFICES ASSUME phase = "reread" PROVE FALSE
    OBVIOUS
  <2>1. line.kind \in {"heading", "values"} /\ (line.kind = "heading" <=> wn = "param")
    BY <1>1, TakenWritten
  <2> HIDE DEF line
  <2> QED BY <1>2, <2>1 DEF Container!Comment, Container!Blank, Container!Values
<1>5. Inside(lines, next + 1, wn, param_name, values) /\ ReadAs(lines, next + 1, parameters)
  <2>1. CASE line = Container!Comment
    <3>1. line.open /\ line.kind # "heading" /\ line.vals = <<>>
      BY <2>1 DEF Container!Comment
    <3>2. values \o line.vals = values
      BY <1>3, <3>1
    <3>3. Inside(lines, next + 1, wn, param_name, values \o line.vals)
      BY <1>1, <3>1, TakenLine, InsideContinues
    <3>4. ReadAs(lines, next + 1, parameters)
      BY <1>1, <3>1, TakenLine, ReadAsSame
    <3> QED BY <3>2, <3>3, <3>4
  <2>2. CASE line = Container!Blank /\ wn = "param"
    <3>1. ~line.open /\ line.kind # "heading"
      BY <2>2 DEF Container!Blank, Container!Values
    <3>2. Inside(lines, next + 1, wn, param_name, values)
      BY <1>1, <2>2, <3>1, TakenLine, InsideClosed
    <3>3. \A b \in 1 .. next : ~OpenTo(lines, b, next)
      BY <1>1, <2>2, TakenLine DEF Inside
    <3>4. ReadAs(lines, next + 1, parameters)
      BY <1>1, <3>1, <3>3, TakenLine, ReadAsSame
    <3> QED BY <3>2, <3>4
  <2> QED BY <1>2, <2>1, <2>2
<1> QED BY <1>1, <1>3, <1>4, <1>5, TakenStep

LEMMA HeadingLineStep == ContainerInv /\ Container!HeadingLine => ContainerInv'
<1> SUFFICES ASSUME ContainerInv, Container!HeadingLine PROVE ContainerInv'
  OBVIOUS
<1> DEFINE line == lines[next + 1]
<1>1. /\ Container!TakeLine /\ wn = "param" /\ line.kind = "heading"
      /\ param_name' = line.name /\ values' = line.vals
      /\ IF line.open
           THEN wn' = "cont" /\ UNCHANGED parameters
           ELSE parameters' = [parameters EXCEPT ![line.name] = line.vals] /\ UNCHANGED wn
  BY TakenLine DEF Container!HeadingLine
<1>2. line.name \in Params /\ line.vals \in Seq(Nat) /\ line.open \in BOOLEAN
  BY <1>1, TakenLine DEF LineSet
<1>3. parameters \in [Params -> Seq(Nat) \cup {None}]
  BY DEF ContainerInv, ContainerType
<1>4. \A b \in 1 .. next : ~OpenTo(lines, b, next)
  BY <1>1, TakenLine DEF Inside
<1>5. CASE line.open
  <2>1. wn' = "cont" /\ parameters' = parameters
    BY <1>1, <1>5
  <2>2. Inside(lines, next + 1, "cont", line.name, line.vals)
    BY <1>1, <1>5, TakenLine, InsideHeading
  <2>3. ReadAs(lines, next + 1, parameters)
    BY <1>1, <1>5, TakenLine, ReadAsSame
  <2> QED BY <1>1, <1>2, <1>3, <1>5, <2>1, <2>2, <2>3, TakenStep
<1>6. CASE ~line.open
  <2>1. wn' = "param" /\ parameters' = [parameters EXCEPT ![line.name] = line.vals]
    BY <1>1, <1>6
  <2>2. Inside(lines, next + 1, "param", line.name, line.vals)
    BY <1>1, <1>6, TakenLine, InsideClosed
  <2>3. ReadAs(lines, next + 1, parameters')
    <3> DEFINE b == next + 1
    <3>1. b \in 1 .. next + 1 /\ b \in 1 .. Len(lines) /\ b \in b .. Len(lines) /\ next + 1 = b
      BY <1>1, TakenLine
    <3>2. lines[b].kind = "heading" /\ lines[b].name \in Params /\ ~lines[b].open
      BY <1>1, <1>2, <1>6
    <3>3. lines[b].vals \in Seq(Nat)
      BY <1>2
    <3>4. parameters' = [parameters EXCEPT ![lines[b].name] = lines[b].vals]
      BY <2>1
    <3>5. ReadAs(lines, next, parameters) /\ lines \in Seq(LineSet) /\ next \in Nat /\ next + 1 <= Len(lines)
      BY <1>1, TakenLine
    <3> HIDE DEF b, line
    <3>6. Kept(lines, b)[b] = lines[b].vals
      <4>1. Kept(lines, b)[b] = Kept(lines, b)[b - 1] \o lines[b].vals /\ Kept(lines, b)[b - 1] = <<>>
        BY <3>1, <3>5, KeptIs
      <4>2. Kept(lines, b)[b] = <<>> \o lines[b].vals
        BY <4>1
      <4> QED BY <3>3, <4>2
    <3>7. Defines(lines, lines[b].name, b, next + 1)
      <4>1. \A k \in b .. next + 1 : k = b /\ ~(k < next + 1)
        BY <3>1, <3>5
      <4> QED BY <3>2, <4>1 DEF Defines
    <3>8. \A c \in 1 .. next : OpenTo(lines, c, next) => c = b
      BY <1>4
    <3>9. ReadAs(lines, next + 1, [parameters EXCEPT ![lines[b].name] = Kept(lines, b)[next + 1]])
      BY <1>3, <3>1, <3>2, <3>5, <3>7, <3>8, ReadAsNew
    <3>10. Kept(lines, b)[next + 1] = lines[b].vals
      BY <3>1, <3>6
    <3> QED BY <3>4, <3>9, <3>10
  <2>4. parameters' \in [Params -> Seq(Nat) \cup {None}]
    BY <1>2, <1>3, <2>1
  <2> QED BY <1>1, <1>2, <1>6, <2>1, <2>2, <2>3, <2>4, TakenStep
<1> QED BY <1>5, <1>6

LEMMA ContinueStep == ContainerInv /\ Container!Continue => ContainerInv'
<1> SUFFICES ASSUME ContainerInv, Container!Continue PROVE ContainerInv'
  OBVIOUS
<1> DEFINE line == lines[next + 1]
<1>1. /\ Container!TakeLine /\ wn = "cont" /\ line.kind = "values"
      /\ param_name' = param_name /\ values' = values \o line.vals
      /\ IF line.open
           THEN wn' = "cont" /\ UNCHANGED parameters
           ELSE wn' = "param" /\ parameters' = [parameters EXCEPT ![param_name] = values']
  BY TakenLine DEF Container!Continue
<1>2. line.vals \in Seq(Nat) /\ line.open \in BOOLEAN
  BY <1>1, TakenLine
<1>3. /\ parameters \in [Params -> Seq(Nat) \cup {None}]
      /\ values \in Seq(Nat) /\ param_name \in Params
  BY <1>1 DEF ContainerInv, ContainerType
<1>4. values' \in Seq(Nat)
  BY <1>1, <1>2, <1>3
<1>5. line.kind # "heading"
  BY <1>1
<1>6. CASE line.open
  <2>1. wn' = "cont" /\ parameters' = parameters
    BY <1>1, <1>6
  <2>2. Inside(lines, next + 1, wn, param_name, values \o line.vals)
    BY <1>1, <1>5, <1>6, TakenLine, InsideContinues
  <2>3. Inside(lines, next + 1, wn', param_name', values')
    BY <1>1, <2>1, <2>2
  <2>4. ReadAs(lines, next + 1, parameters')
    BY <1>1, <1>6, <2>1, TakenLine, ReadAsSame
  <2> QED BY <1>1, <1>3, <1>4, <1>6, <2>1, <2>3, <2>4, TakenStep
<1>7. CASE ~line.open
  <2>1. wn' = "param" /\ parameters' = [parameters EXCEPT ![param_name] = values']
    BY <1>1, <1>7
  <2>2. Inside(lines, next + 1, "param", param_name', values')
    BY <1>1, <1>7, TakenLine, InsideClosed
  <2>3. ReadAs(lines, next + 1, parameters')
    <3>1. /\ ReadAs(lines, next, parameters) /\ lines \in Seq(LineSet)
          /\ next \in Nat /\ next + 1 <= Len(lines)
          /\ Inside(lines, next, wn, param_name, values)
      BY <1>1, TakenLine
    <3>2. PICK b \in 1 .. next :
            /\ OpenTo(lines, b, next) /\ lines[b].name = param_name
            /\ values = Kept(lines, b)[next]
            /\ \A c \in 1 .. next : OpenTo(lines, c, next) => c = b
      BY <1>1, <3>1 DEF Inside
    <3>3. b \in 1 .. next + 1 /\ b \in 1 .. Len(lines)
      BY <3>1
    <3>4. Kept(lines, b)[next + 1] = values'
      <4> DEFINE k == next + 1
      <4>1. k \in b .. Len(lines) /\ k - 1 = next
        BY <3>1
      <4>2. values' = values \o lines[k].vals
        BY <1>1
      <4> HIDE DEF k
      <4>3. Kept(lines, b)[k] = Kept(lines, b)[k - 1] \o lines[k].vals
        BY <3>1, <3>3, <4>1, KeptIs
      <4>4. Kept(lines, b)[k] = values'
        BY <3>2, <4>1, <4>2, <4>3
      <4> QED BY <4>4 DEF k
    <3>5. Defines(lines, lines[b].name, b, next + 1)
      <4>1. \A k \in b .. next + 1 : k = next + 1 \/ (k \in b .. next /\ k < next + 1)
        BY <3>1
      <4>2. ~(next + 1 < next + 1)
        BY <3>1
      <4> QED BY <1>7, <3>2, <4>1, <4>2 DEF Defines, OpenTo
    <3>6. lines[b].name \in Params
      BY <1>3, <3>2
    <3>7. ReadAs(lines, next + 1, [parameters EXCEPT ![lines[b].name] = Kept(lines, b)[next + 1]])
      BY <1>3, <1>5, <3>1, <3>2, <3>3, <3>5, <3>6, ReadAsNew
    <3> QED BY <2>1, <3>2, <3>4, <3>7
  <2>4. parameters' \in [Params -> Seq(Nat) \cup {None}]
    BY <1>3, <1>4, <2>1
  <2>5. Inside(lines, next + 1, wn', param_name', values')
    BY <2>1, <2>2
  <2>6. wn' \in {"param", "cont"} /\ wn' # "cont"
    BY <2>1
  <2> QED BY <1>1, <1>4, <1>7, <2>3, <2>4, <2>5, <2>6, TakenStep
<1> QED BY <1>6, <1>7

LEMMA BrokenLineStep == ContainerInv /\ Container!BrokenLine => ContainerInv'
<1> SUFFICES ASSUME ContainerInv, Container!BrokenLine PROVE ContainerInv'
  OBVIOUS
<1> DEFINE line == lines[next + 1]
<1>1. /\ Container!TakeLine /\ wn' = "failed" /\ param_name' = param_name
      /\ values' = values /\ parameters' = parameters
  BY DEF Container!BrokenLine
<1>2. /\ lines' = lines /\ next' = next + 1 /\ phase' = phase
      /\ original' = original /\ left' = left
      /\ phase \in {"read", "reread"} /\ next \in Nat /\ next + 1 <= Len(lines)
      /\ lines \in Seq(LineSet)
  BY <1>1, TakenLine
<1>3. next + 1 \in 0 .. Len(lines)
  BY <1>2
<1>4. ContainerType'
  BY <1>1, <1>2, <1>3 DEF ContainerInv, ContainerType
<1>5. ASSUME phase = "reread" PROVE \E p \in Params : original[p] = <<>>
  <2>1. /\ line.kind \in {"heading", "values"} /\ (line.kind = "heading" <=> wn = "param")
        /\ line.kind = "values" => line.vals # <<>>
        /\ line.kind = "heading" /\ ~line.open /\ line.vals = <<>> => original[line.name] = <<>>
    BY <1>1, <1>5, TakenWritten
  <2>2. /\ Container!Line = line /\ line \in LineSet /\ line.vals \in Seq(Nat)
        /\ wn \in {"param", "cont"} /\ values \in Seq(Nat)
    BY <1>1, TakenLine DEF ContainerInv, ContainerType
  <2> HIDE DEF line
  <2>3. line.kind = "values" => values \o line.vals # <<>>
    BY <2>1, <2>2
  <2>4. line # Container!Invalid
    BY <2>1 DEF Container!Invalid
  <2>5. line.kind = "heading" /\ ~line.open /\ line.vals = <<>>
    BY <2>1, <2>2, <2>3, <2>4 DEF Container!BrokenLine, Container!Broken
  <2>6. line.name \in Params
    BY <2>2, <2>5 DEF LineSet
  <2> QED BY <2>1, <2>5, <2>6
<1>6. WrittenBefore'
  <2> SUFFICES ASSUME phase = "reread" PROVE WrittenBefore'
    BY <1>2 DEF WrittenBefore
  <2>1. Readable(lines, original) /\ Holds(lines, original, Container!Present(original))
    BY DEF ContainerInv, WrittenBefore
  <2>2. Readable(lines', original') /\ Holds(lines', original', Container!Present(original)')
    BY <1>2, <2>1 DEF Container!Present
  <2> QED BY <1>1, <1>2, <1>5, <2>2 DEF WrittenBefore
<1> QED BY <1>1, <1>2, <1>4, <1>6 DEF ContainerInv, Taken, WrittenSoFar

LEMMA AllReadStep == ContainerInv /\ Container!AllRead => ContainerInv'
<1> SUFFICES ASSUME ContainerInv, Container!AllRead PROVE ContainerInv'
  OBVIOUS
<1>1. /\ wn # "failed" /\ next = Len(lines)
      /\ phase \in {"read", "reread"}
      /\ lines' = <<>> /\ next' = 0 /\ wn' = "param" /\ values' = <<>>
      /\ parameters' = parameters /\ original' = original
  BY DEF Container!AllRead
<1>2. /\ lines \in Seq(LineSet) /\ left \subseteq Params
      /\ parameters \in [Params -> Seq(Nat) \cup {None}]
      /\ original \in [Params -> Seq(Nat) \cup {None}]
  BY DEF ContainerInv, ContainerType
<1>3. /\ lines' \in Seq(LineSet) /\ next' \in 0 .. Len(lines') /\ values' \in Seq(Nat)
      /\ wn' = "param"
  BY <1>1
<1>4. CASE phase = "read" /\ phase' = "write" /\ left' = Container!Present(parameters)
  <2>1. left' \subseteq Params
    BY <1>4 DEF Container!Present
  <2>2. ContainerType'
    BY <1>1, <1>2, <1>3, <1>4, <2>1 DEF ContainerType
  <2>3. Container!Present(parameters) \ left' = {}
    BY <1>4
  <2>4. /\ Readable(lines', parameters')
        /\ Holds(lines', parameters', Container!Present(parameters) \ left')
    BY <1>1, <2>3, NothingWritten
  <2>5. Container!Present(parameters)' = Container!Present(parameters)
    BY <1>1 DEF Container!Present
  <2>6. WrittenSoFar'
    BY <1>1, <1>4, <2>4, <2>5 DEF WrittenSoFar
  <2> QED BY <1>4, <2>2, <2>6 DEF ContainerInv, Taken, WrittenBefore
<1>5. CASE phase = "reread" /\ phase' = "done" /\ left' = left
  <2>1. ContainerType'
    BY <1>1, <1>2, <1>3, <1>5 DEF ContainerType
  <2>2. ReadAs(lines, Len(lines), parameters)
    BY <1>1, <1>5 DEF ContainerInv, Taken
  <2>3. Holds(lines, original, Container!Present(original))
    BY <1>5 DEF ContainerInv, WrittenBefore
  <2>4. parameters = original
    BY <1>2, <2>2, <2>3, HeldAreRead
  <2>5. parameters' = original'
    BY <1>1, <2>4
  <2> QED BY <1>5, <2>1, <2>5 DEF ContainerInv, Taken, WrittenSoFar, WrittenBefore
<1> QED BY <1>4, <1>5 DEF Container!AllRead

LEMMA WriteParameterStep ==
  ASSUME ContainerInv, NEW p \in Params, Container!WriteParameter(p)
  PROVE  ContainerInv'
<1> DEFINE w == Container!Written(p, parameters[p])
           written == Container!Present(parameters) \ left
<1>1. /\ phase = "write" /\ p \in left
      /\ lines' = lines \o w /\ left' = left \ {p}
      /\ phase' = phase /\ next' = next /\ wn' = wn /\ param_name' = param_name
      /\ values' = values /\ parameters' = parameters /\ original' = original
  BY DEF Container!WriteParameter
<1>2. /\ next = 0 /\ wn = "param" /\ left \subseteq Container!Present(parameters)
      /\ Readable(lines, parameters) /\ Holds(lines, parameters, written)
  BY <1>1 DEF ContainerInv, WrittenSoFar
<1>3. /\ lines \in Seq(LineSet) /\ left \subseteq Params
      /\ parameters \in [Params -> Seq(Nat) \cup {None}]
      /\ original \in [Params -> Seq(Nat) \cup {None}] /\ values \in Seq(Nat)
  BY DEF ContainerInv, ContainerType
<1>4. parameters[p] \in Seq(Nat)
  BY <1>1, <1>2, <1>3 DEF Container!Present
<1>5. IsWritten(w, p, parameters[p])
  BY <1>4, WrittenIs
<1>6. p \notin written /\ written \cup {p} = Container!Present(parameters) \ left'
  BY <1>1, <1>2
<1> HIDE DEF w, written
<1>7. Readable(lines \o w, parameters)
  BY <1>2, <1>3, <1>5, WrittenIsReadable
<1>8. Holds(lines \o w, parameters, written \cup {p})
  BY <1>2, <1>3, <1>5, <1>6, WrittenIsHeld
<1>9. lines' \in Seq(LineSet) /\ next' \in 0 .. Len(lines')
  <2>1. w \in Seq(LineSet)
    BY <1>5 DEF IsWritten
  <2>2. lines' \in Seq(LineSet)
    BY <1>1, <1>3, <2>1
  <2> QED BY <1>1, <1>2, <2>2
<1>10. left' \subseteq Params
  BY <1>1, <1>3
<1>11. ContainerType'
  BY <1>1, <1>2, <1>3, <1>9, <1>10 DEF ContainerType
<1>12. Container!Present(parameters)' = Container!Present(parameters)
  BY <1>1 DEF Container!Present
<1>13. left' \subseteq Container!Present(parameters)
  BY <1>1, <1>2
<1>14. /\ Readable(lines', parameters')
       /\ Holds(lines', parameters', Container!Present(parameters) \ left')
  BY <1>1, <1>6, <1>7, <1>8
<1>15. WrittenSoFar'
  BY <1>1, <1>2, <1>12, <1>13, <1>14 DEF WrittenSoFar
<1> QED BY <1>1, <1>11, <1>15 DEF ContainerInv, Taken, WrittenBefore

LEMMA ReadAgainStep == ContainerInv /\ Container!ReadAgain => ContainerInv'
<1> SUFFICES ASSUME ContainerInv, Container!ReadAgain PROVE ContainerInv'
  OBVIOUS
<1>1. /\ phase = "write" /\ left = {} /\ phase' = "reread"
      /\ original' = parameters /\ parameters' = Container!NoParameters
      /\ lines' = lines /\ next' = next /\ wn' = wn /\ param_name' = param_name
      /\ values' = values /\ left' = left
  BY DEF Container!ReadAgain
<1>2. /\ next = 0 /\ wn = "param" /\ Readable(lines, parameters)
      /\ Holds(lines, parameters, Container!Present(parameters) \ left)
  BY <1>1 DEF ContainerInv, WrittenSoFar
<1>3. ContainerType'
  BY <1>1, NoParametersIs DEF ContainerInv, ContainerType
<1>4. lines \in Seq(LineSet)
  BY DEF ContainerInv, ContainerType
<1>5. Taken'
  <2>1. Inside(lines, 0, "param", param_name, values) /\ ReadAs(lines, 0, Container!NoParameters)
    BY <1>4, NothingRead
  <2>2. Inside(lines', next', wn', param_name', values') /\ ReadAs(lines', next', parameters')
    BY <1>1, <1>2, <2>1
  <2> QED BY <2>2 DEF Taken
<1>6. WrittenBefore'
  <2>1. Container!Present(parameters) \ left = Container!Present(parameters)
    BY <1>1
  <2>2. Container!Present(original)' = Container!Present(parameters)
    BY <1>1 DEF Container!Present
  <2>3. Readable(lines', original') /\ Holds(lines', original', Container!Present(original)')
    BY <1>1, <1>2, <2>1, <2>2
  <2>4. wn' = "param" /\ ~(next' >= 1)
    BY <1>1, <1>2
  <2> QED BY <2>3, <2>4 DEF WrittenBefore
<1> QED BY <1>1, <1>3, <1>5, <1>6 DEF ContainerInv, WrittenSoFar

LEMMA ContainerStep == ContainerInv /\ Container!Next => ContainerInv'
BY SkipLineStep, HeadingLineStep, ContinueStep, BrokenLineStep, AllReadStep,
   WriteParameterStep, ReadAgainStep DEF Container!Next

LEMMA ContainerStutter == ContainerInv /\ UNCHANGED container => ContainerInv'
<1> SUFFICES ASSUME ContainerInv, UNCHANGED container PROVE ContainerInv'
  OBVIOUS
<1>1. /\ phase' = phase /\ lines' = lines /\ next' = next /\ wn' = wn
      /\ param_name' = param_name /\ values' = values /\ parameters' = parameters
      /\ original' = original /\ left' = left
  BY DEF container
<1>2. Container!Present(parameters)' = Container!Present(parameters)
      /\ Container!Present(original)' = Container!Present(original)
  BY <1>1 DEF Container!Present
<1>3. ContainerType'
  BY <1>1 DEF ContainerInv, ContainerType
<1>4. Taken'
  BY <1>1 DEF ContainerInv, Taken
<1>5. WrittenSoFar'
  BY <1>1, <1>2 DEF ContainerInv, WrittenSoFar
<1>6. WrittenBefore'
  BY <1>1, <1>2 DEF ContainerInv, WrittenBefore
<1> QED BY <1>1, <1>3, <1>4, <1>5, <1>6 DEF ContainerInv

LEMMA NoContainerInv == NoContainer => ContainerInv
<1> SUFFICES ASSUME NoContainer PROVE ContainerInv
  OBVIOUS
<1>1. lines \in Seq(LineSet) /\ next \in 0 .. Len(lines) /\ values \in Seq(Nat)
  BY DEF NoContainer
<1> QED BY <1>1, NoParametersIs
        DEF NoContainer, ContainerInv, ContainerType, Taken, WrittenSoFar, WrittenBefore

LEMMA ContainerInvCorrect == ParametersSpec => []ContainerInv
<1>1. ParametersInit => ContainerInv
  BY ContainerInit, NoContainerInv DEF ParametersInit
<1>2. ContainerInv /\ [ParametersNext]_<<topic, vars, container, tables>> => ContainerInv'
  <2> SUFFICES ASSUME ContainerInv, [ParametersNext]_<<topic, vars, container, tables>>
               PROVE  ContainerInv'
    OBVIOUS
  <2>1. CASE Container!Next
    BY <2>1, ContainerStep
  <2>2. CASE UNCHANGED container
    BY <2>2, ContainerStutter
  <2> QED BY <2>1, <2>2 DEF ParametersNext
<1> QED BY <1>1, <1>2, PTL DEF ParametersSpec

(* SParContainer::fromContainer: of whatever lines, with comments, empty   *)
(* lines and several definitions of a parameter, each parameter has the    *)
(* values of the last definition that was read to its end, from all of its *)
(* lines.                                                                  *)
THEOREM AsWrittenCorrect == ParametersSpec => []ParametersAsWritten
<1>1. ContainerInv => ParametersAsWritten
  <2> SUFFICES ASSUME ContainerInv, phase \in {"read", "reread"}, wn # "failed",
                      NEW p \in Params
               PROVE  LET definitions == {d \in (1 .. next) \X (1 .. next) :
                            d[1] <= d[2] /\ Container!IsDefinition(p, d[1], d[2])}
                      IN IF parameters[p] = None
                           THEN definitions = {}
                           ELSE \E d \in definitions :
                                  /\ \A c \in definitions : c[1] <= d[1]
                                  /\ parameters[p] = Container!ValuesIn(d[1], d[2])
    BY Zenon DEF ParametersAsWritten, Container!ParametersAsWritten
  <2> DEFINE definitions == {d \in (1 .. next) \X (1 .. next) :
                               d[1] <= d[2] /\ Container!IsDefinition(p, d[1], d[2])}
  <2>1. Latest(lines, next, p, parameters[p])
    BY DEF ContainerInv, Taken, ReadAs
  <2>2. ASSUME NEW b, NEW e
        PROVE  /\ Container!IsDefinition(p, b, e) = Defines(lines, p, b, e)
               /\ Container!ValuesIn(b, e) = Kept(lines, b)[e]
    BY Zenon DEF Container!IsDefinition, Defines, Container!ValuesIn, Kept
  <2>3. ASSUME NEW d \in definitions
        PROVE  d[1] \in 1 .. next /\ d[2] \in 1 .. next /\ d[1] <= d[2] /\ Defines(lines, p, d[1], d[2])
    BY <2>2
  <2>4. ASSUME NEW b \in 1 .. next, NEW e \in 1 .. next, b <= e, Defines(lines, p, b, e)
        PROVE  <<b, e>> \in definitions
    BY <2>2, <2>4
  <2> HIDE DEF definitions
  <2>5. CASE parameters[p] = None
    <3>1. definitions = {}
      BY <2>1, <2>3, <2>5 DEF Latest
    <3> QED BY <2>5, <3>1 DEF definitions
  <2>6. CASE parameters[p] # None
    <3>1. PICK b, e \in 1 .. next :
            /\ b <= e /\ Defines(lines, p, b, e) /\ parameters[p] = Kept(lines, b)[e]
            /\ \A c, d \in 1 .. next : c <= d /\ Defines(lines, p, c, d) => c <= b
      BY <2>1, <2>6 DEF Latest
    <3> DEFINE d == <<b, e>>
    <3>2. d \in definitions /\ d[1] = b /\ d[2] = e
      BY <2>4, <3>1
    <3>3. \A c \in definitions : c[1] <= d[1]
      BY <2>3, <3>1
    <3>4. parameters[p] = Container!ValuesIn(d[1], d[2])
      BY <2>2, <3>1, <3>2
    <3> HIDE DEF d
    <3>5. \E x \in definitions :
            /\ \A c \in definitions : c[1] <= x[1]
            /\ parameters[p] = Container!ValuesIn(x[1], x[2])
      BY <3>2, <3>3, <3>4
    <3> QED BY <2>6, <3>5, Zenon DEF definitions
  <2> QED BY <2>5, <2>6
<1> QED BY <1>1, ContainerInvCorrect, PTL

(* SParContainer::toContainer and fromContainer: parameters that are       *)
(* written and read again are the same, in lines of any length, whatever   *)
(* the order they are written in.                                          *)
THEOREM RoundTripCorrect == ParametersSpec => []RoundTrip
<1>1. ContainerInv => RoundTrip
  BY DEF ContainerInv, WrittenBefore, RoundTrip, Container!RoundTrip
<1> QED BY <1>1, ContainerInvCorrect, PTL
-----------------------------------------------------------------------------
(* No versions at all are a case of Inv, so that a program which has them  *)
(* beside containers and tables keeps what is proved of them alone.        *)
LEMMA NoVersionsInv == NoVersions => Inv
<1> SUFFICES ASSUME NoVersions PROVE Inv
  OBVIOUS
<1>1. list \in Seq(Ranges) /\ Len(list) = 0 /\ Versions = {} /\ pc = "ready"
      /\ validity = <<>> /\ cache = NoVersion /\ n = 1
      /\ cont_map = [t \in Time |-> NoVersion] /\ runid = NoCall /\ answer = NoVersion
  BY DEF NoVersions, Versions
<1>2. validity \in [Versions -> [from : Time, to : Time]]
  <2>1. DOMAIN <<>> = {}
    OBVIOUS
  <2> QED BY <1>1
<1>3. TypeOK
  BY <1>1, <1>2, MaxVersionsAssumption DEF TypeOK
<1>4. FoundAtItsBeginning
  BY <1>1 DEF FoundAtItsBeginning
<1> QED BY <1>1, <1>3, <1>4, NoVersionAssumption
        DEF Inv, Truncation, Remembered, Keyed, Inserted, NotAsked, AnswerIsValid

(* SParRootSource, as above, in a program that reads containers and tables *)
(* too.                                                                    *)
THEOREM VersionsCorrect ==
  ParametersSpec =>
    [](RangesDisjoint /\ LatestVersionKept /\ AnswerIsValid /\ FoundAtItsBeginning)
<1>1. ParametersInit => Inv
  BY InitInv, NoVersionsInv DEF ParametersInit
<1>2. Inv /\ UNCHANGED vars => Inv'
  BY DEF vars, Inv, TypeOK, Truncation, Through, Remembered, Keyed, Inserted, NotAsked,
         AnswerIsValid, FoundAtItsBeginning, IsValid, Ordered, Versions
<1>3. Inv /\ [ParametersNext]_<<topic, vars, container, tables>> => Inv'
  BY <1>2, TruncateStep, AllTruncatedStep, InsertStep, AllInsertedStep, GetContainerStep
     DEF Next, ParametersNext
<1>4. Inv => RangesDisjoint /\ LatestVersionKept /\ AnswerIsValid /\ FoundAtItsBeginning
  BY DisjointInv, LatestInv DEF Inv
<1> QED BY <1>1, <1>3, <1>4, PTL DEF ParametersSpec
-----------------------------------------------------------------------------
(* The parameters' tables: what the model computes.  The numbers of the    *)
(* fibres, and lists one after the other.                                  *)

(* The fibres of the first layers, one layer at a time.                    *)
LEMMA UpToIs ==
  ASSUME NEW s \in Seq(Nat)
  PROVE  /\ Tables!UpTo(s)[0] = 0
         /\ \A k \in 1 .. Len(s) : Tables!UpTo(s)[k] = Tables!UpTo(s)[k - 1] + s[k]
         /\ \A k \in 0 .. Len(s) : Tables!UpTo(s)[k] \in Nat
<1> DEFINE Body(f, k) == IF k = 0 THEN 0 ELSE f[k - 1] + s[k]
           size == Len(s)
           Solves(f, p) == f \in [0 .. p -> Nat] /\ \A k \in 0 .. p : f[k] = Body(f, k)
           S == {p \in Nat : p <= size => \E f : Solves(f, p)}
<1>1. size \in Nat /\ \A k \in 1 .. size : s[k] \in Nat
  OBVIOUS
<1> HIDE DEF size
<1>2. 0 \in S
  <2>1. Solves([k \in 0 .. 0 |-> 0], 0)
    OBVIOUS
  <2> HIDE DEF Solves
  <2> QED BY <2>1
<1>3. ASSUME NEW p \in Nat, p \in S PROVE p + 1 \in S
  <2> HIDE DEF Solves
  <2> SUFFICES ASSUME p + 1 <= size PROVE \E f : Solves(f, p + 1)
    OBVIOUS
  <2>1. p + 1 \in 1 .. size /\ p <= size
    BY <1>1
  <2>2. PICK f : Solves(f, p)
    BY <1>3, <2>1
  <2> USE DEF Solves
  <2> DEFINE g == [k \in 0 .. p + 1 |-> IF k = p + 1 THEN Body(f, k) ELSE f[k]]
  <2>3. Body(f, p + 1) \in Nat
    <3>1. f[p] \in Nat /\ s[p + 1] \in Nat /\ (p + 1) - 1 = p /\ p + 1 # 0
      BY <1>1, <2>1, <2>2
    <3> QED BY <3>1
  <2> HIDE DEF Body
  <2>4. \A k \in 0 .. p + 1 : k = p + 1 \/ k \in 0 .. p
    OBVIOUS
  <2>5. g \in [0 .. p + 1 -> Nat]
    BY <2>2, <2>3, <2>4
  <2>6. ASSUME NEW k \in 0 .. p + 1 PROVE g[k] = Body(g, k)
    <3>1. g[k] = Body(f, k)
      BY <2>2, <2>4
    <3>2. k = 0 \/ (k - 1 \in 0 .. p + 1 /\ k - 1 # p + 1 /\ g[k - 1] = f[k - 1])
      OBVIOUS
    <3> HIDE DEF g
    <3> QED BY <3>1, <3>2 DEF Body
  <2> HIDE DEF g
  <2>7. Solves(g, p + 1)
    BY <2>5, <2>6
  <2> HIDE DEF Solves
  <2> QED BY <2>7
<1> HIDE DEF S, Solves, Body
<1>4. PICK f : Solves(f, size)
  <2>1. Nat \subseteq S
    BY <1>2, <1>3, NatIsIn
  <2> QED BY <1>1, <2>1 DEF S
<1> DEFINE sum == CHOOSE h : h = [k \in 0 .. size |-> Body(h, k)]
<1>5. f = [k \in 0 .. size |-> Body(f, k)]
  BY <1>4 DEF Solves
<1>6. sum = [k \in 0 .. size |-> Body(sum, k)]
  BY <1>5
<1>7. Tables!UpTo(s) = sum
  BY DEF Tables!UpTo, Body, size
<1> HIDE DEF sum
<1>8. sum[0] = 0
  BY <1>1, <1>6 DEF Body
<1>9. ASSUME NEW k \in 1 .. size PROVE sum[k] = sum[k - 1] + s[k]
  <2>1. k \in 0 .. size /\ k # 0
    BY <1>1
  <2> QED BY <1>6, <2>1 DEF Body
<1> DEFINE T == {p \in Nat : p <= size => sum[p] \in Nat}
<1>10. 0 \in T
  BY <1>8
<1>11. ASSUME NEW p \in Nat, p \in T PROVE p + 1 \in T
  <2> SUFFICES ASSUME p + 1 <= size PROVE sum[p + 1] \in Nat
    OBVIOUS
  <2>1. sum[p] \in Nat /\ p + 1 \in 1 .. size
    BY <1>1, <1>11
  <2>2. s[p + 1] \in Nat /\ (p + 1) - 1 = p
    BY <1>1, <2>1
  <2> QED BY <1>9, <2>1, <2>2
<1> HIDE DEF T
<1>12. Nat \subseteq T
  BY <1>10, <1>11, NatIsIn
<1>13. ASSUME NEW k \in 0 .. size PROVE sum[k] \in Nat
  BY <1>1, <1>12 DEF T
<1> QED BY <1>7, <1>8, <1>9, <1>13 DEF size

(* Sequences one after the other, one at a time.                           *)
Flattens(flat, seqs) ==
  \A k \in 1 .. Len(seqs) : flat[k] = IF k = 1 THEN seqs[k] ELSE flat[k - 1] \o seqs[k]

(* FlattenSeq is this concatenation.                                       *)
LEMMA FlattenIs ==
  ASSUME NEW V, NEW seqs \in Seq(Seq(V))
  PROVE  \E flat \in [1 .. Len(seqs) -> Seq(V)] :
           /\ Flattens(flat, seqs)
           /\ FlattenSeq(seqs) = IF Len(seqs) = 0 THEN <<>> ELSE flat[Len(seqs)]
<1> DEFINE size == Len(seqs)
           Body(f, i) == IF i = 1 THEN seqs[i] ELSE f[i - 1] \o seqs[i]
           flat == CHOOSE f : f = [i \in 1 .. size |-> Body(f, i)]
           Partly(f, m) == /\ f \in [1 .. m -> Seq(V)]
                           /\ \A i \in 1 .. m : f[i] = Body(f, i)
           S == {m \in Nat : m <= size => \E f : Partly(f, m)}
<1>1. size \in Nat /\ \A i \in 1 .. size : seqs[i] \in Seq(V)
  OBVIOUS
<1>2. 0 \in S
  <2>1. 1 .. 0 = {}
    OBVIOUS
  <2>2. [i \in 1 .. 0 |-> <<>>] \in [1 .. 0 -> Seq(V)]
    BY <2>1
  <2>3. Partly([i \in 1 .. 0 |-> <<>>], 0)
    BY <2>1, <2>2
  <2> HIDE DEF Partly
  <2> QED BY <2>3
<1>3. ASSUME NEW m \in Nat, m \in S PROVE m + 1 \in S
  <2> HIDE DEF Partly, size
  <2> SUFFICES ASSUME m + 1 <= size PROVE \E f : Partly(f, m + 1)
    OBVIOUS
  <2>0. m <= size
    BY <1>1
  <2>1. PICK f : Partly(f, m)
    BY <1>3, <2>0
  <2> USE DEF Partly, size
  <2> DEFINE g == [i \in 1 .. m + 1 |-> IF i = m + 1 THEN Body(f, i) ELSE f[i]]
  <2>2. seqs[m + 1] \in Seq(V)
    BY <1>1
  <2>3. Body(f, m + 1) \in Seq(V)
    <3>1. CASE m = 0
      BY <2>2, <3>1
    <3>2. CASE m # 0
      <4>1. m \in 1 .. m /\ (m + 1) - 1 = m /\ m + 1 # 1
        BY <3>2
      <4>2. f[m] \in Seq(V)
        BY <2>1, <4>1
      <4>3. f[m] \o seqs[m + 1] \in Seq(V)
        BY <2>2, <4>2
      <4> QED BY <4>1, <4>3
    <3> QED BY <3>1, <3>2
  <2> HIDE DEF Body
  <2>4. g \in [1 .. m + 1 -> Seq(V)]
    BY <2>1, <2>3
  <2>5. ASSUME NEW i \in 1 .. m + 1 PROVE g[i] = Body(g, i)
    <3>1. g[i] = Body(f, i)
      BY <2>1
    <3>2. i = 1 \/ (i - 1 \in 1 .. m + 1 /\ i - 1 # m + 1 /\ g[i - 1] = f[i - 1])
      OBVIOUS
    <3> HIDE DEF g
    <3> QED BY <3>1, <3>2 DEF Body
  <2> HIDE DEF g
  <2>6. Partly(g, m + 1)
    BY <2>4, <2>5
  <2> HIDE DEF Partly
  <2> QED BY <2>6
<1> HIDE DEF S, Body
<1>4. size \in S
  BY <1>1, <1>2, <1>3, NatIsIn
<1>5. PICK f : Partly(f, size)
  BY <1>1, <1>4 DEF S
<1>6. f = [i \in 1 .. size |-> Body(f, i)]
  BY <1>5
<1>7. flat = [i \in 1 .. size |-> Body(flat, i)]
  BY <1>6
<1>8. FlattenSeq(seqs) = IF size = 0 THEN <<>> ELSE flat[size]
  <2>1. size = 0 => seqs = <<>>
    OBVIOUS
  <2>2. CASE size = 0
    BY <2>1, <2>2 DEF FlattenSeq
  <2>3. CASE size # 0
    BY <2>3 DEF FlattenSeq, Body
  <2> QED BY <2>2, <2>3
<1> HIDE DEF flat
<1> DEFINE T == {m \in Nat : m \in 1 .. size => flat[m] \in Seq(V)}
<1>9. 0 \in T
  OBVIOUS
<1>10. ASSUME NEW m \in Nat, m \in T PROVE m + 1 \in T
  <2> SUFFICES ASSUME m + 1 \in 1 .. size PROVE flat[m + 1] \in Seq(V)
    OBVIOUS
  <2>1. flat[m + 1] = Body(flat, m + 1) /\ seqs[m + 1] \in Seq(V)
    BY <1>1, <1>7
  <2>2. CASE m = 0
    BY <2>1, <2>2 DEF Body
  <2>3. CASE m # 0
    <3>1. m \in 1 .. size /\ (m + 1) - 1 = m /\ m + 1 # 1
      BY <1>1, <2>3
    <3>2. flat[m] \in Seq(V)
      BY <1>10, <3>1
    <3>3. flat[m] \o seqs[m + 1] \in Seq(V)
      BY <2>1, <3>2
    <3> QED BY <2>1, <3>1, <3>3 DEF Body
  <2> QED BY <2>2, <2>3
<1> HIDE DEF T
<1>11. Nat \subseteq T
  BY <1>9, <1>10, NatIsIn
<1>12. flat \in [1 .. size -> Seq(V)]
  <2>1. \A i \in 1 .. size : flat[i] \in Seq(V)
    BY <1>1, <1>11 DEF T
  <2>2. flat = [i \in 1 .. size |-> flat[i]]
    BY <1>7
  <2> QED BY <2>1, <2>2
<1>13. Flattens(flat, seqs)
  BY <1>7 DEF Flattens, Body
<1> QED BY <1>8, <1>12, <1>13

(* What is in one of the sequences is in all of them one after the other,  *)
(* and nothing else.                                                       *)
HasAll(flat, seqs) ==
  /\ \A k \in 1 .. Len(seqs), j \in Nat :
       j \in 1 .. Len(seqs[k]) => \E i \in 1 .. Len(flat) : flat[i] = seqs[k][j]
  /\ \A i \in 1 .. Len(flat) :
       \E k \in 1 .. Len(seqs) : \E j \in 1 .. Len(seqs[k]) : flat[i] = seqs[k][j]

(* The sequences one after the other have all their elements.              *)
LEMMA FlattenHas ==
  ASSUME NEW V, NEW seqs \in Seq(Seq(V))
  PROVE  FlattenSeq(seqs) \in Seq(V) /\ HasAll(FlattenSeq(seqs), seqs)
<1> DEFINE size == Len(seqs)
           Has(s, m) == /\ \A k \in 1 .. m, j \in Nat : j \in 1 .. Len(seqs[k]) => \E i \in 1 .. Len(s) : s[i] = seqs[k][j]
                        /\ \A i \in 1 .. Len(s) : \E k \in 1 .. m : \E j \in 1 .. Len(seqs[k]) : s[i] = seqs[k][j]
<1>1. size \in Nat /\ \A i \in 1 .. size : seqs[i] \in Seq(V)
  OBVIOUS
<1>2. PICK flat \in [1 .. size -> Seq(V)] :
        /\ Flattens(flat, seqs)
        /\ FlattenSeq(seqs) = IF size = 0 THEN <<>> ELSE flat[size]
  BY FlattenIs
<1> HIDE DEF size
<1>3. ASSUME NEW s \in Seq(V), NEW m \in Nat, Has(s, m), m + 1 \in 1 .. size
      PROVE  Has(s \o seqs[m + 1], m + 1)
  <2> DEFINE t == seqs[m + 1]
             st == s \o t
  <2>1. t \in Seq(V) /\ Len(t) \in Nat /\ Len(s) \in Nat
    BY <1>1, <1>3
  <2> HIDE DEF t
  <2>2. /\ Len(st) = Len(s) + Len(t)
        /\ \A i \in 1 .. Len(s) : st[i] = s[i]
        /\ \A i \in 1 .. Len(t) : st[Len(s) + i] = t[i]
    BY <2>1, ConcatProperties
  <2> USE DEF t
  <2>3. ASSUME NEW k \in 1 .. m + 1, NEW j \in 1 .. Len(seqs[k])
        PROVE  \E i \in 1 .. Len(st) : st[i] = seqs[k][j]
    <3> HIDE DEF st
    <3>1. CASE k = m + 1
      <4>1. Len(s) + j \in 1 .. Len(st) /\ st[Len(s) + j] = seqs[k][j]
        BY <2>1, <2>2, <3>1
      <4> QED BY <4>1
    <3>2. CASE k # m + 1
      <4>1. k \in 1 .. m /\ j \in Nat
        BY <3>2
      <4>2. PICK i \in 1 .. Len(s) : s[i] = seqs[k][j]
        BY <1>3, <4>1
      <4>3. i \in 1 .. Len(st) /\ st[i] = s[i]
        BY <2>1, <2>2
      <4> QED BY <4>2, <4>3
    <3> QED BY <3>1, <3>2
  <2>4. ASSUME NEW i \in 1 .. Len(st)
        PROVE  \E k \in 1 .. m + 1 : \E j \in 1 .. Len(seqs[k]) : st[i] = seqs[k][j]
    <3> HIDE DEF st
    <3>1. CASE i \in 1 .. Len(s)
      <4>1. PICK k \in 1 .. m : \E j \in 1 .. Len(seqs[k]) : s[i] = seqs[k][j]
        BY <1>3, <3>1
      <4>2. k \in 1 .. m + 1 /\ st[i] = s[i]
        BY <2>2, <3>1
      <4> QED BY <4>1, <4>2
    <3>2. CASE i \notin 1 .. Len(s)
      <4>1. i - Len(s) \in 1 .. Len(t) /\ Len(s) + (i - Len(s)) = i
        BY <2>1, <2>2, <3>2
      <4>2. m + 1 \in 1 .. m + 1 /\ st[i] = seqs[m + 1][i - Len(s)]
        BY <2>2, <4>1
      <4> QED BY <4>1, <4>2
    <3> QED BY <3>1, <3>2
  <2> QED BY <2>3, <2>4
<1>4. Has(<<>>, 0)
  OBVIOUS
<1> DEFINE T == {m \in Nat : m \in 1 .. size => Has(flat[m], m)}
<1> HIDE DEF Has
<1>5. 0 \in T
  OBVIOUS
<1>6. ASSUME NEW m \in Nat, m \in T PROVE m + 1 \in T
  <2> SUFFICES ASSUME m + 1 \in 1 .. size PROVE Has(flat[m + 1], m + 1)
    OBVIOUS
  <2>1. CASE m = 0
    <3>0. m + 1 = 1 /\ 1 \in 1 .. Len(seqs)
      BY <2>1 DEF size
    <3>1. flat[m + 1] = seqs[m + 1]
      BY <1>2, <3>0 DEF Flattens
    <3>2. <<>> \o seqs[m + 1] = seqs[m + 1] /\ <<>> \in Seq(V)
      BY <1>1, ConcatEmptySeq
    <3> QED BY <1>3, <1>4, <2>1, <3>1, <3>2
  <2>2. CASE m # 0
    <3>1. m \in 1 .. size /\ (m + 1) - 1 = m /\ m + 1 # 1
      BY <1>1, <2>2
    <3>2. flat[m] \in Seq(V) /\ Has(flat[m], m)
      BY <1>2, <1>6, <3>1
    <3>3. flat[m + 1] = flat[m] \o seqs[m + 1]
      BY <1>2, <3>1 DEF Flattens, size
    <3> QED BY <1>3, <3>2, <3>3
  <2> QED BY <2>1, <2>2
<1> HIDE DEF T
<1>7. Nat \subseteq T
  BY <1>5, <1>6, NatIsIn
<1>8. Has(FlattenSeq(seqs), size) /\ FlattenSeq(seqs) \in Seq(V)
  <2>1. CASE size = 0
    <3>1. FlattenSeq(seqs) = <<>> /\ <<>> \in Seq(V)
      BY <1>2, <2>1
    <3> QED BY <1>4, <2>1, <3>1
  <2>2. CASE size # 0
    <3>1. size \in 1 .. size /\ size \in T
      BY <1>1, <1>7, <2>2
    <3> QED BY <1>2, <2>2, <3>1 DEF T
  <2> QED BY <2>1, <2>2
<1> QED BY <1>8 DEF Has, HasAll, size

(* The beginning stays when more sequences follow: the first two.          *)
LEMMA FlattenBegins ==
  ASSUME NEW V, NEW seqs \in Seq(Seq(V))
  PROVE  /\ Len(seqs) >= 1 =>
              /\ Len(FlattenSeq(seqs)) >= Len(seqs[1])
              /\ \A i \in 1 .. Len(seqs[1]) : FlattenSeq(seqs)[i] = seqs[1][i]
         /\ Len(seqs) >= 2 =>
              /\ Len(FlattenSeq(seqs)) >= Len(seqs[1]) + Len(seqs[2])
              /\ \A i \in 1 .. Len(seqs[2]) : FlattenSeq(seqs)[Len(seqs[1]) + i] = seqs[2][i]
         /\ Len(seqs) = 1 => FlattenSeq(seqs) = seqs[1]
         /\ Len(seqs) = 0 => FlattenSeq(seqs) = <<>>
<1> DEFINE size == Len(seqs)
           Begins1(s) == Len(s) >= Len(seqs[1]) /\ \A i \in 1 .. Len(seqs[1]) : s[i] = seqs[1][i]
           Begins2(s) == /\ Len(s) >= Len(seqs[1]) + Len(seqs[2])
                         /\ \A i \in 1 .. Len(seqs[2]) : s[Len(seqs[1]) + i] = seqs[2][i]
<1>1. size \in Nat /\ \A i \in 1 .. size : seqs[i] \in Seq(V) /\ Len(seqs[i]) \in Nat
  OBVIOUS
<1>2. PICK flat \in [1 .. size -> Seq(V)] :
        /\ Flattens(flat, seqs)
        /\ FlattenSeq(seqs) = IF size = 0 THEN <<>> ELSE flat[size]
  BY FlattenIs
<1>3. \A k \in 1 .. size : flat[k] = IF k = 1 THEN seqs[k] ELSE flat[k - 1] \o seqs[k]
  BY <1>2 DEF Flattens
<1>14. size >= 1 => flat[1] = seqs[1] /\ seqs[1] \in Seq(V) /\ Len(seqs[1]) \in Nat
  <2> SUFFICES ASSUME size >= 1 PROVE flat[1] = seqs[1] /\ seqs[1] \in Seq(V) /\ Len(seqs[1]) \in Nat
    OBVIOUS
  <2>1. 1 \in 1 .. size
    BY <1>1
  <2> HIDE DEF size
  <2> QED BY <1>1, <1>3, <2>1
<1>15. size >= 2 => flat[2] = seqs[1] \o seqs[2] /\ seqs[2] \in Seq(V) /\ Len(seqs[2]) \in Nat
  <2> SUFFICES ASSUME size >= 2
               PROVE  flat[2] = seqs[1] \o seqs[2] /\ seqs[2] \in Seq(V) /\ Len(seqs[2]) \in Nat
    OBVIOUS
  <2>1. 2 \in 1 .. size /\ size >= 1 /\ 2 # 1 /\ 2 - 1 = 1
    BY <1>1
  <2> HIDE DEF size
  <2>2. flat[2] = flat[2 - 1] \o seqs[2]
    BY <1>3, <2>1
  <2> QED BY <1>1, <1>14, <2>1, <2>2
<1> HIDE DEF size
<1>4. ASSUME NEW s \in Seq(V), NEW t \in Seq(V)
      PROVE  /\ size >= 1 /\ Begins1(s) => Begins1(s \o t)
             /\ size >= 2 /\ Begins2(s) => Begins2(s \o t)
  <2>1. /\ Len(s \o t) = Len(s) + Len(t) /\ Len(s) \in Nat /\ Len(t) \in Nat
        /\ \A i \in 1 .. Len(s) : (s \o t)[i] = s[i]
    BY ConcatProperties
  <2>2. /\ size >= 1 => Len(seqs[1]) \in Nat
        /\ size >= 2 => Len(seqs[1]) \in Nat /\ Len(seqs[2]) \in Nat
    BY <1>1
  <2> DEFINE st == s \o t
  <2> HIDE DEF st
  <2>3. /\ Len(st) = Len(s) + Len(t) /\ Len(s) \in Nat /\ Len(t) \in Nat
        /\ \A i \in 1 .. Len(s) : st[i] = s[i]
    BY <2>1 DEF st
  <2>4. ASSUME size >= 1, Begins1(s) PROVE Begins1(st)
    <3>1. Len(seqs[1]) \in Nat /\ Len(s) >= Len(seqs[1])
      BY <2>2, <2>4
    <3>2. \A i \in 1 .. Len(seqs[1]) : i \in 1 .. Len(s)
      BY <2>3, <3>1
    <3> QED BY <2>3, <2>4, <3>1, <3>2
  <2>5. ASSUME size >= 2, Begins2(s) PROVE Begins2(st)
    <3> DEFINE p == Len(seqs[1])
               q == Len(seqs[2])
    <3>1. p \in Nat /\ q \in Nat /\ Len(s) >= p + q /\ \A i \in 1 .. q : s[p + i] = seqs[2][i]
      BY <2>2, <2>5
    <3> HIDE DEF p, q
    <3>2. \A i \in 1 .. q : p + i \in 1 .. Len(s)
      BY <2>3, <3>1
    <3>3. Len(st) >= p + q
      BY <2>3, <3>1
    <3>4. ASSUME NEW i \in 1 .. q PROVE st[p + i] = seqs[2][i]
      <4>1. p + i \in 1 .. Len(s)
        BY <3>2
      <4>2. st[p + i] = s[p + i]
        BY <2>3, <4>1
      <4> QED BY <3>1, <4>2
    <3> QED BY <3>3, <3>4 DEF p, q
  <2> QED BY <2>4, <2>5 DEF st
<1> DEFINE T == {m \in Nat : m + 1 <= size => Begins1(flat[m + 1])}
           U == {m \in Nat : m + 2 <= size => Begins2(flat[m + 2])}
<1>5. 0 \in T
  <2> SUFFICES ASSUME 0 + 1 <= size PROVE Begins1(flat[0 + 1])
    OBVIOUS
  <2> QED BY <1>1, <1>14
<1>6. 0 \in U
  <2> SUFFICES ASSUME 0 + 2 <= size PROVE Begins2(flat[0 + 2])
    OBVIOUS
  <2>0. size >= 2 /\ size >= 1 /\ 0 + 2 = 2
    BY <1>1
  <2>1. flat[2] = seqs[1] \o seqs[2] /\ seqs[1] \in Seq(V) /\ seqs[2] \in Seq(V)
    BY <1>14, <1>15, <2>0
  <2>2. Begins2(seqs[1] \o seqs[2])
    <3>1. /\ Len(seqs[1] \o seqs[2]) = Len(seqs[1]) + Len(seqs[2])
          /\ \A i \in 1 .. Len(seqs[2]) : (seqs[1] \o seqs[2])[Len(seqs[1]) + i] = seqs[2][i]
          /\ Len(seqs[1]) \in Nat /\ Len(seqs[2]) \in Nat
      <4> DEFINE s == seqs[1]
                 t == seqs[2]
      <4>1. s \in Seq(V) /\ t \in Seq(V)
        BY <2>1
      <4> HIDE DEF s, t
      <4>2. /\ Len(s \o t) = Len(s) + Len(t)
            /\ \A i \in 1 .. Len(t) : (s \o t)[Len(s) + i] = t[i]
            /\ Len(s) \in Nat /\ Len(t) \in Nat
        BY <4>1, ConcatProperties
      <4> QED BY <4>2 DEF s, t
    <3>2. Len(seqs[1] \o seqs[2]) >= Len(seqs[1]) + Len(seqs[2])
      BY <3>1
    <3> QED BY <3>1, <3>2, Zenon
  <2> QED BY <2>0, <2>1, <2>2
<1> HIDE DEF Begins1, Begins2
<1>7. ASSUME NEW m \in Nat, m \in T PROVE m + 1 \in T
  <2> SUFFICES ASSUME (m + 1) + 1 <= size PROVE Begins1(flat[(m + 1) + 1])
    OBVIOUS
  <2>1. /\ (m + 1) + 1 \in 1 .. size /\ (m + 1) + 1 # 1 /\ ((m + 1) + 1) - 1 = m + 1
        /\ m + 1 \in 1 .. size /\ size >= 1
    BY <1>1
  <2>2. flat[(m + 1) + 1] = flat[m + 1] \o seqs[(m + 1) + 1]
    BY <1>3, <2>1
  <2>3. flat[m + 1] \in Seq(V) /\ seqs[(m + 1) + 1] \in Seq(V) /\ Begins1(flat[m + 1])
    BY <1>1, <1>2, <1>7, <2>1
  <2> QED BY <1>4, <2>1, <2>2, <2>3
<1>8. ASSUME NEW m \in Nat, m \in U PROVE m + 1 \in U
  <2> SUFFICES ASSUME (m + 1) + 2 <= size PROVE Begins2(flat[(m + 1) + 2])
    OBVIOUS
  <2>1. /\ (m + 1) + 2 \in 1 .. size /\ (m + 1) + 2 # 1 /\ ((m + 1) + 2) - 1 = m + 2
        /\ m + 2 \in 1 .. size /\ size >= 2
    BY <1>1
  <2>2. flat[(m + 1) + 2] = flat[m + 2] \o seqs[(m + 1) + 2]
    BY <1>3, <2>1
  <2>3. flat[m + 2] \in Seq(V) /\ seqs[(m + 1) + 2] \in Seq(V) /\ Begins2(flat[m + 2])
    BY <1>1, <1>2, <1>8, <2>1
  <2> QED BY <1>4, <2>1, <2>2, <2>3
<1> HIDE DEF T, U
<1>9. Nat \subseteq T /\ Nat \subseteq U
  <2>1. Nat \subseteq T
    BY <1>5, <1>7, NatIsIn
  <2>2. Nat \subseteq U
    BY <1>6, <1>8, NatIsIn
  <2> QED BY <2>1, <2>2
<1>10. size >= 1 => Begins1(FlattenSeq(seqs))
  <2> SUFFICES ASSUME size >= 1 PROVE Begins1(flat[size])
    BY <1>1, <1>2
  <2>1. size - 1 \in Nat /\ (size - 1) + 1 = size
    BY <1>1
  <2>2. size - 1 \in T
    BY <1>9, <2>1
  <2> QED BY <1>1, <2>1, <2>2 DEF T
<1>11. size >= 2 => Begins2(FlattenSeq(seqs))
  <2> SUFFICES ASSUME size >= 2 PROVE Begins2(flat[size])
    BY <1>1, <1>2
  <2>1. size - 2 \in Nat /\ (size - 2) + 2 = size
    BY <1>1
  <2>2. size - 2 \in U
    BY <1>9, <2>1
  <2> QED BY <1>1, <2>1, <2>2 DEF U
<1>12. size = 1 => FlattenSeq(seqs) = seqs[1]
  BY <1>2, <1>3
<1>13. size = 0 => FlattenSeq(seqs) = <<>>
  BY <1>2
<1> QED BY <1>10, <1>11, <1>12, <1>13 DEF Begins1, Begins2, size
-----------------------------------------------------------------------------
(* The layers: SFibersGeomPar and SFibersDigitizer.                        *)

(* FlattenSeq of the instance is that of the module.                       *)
LEMMA SameFlatten == \A s : Tables!FlattenSeq(s) = FlattenSeq(s)
BY Zenon DEF Tables!FlattenSeq, FlattenSeq

(* The layers before module 1 or 2 in the lists.                           *)
LayersIn(geometry, m) == IF m = 1 THEN 0 ELSE Len(geometry[1])

(* getParams: for the first two modules the index is the place of the      *)
(* layer.                                                                  *)
LEMMA LayerIndexIs ==
  ASSUME setup.geometry \in Seq(Seq(Nat \ {0})), NEW m \in DOMAIN setup.geometry, m <= 2
  PROVE  /\ Tables!LayersBefore(m) = LayersIn(setup.geometry, m)
         /\ \A l \in DOMAIN setup.geometry[m] :
              /\ Tables!LayerIndex(m, l) = LayersIn(setup.geometry, m) + l
              /\ Tables!Lists[LayersIn(setup.geometry, m) + l] = setup.geometry[m][l]
<1> DEFINE G == setup.geometry
           V == Nat \ {0}
           flat == FlattenSeq(G)
           p == LayersIn(G, m)
           own == G[m]
<1>1. G \in Seq(Seq(V)) /\ m \in DOMAIN G /\ DOMAIN G = 1 .. Len(G) /\ Len(G) \in Nat
  OBVIOUS
<1>2. m = 1 \/ m = 2
  BY <1>1
<1>3. own \in Seq(V) /\ Len(own) \in Nat /\ DOMAIN own = 1 .. Len(own)
  <2> HIDE DEF G
  <2>1. own \in Seq(V)
    BY <1>1
  <2> QED BY <2>1
<1>4. Tables!Lists = flat
  BY SameFlatten DEF Tables!Lists
<1>5. Tables!LayersBefore(m) = Len(FlattenSeq(SubSeq(G, 1, m - 1)))
  BY SameFlatten DEF Tables!LayersBefore
<1> HIDE DEF G, flat
<1>6. Len(FlattenSeq(SubSeq(G, 1, m - 1))) = p /\ p \in Nat
  <2>1. CASE m = 1
    <3>1. SubSeq(G, 1, m - 1) = <<>> /\ Len(<<>>) = 0
      BY <1>1, <2>1, SubSeqEmpty
    <3>2. FlattenSeq(<<>>) = <<>>
      BY <3>1 DEF FlattenSeq
    <3>3. FlattenSeq(SubSeq(G, 1, m - 1)) = <<>>
      BY <3>1, <3>2, Zenon
    <3>4. p = 0
      BY <2>1 DEF LayersIn
    <3> QED BY <3>1, <3>3, <3>4
  <2>2. CASE m = 2
    <3>1. m - 1 = 1 /\ 1 \in 1 .. Len(G) /\ G[1] \in Seq(V)
      BY <1>1, <2>2
    <3> DEFINE first == SubSeq(G, 1, 1)
    <3>2. first \in Seq(Seq(V)) /\ Len(first) = 1 /\ first[1] = G[1]
      BY <1>1, <3>1
    <3> HIDE DEF first
    <3>3. FlattenSeq(first) = G[1]
      BY <3>2, FlattenBegins
    <3> QED BY <2>2, <3>1, <3>3 DEF LayersIn, first
  <2> QED BY <1>2, <2>1, <2>2
<1>7. /\ flat \in Seq(V) /\ Len(flat) \in Nat /\ Len(flat) >= p + Len(own)
      /\ \A l \in 1 .. Len(own) : flat[p + l] = own[l]
  <2>1. flat \in Seq(V) /\ Len(flat) \in Nat
    BY <1>1, FlattenHas DEF flat
  <2>2. CASE m = 1
    <3>1. Len(G) >= 1 /\ p = 0 /\ own = G[1]
      BY <1>1, <2>2 DEF LayersIn
    <3>2. Len(flat) >= Len(G[1]) /\ \A l \in 1 .. Len(G[1]) : flat[l] = G[1][l]
      BY <1>1, <3>1, FlattenBegins DEF flat
    <3> HIDE DEF own, p
    <3> QED BY <1>3, <2>1, <3>1, <3>2
  <2>3. CASE m = 2
    <3>1. Len(G) >= 2 /\ p = Len(G[1]) /\ own = G[2]
      BY <1>1, <2>3 DEF LayersIn
    <3>2. Len(flat) >= Len(G[1]) + Len(G[2]) /\ \A l \in 1 .. Len(G[2]) : flat[Len(G[1]) + l] = G[2][l]
      BY <1>1, <3>1, FlattenBegins DEF flat
    <3> HIDE DEF own, p
    <3> QED BY <2>1, <3>1, <3>2
  <2> QED BY <1>2, <2>2, <2>3
<1>8. ASSUME NEW l \in DOMAIN own PROVE Tables!LayerIndex(m, l) = p + l
  <2> HIDE DEF own, p
  <2>1. p * (m - 1) = p
    <3>1. CASE m = 1
      BY <1>6, <3>1 DEF p, LayersIn
    <3>2. CASE m = 2
      BY <1>6, <3>2
    <3> QED BY <1>2, <3>1, <3>2
  <2>5. p \in Nat /\ Len(own) \in Nat /\ Len(flat) \in Nat /\ Len(flat) >= p + Len(own) /\ l \in 1 .. Len(own)
    BY <1>3, <1>6, <1>7
  <2>2. p + (l - 1) < Len(flat) /\ (p + (l - 1)) + 1 = p + l
    BY <2>5
  <2> DEFINE k == Tables!LayersBefore(m) * (m - 1) + (l - 1)
  <2>3. k = p + (l - 1)
    BY <1>5, <1>6, <2>1
  <2>4. Tables!LayerIndex(m, l) = IF k < Len(flat) THEN k + 1 ELSE 1
    BY <1>4 DEF Tables!LayerIndex
  <2> HIDE DEF k
  <2> QED BY <2>2, <2>3, <2>4
<1>9. \A l \in DOMAIN own : flat[p + l] = own[l]
  <2> HIDE DEF p, own
  <2> QED BY <1>3, <1>7
<1> QED BY <1>4, <1>5, <1>6, <1>8, <1>9 DEF G

(* What SFibersGeomPar and the digitizer know of the layers.               *)
ModulesAre(geometry, places) ==
  \A m \in DOMAIN geometry : m <= 2 =>
    places[m] = [l \in DOMAIN geometry[m] |-> LayersIn(geometry, m) + l]
LimitsAre(geometry, ends) ==
  \A m \in DOMAIN geometry : m <= 2 =>
    ends[m] = [l \in DOMAIN geometry[m] |-> Tables!UpTo(geometry[m])[l]]

(* GetParams and InitDigitizer, for the first two modules.                 *)
LEMMA GetParamsPlaces ==
  ASSUME setup.geometry \in Seq(Seq(Nat \ {0})), Tables!GetParams
  PROVE  ModulesAre(setup.geometry, mods')
<1> DEFINE G == setup.geometry
<1>1. mods' = [m \in DOMAIN G |-> [l \in DOMAIN G[m] |-> Tables!LayerIndex(m, l)]]
  BY DEF Tables!GetParams, Tables!Modules
<1>2. ASSUME NEW m \in DOMAIN G, m <= 2
      PROVE  mods'[m] = [l \in DOMAIN G[m] |-> LayersIn(G, m) + l]
  <2>1. mods'[m] = [l \in DOMAIN G[m] |-> Tables!LayerIndex(m, l)]
    BY <1>1
  <2>2. \A l \in DOMAIN G[m] : Tables!LayerIndex(m, l) = LayersIn(G, m) + l
    BY <1>2, LayerIndexIs
  <2> HIDE DEF G
  <2> QED BY <2>1, <2>2
<1> QED BY <1>2 DEF ModulesAre

(* SFibersDigitizer::init adds the fibres of the module's own layers.      *)
LEMMA InitDigitizerLimits ==
  ASSUME setup.geometry \in Seq(Seq(Nat \ {0})), ModulesAre(setup.geometry, mods),
         Tables!InitDigitizer
  PROVE  LimitsAre(setup.geometry, limits')
<1> DEFINE G == setup.geometry
           Own(m) == [k \in DOMAIN mods[m] |-> Tables!Lists[mods[m][k]]]
<1>1. limits' = [m \in DOMAIN G |-> [l \in DOMAIN mods[m] |-> Tables!UpTo(Own(m))[l]]]
  BY DEF Tables!InitDigitizer, Tables!Modules
<1>2. ASSUME NEW m \in DOMAIN G, m <= 2
      PROVE  limits'[m] = [l \in DOMAIN G[m] |-> Tables!UpTo(G[m])[l]]
  <2>1. limits'[m] = [l \in DOMAIN mods[m] |-> Tables!UpTo(Own(m))[l]]
    BY <1>1
  <2>2. mods[m] = [l \in DOMAIN G[m] |-> LayersIn(G, m) + l]
    BY <1>2 DEF ModulesAre
  <2>3. \A l \in DOMAIN G[m] : Tables!Lists[LayersIn(G, m) + l] = G[m][l]
    BY <1>2, LayerIndexIs
  <2>4. G[m] \in Seq(Nat \ {0})
    OBVIOUS
  <2> HIDE DEF G
  <2>5. Own(m) = G[m]
    <3>1. Own(m) = [k \in DOMAIN G[m] |-> G[m][k]]
      BY <2>2, <2>3
    <3>2. G[m] = [k \in DOMAIN G[m] |-> G[m][k]]
      BY <2>4
    <3> QED BY <3>1, <3>2
  <2>6. DOMAIN mods[m] = DOMAIN G[m]
    BY <2>2
  <2> HIDE DEF Own
  <2> QED BY <2>1, <2>5, <2>6
<1> QED BY <1>2 DEF LimitsAre

(* A number that is below the end of a layer, but not below those before   *)
(* it, is that of a fibre of the layer.                                    *)
Numbered(geometry, fibre, m, number) ==
  \/ /\ fibre.m = m /\ fibre.l \in DOMAIN geometry[m]
     /\ fibre.s < geometry[m][fibre.l]
     /\ number = Tables!UpTo(geometry[m])[fibre.l - 1] + fibre.s
  \/ number = Tables!UpTo(geometry[m])[Len(geometry[m])] /\ fibre.l = 1 /\ fibre.s = 0

(* The first layer whose limit is above the number, and the fibre there.   *)
Above(ends, m, number) == {l \in DOMAIN ends[m] : number < ends[m][l]}
FirstLayer(above) == CHOOSE l \in above : \A k \in above : l <= k
FibreAt(ends, m, number) ==
  LET above == Above(ends, m, number)
      lay == FirstLayer(above)
  IN IF above = {} THEN [m |-> m, l |-> 1, s |-> 0]
     ELSE [m |-> m, l |-> lay, s |-> number - (IF lay > 1 THEN ends[m][lay - 1] ELSE 0)]

(* The fibre that is found has the number that was asked for.              *)
LEMMA DigitizeFinds ==
  ASSUME NEW geometry \in Seq(Seq(Nat \ {0})), NEW ends, LimitsAre(geometry, ends),
         NEW m \in DOMAIN geometry, m <= 2,
         NEW number \in 0 .. Tables!UpTo(geometry[m])[Len(geometry[m])]
  PROVE  Numbered(geometry, FibreAt(ends, m, number), m, number)
<1> DEFINE own == geometry[m]
           size == Len(own)
           up == Tables!UpTo(own)
           below == Above(ends, m, number)
           lay == FirstLayer(below)
           fibre == FibreAt(ends, m, number)
<1>0. /\ below = {l \in DOMAIN ends[m] : number < ends[m][l]}
      /\ below # {} => fibre = [m |-> m, l |-> lay, s |-> number - (IF lay > 1 THEN ends[m][lay - 1] ELSE 0)]
      /\ below = {} => fibre = [m |-> m, l |-> 1, s |-> 0]
  BY DEF Above, FibreAt
<1>1. own \in Seq(Nat \ {0}) /\ own \in Seq(Nat) /\ size \in Nat /\ DOMAIN own = 1 .. size
  OBVIOUS
<1>2. /\ up[0] = 0 /\ \A k \in 0 .. size : up[k] \in Nat
      /\ \A k \in 1 .. size : up[k] = up[k - 1] + own[k]
  <2> HIDE DEF own
  <2> QED BY <1>1, UpToIs
<1>3. ends[m] = [l \in 1 .. size |-> up[l]]
  BY <1>1 DEF LimitsAre
<1> HIDE DEF own, size, up, below, lay, fibre
<1>4. number \in Nat /\ number <= up[size]
  BY <1>1, <1>2 DEF own, size, up
<1>5. below = {l \in 1 .. size : number < up[l]}
  BY <1>0, <1>3
<1>6. CASE below = {}
  <2>1. fibre.l = 1 /\ fibre.s = 0
    BY <1>0, <1>6
  <2>2. number = up[size]
    <3>1. CASE size = 0
      BY <1>2, <1>4, <3>1
    <3>2. CASE size # 0
      <4>1. size \in 1 .. size /\ up[size] \in Nat
        BY <1>1, <1>2, <3>2
      <4>2. ~(number < up[size])
        BY <1>5, <1>6, <4>1
      <4> QED BY <1>4, <4>1, <4>2
    <3> QED BY <3>1, <3>2
  <2> QED BY <2>1, <2>2 DEF Numbered, own, size, up, fibre
<1>7. CASE below # {}
  <2>1. \E l \in below : \A k \in below : l <= k
    <3>1. below \subseteq Nat
      BY <1>1, <1>5
    <3>2. IsWellFoundedOn(OpToRel(<, Nat), Nat)
      BY NatLessThanWellFounded
    <3>3. PICK l \in below : \A k \in below : ~(<<k, l>> \in OpToRel(<, Nat))
      BY <1>7, <3>1, <3>2, WFMin
    <3>4. \A k \in below : ~(k < l)
      BY <3>1, <3>3 DEF OpToRel
    <3>5. \A k \in below : l <= k
      BY <3>1, <3>4
    <3> QED BY <3>5
  <2>2. lay \in below /\ \A k \in below : lay <= k
    BY <2>1 DEF lay, FirstLayer
  <2>3. lay \in 1 .. size /\ number < up[lay] /\ lay - 1 \in 0 .. size
    <3>1. lay \in 1 .. size /\ number < up[lay]
      BY <1>5, <2>2
    <3>2. lay - 1 \in 0 .. size
      <4>1. \A x \in 1 .. size : x - 1 \in 0 .. size
        BY <1>1
      <4> QED BY <3>1, <4>1, Zenon
    <3> QED BY <3>1, <3>2, Zenon
  <2>4. fibre.m = m /\ fibre.l = lay /\ fibre.s = number - (IF lay > 1 THEN ends[m][lay - 1] ELSE 0)
    BY <1>0, <1>7
  <2>5. fibre.s = number - up[lay - 1]
    <3>1. CASE lay > 1
      <4>1. lay - 1 \in 1 .. size
        BY <1>1, <2>3, <3>1
      <4> QED BY <1>3, <2>4, <3>1, <4>1
    <3>2. CASE ~(lay > 1)
      <4>1. lay = 1 /\ lay - 1 = 0
        BY <2>3, <3>2
      <4> QED BY <1>2, <1>4, <2>4, <3>2, <4>1
    <3> QED BY <3>1, <3>2
  <2>6. up[lay] = up[lay - 1] + own[lay] /\ up[lay - 1] \in Nat /\ own[lay] \in Nat /\ lay \in DOMAIN own
    <3>1. own[lay] \in Nat
      BY <1>1, <2>3
    <3> QED BY <1>1, <1>2, <2>3, <3>1
  <2>7. number = up[lay - 1] + fibre.s /\ fibre.s < own[lay]
    <3>1. \A a, b, c, x \in Nat : x < a /\ a = b + c => x = b + (x - b) /\ x - b < c
      OBVIOUS
    <3>2. up[lay] \in Nat /\ up[lay - 1] \in Nat /\ own[lay] \in Nat /\ number < up[lay]
          /\ up[lay] = up[lay - 1] + own[lay]
      BY <1>2, <2>3, <2>6
    <3>3. number = up[lay - 1] + (number - up[lay - 1]) /\ number - up[lay - 1] < own[lay]
      BY <1>4, <3>1, <3>2, Zenon
    <3> QED BY <2>5, <3>3, Zenon
  <2> QED BY <2>4, <2>6, <2>7 DEF Numbered, own, up, fibre
<1> QED BY <1>6, <1>7
-----------------------------------------------------------------------------
(* The lookup table, as a user wrote it and as a program wrote it.         *)

LookupLines == [addr : Nat, chan : Nat, fibre : Fibres, side : Sides]
Entries == [fibre : {f \in Fibres : f.s < 100}, side : Sides]
Entry(line) == [fibre |-> line.fibre, side |-> line.side]
Boards == [Tables!Addrs \X Tables!Chans -> Entries \cup {None}]
LinesOf(table, a, c) == {i \in 1 .. Len(table) : table[i].addr = a /\ table[i].chan = c}
LastFor(table, a, c) ==
  table[CHOOSE i \in LinesOf(table, a, c) : \A j \in LinesOf(table, a, c) : j <= i]

(* What is left of a list.                                                 *)
Rest(rest, whole) ==
  /\ Len(rest) <= Len(whole)
  /\ \A i \in 1 .. Len(rest) : rest[i] = whole[Len(whole) - Len(rest) + i]

(* A line that readings of the table can take, and what it does.           *)
Fits(line) == line.addr \in Tables!Addrs => line.chan \in Tables!Chans /\ line.fibre.s < 100
Put(board, line) ==
  IF line.addr \in Tables!Addrs
    THEN [board EXCEPT ![<<line.addr, line.chan>>] = [fibre |-> line.fibre, side |-> line.side]]
    ELSE board

(* After the first lines of a table the last of them for a channel stays.  *)
LookupAt(table, taken, board) ==
  \A a \in Tables!Addrs, c \in Tables!Chans :
    /\ (\A i \in LinesOf(table, a, c) : taken < i) => board[<<a, c>>] = None
    /\ \A i \in LinesOf(table, a, c) :
         i <= taken /\ (\A j \in LinesOf(table, a, c) : j <= taken => j <= i)
           => board[<<a, c>>] = Entry(table[i])

(* The other program: lines that were written are those of the table, and  *)
(* what has been read or will be is in the table.                          *)
IsLast(table, entry, a, c) ==
  LinesOf(table, a, c) # {} /\ entry = Entry(LastFor(table, a, c))
WrittenLine(table, line) ==
  /\ line.addr \in Tables!Addrs /\ line.addr < AddrMax /\ line.chan \in Tables!Chans
  /\ Entry(line) \in Entries
  /\ IsLast(table, Entry(line), line.addr, line.chan)
Comes(rest, a, c) == \E i \in 1 .. Len(rest) : rest[i].addr = a /\ rest[i].chan = c
LookupAgain(table, rest, board) ==
  /\ \A i \in 1 .. Len(rest) : WrittenLine(table, rest[i])
  /\ \A a \in Tables!Addrs, c \in Tables!Chans :
       /\ board[<<a, c>>] # None => a < AddrMax /\ IsLast(table, board[<<a, c>>], a, c)
       /\ a < AddrMax /\ LinesOf(table, a, c) # {} => board[<<a, c>>] # None \/ Comes(rest, a, c)

(* No fibre and side is taken for an empty channel.                        *)
LEMMA NoEntry == None \notin Entries
BY NoneAssumption DEF Entries

(* What a reading of a line leaves.                                        *)
LEMMA PutIs ==
  ASSUME NEW board \in Boards, NEW line \in LookupLines, Fits(line)
  PROVE  /\ Put(board, line) \in Boards
         /\ \A a \in Tables!Addrs, c \in Tables!Chans :
              Put(board, line)[<<a, c>>] = IF line.addr = a /\ line.chan = c THEN Entry(line) ELSE board[<<a, c>>]
<1>1. CASE line.addr \in Tables!Addrs
  <2> DEFINE new == [board EXCEPT ![<<line.addr, line.chan>>] = Entry(line)]
  <2>1. Put(board, line) = new
    BY <1>1 DEF Put, Entry
  <2>2. line.chan \in Tables!Chans /\ Entry(line) \in Entries
    BY <1>1 DEF Fits, LookupLines, Entries, Entry
  <2>3. new \in Boards
    BY <1>1, <2>2 DEF Boards
  <2>4. ASSUME NEW a \in Tables!Addrs, NEW c \in Tables!Chans
        PROVE  new[<<a, c>>] = IF line.addr = a /\ line.chan = c THEN Entry(line) ELSE board[<<a, c>>]
    BY <1>1, <2>2 DEF Boards
  <2> QED BY <2>1, <2>3, <2>4
<1>2. CASE line.addr \notin Tables!Addrs
  BY <1>2 DEF Put
<1> QED BY <1>1, <1>2

(* One more line of the table.                                             *)
LEMMA LookupAtNext ==
  ASSUME NEW table \in Seq(LookupLines), NEW taken \in Nat, taken + 1 <= Len(table),
         NEW board \in Boards, LookupAt(table, taken, board), Fits(table[taken + 1])
  PROVE  LookupAt(table, taken + 1, Put(board, table[taken + 1]))
<1> DEFINE line == table[taken + 1]
           new == Put(board, line)
<1>1. taken + 1 \in 1 .. Len(table) /\ line \in LookupLines
  OBVIOUS
<1>2. \A a \in Tables!Addrs, c \in Tables!Chans :
        new[<<a, c>>] = IF line.addr = a /\ line.chan = c THEN Entry(line) ELSE board[<<a, c>>]
  <2> HIDE DEF line
  <2>1. Fits(line)
    BY DEF line
  <2> QED BY <1>1, <2>1, PutIs
<1> SUFFICES ASSUME NEW a \in Tables!Addrs, NEW c \in Tables!Chans
             PROVE  /\ (\A i \in LinesOf(table, a, c) : taken + 1 < i) => new[<<a, c>>] = None
                    /\ \A i \in LinesOf(table, a, c) :
                         i <= taken + 1 /\ (\A j \in LinesOf(table, a, c) : j <= taken + 1 => j <= i)
                           => new[<<a, c>>] = Entry(table[i])
  BY DEF LookupAt
<1> DEFINE L == LinesOf(table, a, c)
<1>3. /\ (\A i \in L : taken < i) => board[<<a, c>>] = None
      /\ \A i \in L : i <= taken /\ (\A j \in L : j <= taken => j <= i) => board[<<a, c>>] = Entry(table[i])
  BY DEF LookupAt
<1>4. L \subseteq Nat /\ (taken + 1 \in L <=> line.addr = a /\ line.chan = c)
  BY <1>1 DEF LinesOf
<1> HIDE DEF L, new, line
<1>5. CASE taken + 1 \in L
  <2>1. new[<<a, c>>] = Entry(line)
    BY <1>2, <1>4, <1>5
  <2>2. ASSUME NEW i \in L, i <= taken + 1, \A j \in L : j <= taken + 1 => j <= i
        PROVE  new[<<a, c>>] = Entry(table[i])
    <3>1. i = taken + 1
      BY <1>4, <1>5, <2>2
    <3> QED BY <2>1, <3>1 DEF line
  <2>3. ~(taken + 1 < taken + 1)
    OBVIOUS
  <2>4. ~ \A i \in L : taken + 1 < i
    BY <1>5, <2>3
  <2>5. \A i \in L : i <= taken + 1 /\ (\A j \in L : j <= taken + 1 => j <= i)
                     => new[<<a, c>>] = Entry(table[i])
    BY <2>2, Zenon
  <2> QED BY <2>4, <2>5, Zenon DEF L
<1>6. CASE taken + 1 \notin L
  <2>1. new[<<a, c>>] = board[<<a, c>>]
    BY <1>2, <1>4, <1>6
  <2>2. \A i \in L : i <= taken + 1 <=> i <= taken
    BY <1>4, <1>6
  <2>3. \A i \in L : taken + 1 < i <=> taken < i
    BY <1>4, <1>6
  <2> QED BY <1>3, <2>1, <2>2, <2>3 DEF L
<1> QED BY <1>5, <1>6

(* A set of numbers up to a bound has a greatest, and one of naturals a    *)
(* least.                                                                  *)
LEMMA LeastIs ==
  ASSUME NEW S \in SUBSET Nat, S # {}
  PROVE  \E i \in S : \A j \in S : i <= j
<1>1. IsWellFoundedOn(OpToRel(<, Nat), Nat)
  BY NatLessThanWellFounded
<1>2. PICK i \in S : \A j \in S : ~(<<j, i>> \in OpToRel(<, Nat))
  BY <1>1, WFMin
<1>3. \A j \in S : ~(j < i)
  BY <1>2 DEF OpToRel
<1> QED BY <1>3

(* A set of line numbers that is not empty has a greatest one.             *)
LEMMA GreatestIs ==
  ASSUME NEW size \in Nat, NEW S \in SUBSET (1 .. size), S # {}
  PROVE  \E i \in S : \A j \in S : j <= i
<1> DEFINE T == {size - i : i \in S}
<1>1. T \subseteq Nat /\ T # {}
  <2>1. \A i \in S : size - i \in Nat
    OBVIOUS
  <2>2. T # {}
    OBVIOUS
  <2> QED BY <2>1, <2>2, Zenon
<1>2. PICK t \in T : \A u \in T : t <= u
  <2> HIDE DEF T
  <2> QED BY <1>1, LeastIs
<1>3. PICK i \in S : t = size - i
  OBVIOUS
<1>4. ASSUME NEW j \in S PROVE j <= i
  <2>1. size - j \in T
    OBVIOUS
  <2>2. size - i <= size - j
    BY <1>2, <1>3, <2>1
  <2>3. i \in Nat /\ j \in Nat
    OBVIOUS
  <2> QED BY <2>2, <2>3
<1> QED BY <1>4

(* When all lines are read, the last one is there for each channel.        *)
LEMMA LookupRead ==
  ASSUME NEW table \in Seq(LookupLines), NEW board, LookupAt(table, Len(table), board),
         NEW a \in Tables!Addrs, NEW c \in Tables!Chans
  PROVE  IF LinesOf(table, a, c) = {} THEN board[<<a, c>>] = None
         ELSE IsLast(table, board[<<a, c>>], a, c)
<1> DEFINE L == LinesOf(table, a, c)
           Greatest(i) == \A j \in L : j <= i
<1>1. Len(table) \in Nat /\ L \subseteq 1 .. Len(table) /\ \A i \in L : i <= Len(table)
  BY DEF LinesOf
<1>2. /\ (\A i \in L : Len(table) < i) => board[<<a, c>>] = None
      /\ \A i \in L : i <= Len(table) /\ (\A j \in L : j <= Len(table) => j <= i)
           => board[<<a, c>>] = Entry(table[i])
  BY DEF LookupAt
<1> HIDE DEF L
<1>3. CASE L = {}
  BY <1>2, <1>3 DEF L
<1>4. CASE L # {}
  <2>1. \E i \in L : Greatest(i)
    BY <1>1, <1>4, GreatestIs
  <2> DEFINE last == CHOOSE i \in L : Greatest(i)
  <2>2. last \in L /\ Greatest(last)
    <3> HIDE DEF Greatest
    <3> QED BY <2>1, Zenon
  <2>3. LastFor(table, a, c) = table[last]
    BY DEF LastFor, L
  <2> HIDE DEF last
  <2>4. board[<<a, c>>] = Entry(table[last])
    BY <1>1, <1>2, <2>2
  <2> QED BY <1>4, <2>3, <2>4 DEF IsLast, L
<1> QED BY <1>3, <1>4

(* A line of the other program's table.                                    *)
LEMMA LookupAgainNext ==
  ASSUME NEW table \in Seq(LookupLines), NEW rest \in Seq(LookupLines), rest # <<>>,
         NEW board \in Boards, LookupAgain(table, rest, board)
  PROVE  /\ Fits(Head(rest))
         /\ LookupAgain(table, Tail(rest), Put(board, Head(rest)))
<1> DEFINE line == Head(rest)
           after == Tail(rest)
           new == Put(board, line)
<1>1. /\ Len(rest) \in Nat /\ 1 \in 1 .. Len(rest) /\ line = rest[1] /\ line \in LookupLines
      /\ Len(after) = Len(rest) - 1 /\ Len(after) \in Nat
      /\ \A i \in 1 .. Len(after) : after[i] = rest[i + 1]
  OBVIOUS
<1>2. WrittenLine(table, line)
  BY <1>1 DEF LookupAgain
<1> HIDE DEF line, after
<1>3. Fits(line)
  BY <1>2 DEF WrittenLine, Fits, Entries, Entry
<1>4. \A a \in Tables!Addrs, c \in Tables!Chans :
        new[<<a, c>>] = IF line.addr = a /\ line.chan = c THEN Entry(line) ELSE board[<<a, c>>]
  BY <1>1, <1>3, PutIs
<1>5. ASSUME NEW i \in 1 .. Len(after) PROVE WrittenLine(table, after[i])
  <2>1. i + 1 \in 1 .. Len(rest)
    BY <1>1
  <2> QED BY <1>1, <2>1 DEF LookupAgain
<1> HIDE DEF new
<1>6. ASSUME NEW a \in Tables!Addrs, NEW c \in Tables!Chans
      PROVE  /\ new[<<a, c>>] # None => a < AddrMax /\ IsLast(table, new[<<a, c>>], a, c)
             /\ a < AddrMax /\ LinesOf(table, a, c) # {} => new[<<a, c>>] # None \/ Comes(after, a, c)
  <2>1. CASE line.addr = a /\ line.chan = c
    <3>1. new[<<a, c>>] = Entry(line) /\ Entry(line) # None
      BY <1>2, <1>4, <2>1, NoEntry DEF WrittenLine
    <3> QED BY <1>2, <2>1, <3>1 DEF WrittenLine
  <2>2. CASE ~(line.addr = a /\ line.chan = c)
    <3>1. new[<<a, c>>] = board[<<a, c>>]
      BY <1>4, <2>2
    <3>2. Comes(rest, a, c) => Comes(after, a, c)
      <4> SUFFICES ASSUME NEW i \in 1 .. Len(rest), rest[i].addr = a, rest[i].chan = c PROVE Comes(after, a, c)
        BY DEF Comes
      <4>1. i # 1
        BY <1>1, <2>2
      <4>2. i - 1 \in 1 .. Len(after) /\ (i - 1) + 1 = i
        BY <1>1, <4>1
      <4>3. after[i - 1] = rest[i]
        BY <1>1, <4>2
      <4> QED BY <4>2, <4>3 DEF Comes
    <3> QED BY <3>1, <3>2 DEF LookupAgain
  <2> QED BY <2>1, <2>2
<1>7. LookupAgain(table, after, new)
  BY <1>5, <1>6 DEF LookupAgain
<1> QED BY <1>3, <1>7 DEF line, after, new

(* toContainer: a line for each channel of each board but the last.        *)
IsOf(line, board, a, c) == line.addr = a /\ line.chan = c /\ Entry(line) = board[<<a, c>>]

(* The table that is written: lines of channels that have a fibre, and one *)
(* for each.                                                               *)
LEMMA WrittenLookupIs ==
  ASSUME boards \in Boards
  PROVE  /\ Tables!WrittenLookup \in Seq(LookupLines)
         /\ \A i \in 1 .. Len(Tables!WrittenLookup) :
              \E a \in Tables!Addrs, c \in Tables!Chans :
                a < AddrMax /\ boards[<<a, c>>] # None /\ IsOf(Tables!WrittenLookup[i], boards, a, c)
         /\ \A a \in Tables!Addrs, c \in Tables!Chans :
              a < AddrMax /\ boards[<<a, c>>] # None => Comes(Tables!WrittenLookup, a, c)
<1> DEFINE Line(a, c) ==
             IF boards[<<a, c>>] = None THEN <<>>
             ELSE <<[addr |-> a, chan |-> c, fibre |-> boards[<<a, c>>].fibre, side |-> boards[<<a, c>>].side]>>
           Row(a) == [c \in 1 .. Channels |-> Line(a, c - 1)]
           Rows == [i \in 1 .. AddrMax - AddrMin |-> FlattenSeq(Row(AddrMin + i - 1))]
           all == FlattenSeq(Rows)
<1>1. Tables!WrittenLookup = all
  BY SameFlatten, Zenon DEF Tables!WrittenLookup
<1>2. /\ Channels \in Nat /\ AddrMin \in Nat /\ AddrMax \in Nat
      /\ \A c \in 1 .. Channels : c - 1 \in Tables!Chans
      /\ \A c \in Tables!Chans : c + 1 \in 1 .. Channels /\ (c + 1) - 1 = c
      /\ \A i \in 1 .. AddrMax - AddrMin : AddrMin + i - 1 \in Tables!Addrs /\ AddrMin + i - 1 < AddrMax
      /\ \A a \in Tables!Addrs : a < AddrMax => a - AddrMin + 1 \in 1 .. AddrMax - AddrMin
                                           /\ AddrMin + (a - AddrMin + 1) - 1 = a
      /\ AddrMax - AddrMin \in Nat
  BY BoardsAssumption DEF Tables!Chans, Tables!Addrs
<1>3. ASSUME NEW a \in Tables!Addrs, NEW c \in Tables!Chans
      PROVE  /\ Line(a, c) \in Seq(LookupLines)
             /\ boards[<<a, c>>] = None => Len(Line(a, c)) = 0
             /\ boards[<<a, c>>] # None => Len(Line(a, c)) = 1 /\ IsOf(Line(a, c)[1], boards, a, c)
  <2>1. CASE boards[<<a, c>>] = None
    BY <2>1
  <2>2. CASE boards[<<a, c>>] # None
    <3> DEFINE entry == boards[<<a, c>>]
               line == [addr |-> a, chan |-> c, fibre |-> entry.fibre, side |-> entry.side]
    <3>1. entry \in Entries
      BY <2>2 DEF Boards
    <3>2. a \in Nat /\ c \in Nat
      BY BoardsAssumption DEF Tables!Addrs, Tables!Chans
    <3>3. Line(a, c) = <<line>>
      BY <2>2
    <3> HIDE DEF entry
    <3>4. entry.fibre \in Fibres /\ entry.side \in Sides /\ entry = [fibre |-> entry.fibre, side |-> entry.side]
      BY <3>1 DEF Entries
    <3>5. line \in LookupLines /\ line.addr = a /\ line.chan = c /\ Entry(line) = entry
      BY <3>2, <3>4 DEF LookupLines, Entry
    <3> HIDE DEF line, Line
    <3>6. IsOf(line, boards, a, c)
      BY <3>5 DEF IsOf, entry
    <3>7. <<line>> \in Seq(LookupLines) /\ Len(<<line>>) = 1 /\ <<line>>[1] = line
      BY <3>5
    <3> QED BY <2>2, <3>3, <3>6, <3>7
  <2> QED BY <2>1, <2>2
<1> HIDE DEF Line
<1>4. ASSUME NEW a \in Tables!Addrs
      PROVE  /\ FlattenSeq(Row(a)) \in Seq(LookupLines)
             /\ \A i \in 1 .. Len(FlattenSeq(Row(a))) : \E c \in Tables!Chans :
                  boards[<<a, c>>] # None /\ IsOf(FlattenSeq(Row(a))[i], boards, a, c)
             /\ \A c \in Tables!Chans : boards[<<a, c>>] # None =>
                  \E i \in 1 .. Len(FlattenSeq(Row(a))) : IsOf(FlattenSeq(Row(a))[i], boards, a, c)
  <2> DEFINE row == Row(a)
             flat == FlattenSeq(row)
  <2>1. /\ row \in Seq(Seq(LookupLines)) /\ Len(row) = Channels
        /\ \A c \in 1 .. Channels : row[c] = Line(a, c - 1)
    <3>1. \A c \in 1 .. Channels : Line(a, c - 1) \in Seq(LookupLines)
      BY <1>2, <1>3, Zenon
    <3>2. row = [c \in 1 .. Channels |-> Line(a, c - 1)]
      OBVIOUS
    <3>3. row \in [1 .. Channels -> Seq(LookupLines)]
      BY <3>1, <3>2, Zenon
    <3> HIDE DEF row
    <3> QED BY <1>2, <3>2, <3>3
  <2> HIDE DEF row
  <2>2. /\ flat \in Seq(LookupLines)
        /\ \A k \in 1 .. Channels, j \in Nat : j \in 1 .. Len(row[k]) => \E i \in 1 .. Len(flat) : flat[i] = row[k][j]
        /\ \A i \in 1 .. Len(flat) : \E k \in 1 .. Channels : \E j \in 1 .. Len(row[k]) : flat[i] = row[k][j]
    <3>1. flat \in Seq(LookupLines) /\ HasAll(flat, row)
      BY <2>1, FlattenHas
    <3> HIDE DEF flat
    <3> QED BY <2>1, <3>1 DEF HasAll
  <2> HIDE DEF flat
  <2>3. ASSUME NEW i \in 1 .. Len(flat)
        PROVE  \E c \in Tables!Chans : boards[<<a, c>>] # None /\ IsOf(flat[i], boards, a, c)
    <3>1. PICK k \in 1 .. Channels : \E j \in 1 .. Len(row[k]) : flat[i] = row[k][j]
      BY <2>2
    <3>2. PICK j \in 1 .. Len(row[k]) : flat[i] = row[k][j]
      BY <3>1
    <3>3. k - 1 \in Tables!Chans /\ row[k] = Line(a, k - 1)
      BY <1>2, <2>1
    <3>4. boards[<<a, k - 1>>] # None /\ Len(Line(a, k - 1)) = 1 /\ IsOf(Line(a, k - 1)[1], boards, a, k - 1)
      <4> DEFINE c == k - 1
      <4>1. c \in Tables!Chans /\ j \in 1 .. Len(Line(a, c))
        BY <3>3
      <4> HIDE DEF c
      <4>2. boards[<<a, c>>] # None /\ Len(Line(a, c)) = 1 /\ IsOf(Line(a, c)[1], boards, a, c)
        BY <1>3, <4>1
      <4> QED BY <4>2 DEF c
    <3>5. j = 1
      <4>1. Len(row[k]) = 1
        BY <3>3, <3>4
      <4> QED BY <4>1
    <3> QED BY <3>2, <3>3, <3>4, <3>5
  <2>4. ASSUME NEW c \in Tables!Chans, boards[<<a, c>>] # None
        PROVE  \E i \in 1 .. Len(flat) : IsOf(flat[i], boards, a, c)
    <3>1. c + 1 \in 1 .. Channels /\ row[c + 1] = Line(a, c)
      BY <1>2, <2>1
    <3>2. Len(row[c + 1]) = 1 /\ IsOf(row[c + 1][1], boards, a, c)
      BY <1>3, <2>4, <3>1
    <3>3. \E i \in 1 .. Len(flat) : flat[i] = row[c + 1][1]
      <4>1. 1 \in Nat /\ 1 \in 1 .. Len(row[c + 1])
        BY <3>2
      <4> QED BY <2>2, <3>1, <4>1, Zenon
    <3> QED BY <3>2, <3>3
  <2> QED BY <2>2, <2>3, <2>4 DEF flat, row
<1> HIDE DEF Row
<1>5. /\ Rows \in Seq(Seq(LookupLines)) /\ Len(Rows) = AddrMax - AddrMin
      /\ \A i \in 1 .. AddrMax - AddrMin : Rows[i] = FlattenSeq(Row(AddrMin + i - 1))
  <2>1. \A i \in 1 .. AddrMax - AddrMin : FlattenSeq(Row(AddrMin + i - 1)) \in Seq(LookupLines)
    BY <1>2, <1>4, Zenon
  <2>2. Rows = [i \in 1 .. AddrMax - AddrMin |-> FlattenSeq(Row(AddrMin + i - 1))]
    OBVIOUS
  <2>3. Rows \in [1 .. AddrMax - AddrMin -> Seq(LookupLines)]
    BY <2>1, <2>2, Zenon
  <2>4. \A i \in 1 .. AddrMax - AddrMin : Rows[i] = FlattenSeq(Row(AddrMin + i - 1))
    BY <2>2, Zenon
  <2> HIDE DEF Rows
  <2> DEFINE size == AddrMax - AddrMin
  <2>5. size \in Nat /\ Rows \in [1 .. size -> Seq(LookupLines)]
    BY <1>2, <2>3
  <2> HIDE DEF size
  <2>6. Rows \in Seq(Seq(LookupLines)) /\ Len(Rows) = size
    BY <2>5
  <2> QED BY <2>4, <2>6 DEF size
<1> HIDE DEF Rows
<1>6. /\ all \in Seq(LookupLines)
      /\ \A k \in 1 .. AddrMax - AddrMin, j \in Nat :
            j \in 1 .. Len(Rows[k]) => \E i \in 1 .. Len(all) : all[i] = Rows[k][j]
      /\ \A i \in 1 .. Len(all) : \E k \in 1 .. AddrMax - AddrMin : \E j \in 1 .. Len(Rows[k]) : all[i] = Rows[k][j]
  <2>1. all \in Seq(LookupLines) /\ HasAll(all, Rows)
    BY <1>5, FlattenHas
  <2> HIDE DEF all
  <2> QED BY <1>5, <2>1 DEF HasAll
<1> HIDE DEF all
<1>7. ASSUME NEW i \in 1 .. Len(all)
      PROVE  \E a \in Tables!Addrs, c \in Tables!Chans :
               a < AddrMax /\ boards[<<a, c>>] # None /\ IsOf(all[i], boards, a, c)
  <2>1. PICK k \in 1 .. AddrMax - AddrMin : \E j \in 1 .. Len(Rows[k]) : all[i] = Rows[k][j]
    BY <1>6
  <2>2. PICK j \in 1 .. Len(Rows[k]) : all[i] = Rows[k][j]
    BY <2>1
  <2> DEFINE a == AddrMin + k - 1
  <2>3. a \in Tables!Addrs /\ a < AddrMax /\ Rows[k] = FlattenSeq(Row(a))
    BY <1>2, <1>5
  <2> HIDE DEF a
  <2>4. \E c \in Tables!Chans : boards[<<a, c>>] # None /\ IsOf(FlattenSeq(Row(a))[j], boards, a, c)
    BY <1>4, <2>3
  <2> QED BY <2>2, <2>3, <2>4
<1>8. ASSUME NEW a \in Tables!Addrs, NEW c \in Tables!Chans, a < AddrMax, boards[<<a, c>>] # None
      PROVE  Comes(all, a, c)
  <2> DEFINE k == a - AddrMin + 1
  <2>1. k \in 1 .. AddrMax - AddrMin /\ Rows[k] = FlattenSeq(Row(a))
    BY <1>2, <1>5, <1>8
  <2> HIDE DEF k
  <2>2. PICK j \in 1 .. Len(Rows[k]) : IsOf(Rows[k][j], boards, a, c)
    BY <1>4, <1>8, <2>1
  <2>3. \E i \in 1 .. Len(all) : all[i] = Rows[k][j]
    <3>1. j \in Nat /\ j \in 1 .. Len(Rows[k])
      OBVIOUS
    <3> QED BY <1>6, <2>1, <3>1, Zenon
  <2> QED BY <2>2, <2>3 DEF Comes, IsOf
<1> QED BY <1>1, <1>6, <1>7, <1>8

(* So the other program has the table of the first one.                    *)
LEMMA WrittenLookupRead ==
  ASSUME boards \in Boards, NEW table \in Seq(LookupLines),
         \A a \in Tables!Addrs, c \in Tables!Chans :
           IF LinesOf(table, a, c) = {} THEN boards[<<a, c>>] = None
           ELSE IsLast(table, boards[<<a, c>>], a, c)
  PROVE  LookupAgain(table, Tables!WrittenLookup, Tables!NoBoards) /\ Tables!NoBoards \in Boards
<1> DEFINE all == Tables!WrittenLookup
           new == Tables!NoBoards
<1>1. \A i \in 1 .. Len(all) : \E a \in Tables!Addrs, c \in Tables!Chans :
        a < AddrMax /\ boards[<<a, c>>] # None /\ IsOf(all[i], boards, a, c)
  BY WrittenLookupIs
<1>2. \A a \in Tables!Addrs, c \in Tables!Chans : a < AddrMax /\ boards[<<a, c>>] # None => Comes(all, a, c)
  BY WrittenLookupIs
<1>3. new \in Boards /\ \A a \in Tables!Addrs, c \in Tables!Chans : new[<<a, c>>] = None
  <2>1. new = [x \in Tables!Addrs \X Tables!Chans |-> None]
    BY DEF Tables!NoBoards
  <2> HIDE DEF new
  <2> QED BY <2>1 DEF Boards
<1>4. \A a \in Tables!Addrs, c \in Tables!Chans : LinesOf(table, a, c) # {} =>
        boards[<<a, c>>] \in Entries /\ IsLast(table, boards[<<a, c>>], a, c)
  <2>1. SUFFICES ASSUME NEW a \in Tables!Addrs, NEW c \in Tables!Chans, LinesOf(table, a, c) # {}
                 PROVE  boards[<<a, c>>] \in Entries /\ IsLast(table, boards[<<a, c>>], a, c)
    OBVIOUS
  <2>2. IsLast(table, boards[<<a, c>>], a, c)
    BY <2>1
  <2>3. boards[<<a, c>>] # None
    <3> DEFINE last == CHOOSE i \in LinesOf(table, a, c) : \A j \in LinesOf(table, a, c) : j <= i
    <3>1. \E i \in LinesOf(table, a, c) : \A j \in LinesOf(table, a, c) : j <= i
      <4> DEFINE L == LinesOf(table, a, c)
      <4>1. Len(table) \in Nat /\ L \subseteq 1 .. Len(table)
        BY DEF LinesOf
      <4> HIDE DEF L
      <4>2. L # {}
        BY <2>1 DEF L
      <4>3. \E i \in L : \A j \in L : j <= i
        BY <4>1, <4>2, GreatestIs
      <4> QED BY <4>3 DEF L
    <3>2. last \in LinesOf(table, a, c)
      BY <3>1, Zenon
    <3>3. table[last] \in LookupLines /\ LastFor(table, a, c) = table[last]
      BY <3>2 DEF LinesOf, LastFor
    <3> HIDE DEF last
    <3>4. Entry(table[last]) \in [fibre : Fibres, side : Sides]
      BY <3>3 DEF LookupLines, Entry
    <3> QED BY <2>2, <3>3, <3>4, NoneAssumption DEF IsLast
  <2> QED BY <2>2, <2>3 DEF Boards
<1> HIDE DEF all, new
<1>5. ASSUME NEW i \in 1 .. Len(all) PROVE WrittenLine(table, all[i])
  <2>1. PICK a \in Tables!Addrs, c \in Tables!Chans :
          a < AddrMax /\ boards[<<a, c>>] # None /\ IsOf(all[i], boards, a, c)
    BY <1>1
  <2>2. LinesOf(table, a, c) # {}
    BY <2>1
  <2> QED BY <1>4, <2>1, <2>2 DEF WrittenLine, IsOf
<1>6. ASSUME NEW a \in Tables!Addrs, NEW c \in Tables!Chans, a < AddrMax, LinesOf(table, a, c) # {}
      PROVE  Comes(all, a, c)
  <2>1. boards[<<a, c>>] \in Entries
    BY <1>4, <1>6
  <2>2. boards[<<a, c>>] # None
    BY <2>1, NoEntry
  <2> QED BY <1>2, <1>6, <2>2
<1>7. LookupAgain(table, all, new)
  BY <1>3, <1>5, <1>6 DEF LookupAgain
<1> QED BY <1>3, <1>7 DEF all, new
-----------------------------------------------------------------------------
(* The calibrations, as a user wrote them and as a program wrote them.     *)

(* A list of the elements of a set.                                        *)
LEMMA SetToSeqHas ==
  ASSUME NEW S, IsFiniteSet(S)
  PROVE  \E size \in Nat :
           /\ Tables!SetToSeq(S) \in [1 .. size -> S]
           /\ \A x \in S : \E i \in 1 .. size : Tables!SetToSeq(S)[i] = x
<1> DEFINE size == Cardinality(S)
           D == 1 .. size
<1>1. size \in Nat /\ ExistsBijection(D, S)
  BY FS_CardinalityType
<1>2. IsFiniteSet(D) /\ Cardinality(D) = size
  <2> HIDE DEF size
  <2>1. 1 \in Int /\ size \in Int
    BY <1>1
  <2> QED BY <1>1, <2>1, FS_Interval
<1>3. PICK g : g \in Bijection(D, S)
  BY <1>1, Fun_ExistsBij
<1> HIDE DEF D
<1>4. g \in [D -> S] /\ IsInjective(g)
  <2>1. g \in [D -> S] /\ \A a, b \in D : g[a] = g[b] => a = b
    BY <1>3, Fun_BijectionProperties
  <2> QED BY <2>1 DEF IsInjective
<1> DEFINE s == CHOOSE f \in [D -> S] : IsInjective(f)
<1>5. s \in [D -> S] /\ IsInjective(s)
  BY <1>4, Zenon
<1>6. Tables!SetToSeq(S) = s
  BY Zenon DEF Tables!SetToSeq, D, Tables!IsInjective, IsInjective, Tables!Cardinality, Cardinality
<1> HIDE DEF s
<1>7. s \in Injection(D, S)
  BY <1>5 DEF Injection
<1>8. s \in Surjection(D, S)
  <2>1. Cardinality(D) = Cardinality(S)
    BY <1>2
  <2> QED BY <1>7, <2>1, FS_Injection
<1>9. \A x \in S : \E i \in D : s[i] = x
  BY <1>8, Fun_SurjectionProperties
<1> QED BY <1>1, <1>5, <1>6, <1>9 DEF D

CalLines == [fibre : Fibres, side : Sides \cup {"both"}, value : DOMAIN Rounded]
(* What a calibration is for: a side of a fibre, or a fibre.               *)
KeyOf(sided, fibre, side) ==
  IF sided THEN <<fibre.m, fibre.l, fibre.s, side>> ELSE <<fibre.m, fibre.l, fibre.s>>
CalsOf(cals, sided, fibre, side) ==
  {i \in 1 .. Len(cals) : cals[i].fibre = fibre /\ (sided => cals[i].side = side)}
FirstOf(cals, K) == IF K = {} THEN Default ELSE cals[CHOOSE i \in K : \A j \in K : i <= j].value
FirstFor(cals, sided, fibre, side) == FirstOf(cals, CalsOf(cals, sided, fibre, side))

(* A calibration is for one fibre only.                                    *)
LEMMA KeyIs ==
  ASSUME NEW sided \in BOOLEAN, NEW f \in Fibres, NEW g \in Fibres, NEW s, NEW t,
         KeyOf(sided, f, s) = KeyOf(sided, g, t)
  PROVE  f = g /\ (sided => s = t)
<1>1. f.m = g.m /\ f.l = g.l /\ f.s = g.s /\ (sided => s = t)
  BY DEF KeyOf
<1>2. f = [m |-> f.m, l |-> f.l, s |-> f.s] /\ g = [m |-> g.m, l |-> g.l, s |-> g.s]
  BY DEF Fibres
<1> QED BY <1>1, <1>2

(* What has the same key has the same lines of calibration.                *)
LEMMA SameKey ==
  ASSUME NEW sided \in BOOLEAN, NEW f \in Fibres, NEW g \in Fibres, NEW s, NEW t,
         KeyOf(sided, f, s) = KeyOf(sided, g, t), NEW cals
  PROVE  /\ CalsOf(cals, sided, f, s) = CalsOf(cals, sided, g, t)
         /\ FirstFor(cals, sided, f, s) = FirstFor(cals, sided, g, t)
<1>1. f = g /\ (sided => s = t)
  BY KeyIs
<1>2. CalsOf(cals, sided, f, s) = CalsOf(cals, sided, g, t)
  <2>1. CASE sided
    BY <1>1, <2>1 DEF CalsOf
  <2>2. CASE ~sided
    BY <1>1, <2>2 DEF CalsOf
  <2> QED BY <2>1, <2>2
<1> QED BY <1>2 DEF FirstFor

(* The first line for a fibre has its value.                               *)
LEMMA FirstIs ==
  ASSUME NEW cals \in Seq(CalLines), NEW sided, NEW f, NEW s
  PROVE  /\ FirstFor(cals, sided, f, s) \in DOMAIN Rounded
         /\ \A i \in CalsOf(cals, sided, f, s) :
              (\A j \in CalsOf(cals, sided, f, s) : i <= j) => FirstFor(cals, sided, f, s) = cals[i].value
<1> DEFINE K == CalsOf(cals, sided, f, s)
           Least(i) == \A j \in K : i <= j
           least == CHOOSE i \in K : Least(i)
<1>1. K \in SUBSET Nat /\ K \subseteq 1 .. Len(cals)
  BY DEF CalsOf
<1>2. FirstFor(cals, sided, f, s) = IF K = {} THEN Default ELSE cals[least].value
  BY Zenon DEF FirstFor, FirstOf
<1> HIDE DEF K
<1>3. CASE K = {}
  BY <1>2, <1>3, RoundedAssumption DEF K
<1>4. CASE K # {}
  <2>1. \E i \in K : Least(i)
    BY <1>1, <1>4, LeastIs
  <2>2. least \in K /\ Least(least)
    <3> HIDE DEF Least
    <3> QED BY <2>1, Zenon
  <2> HIDE DEF least
  <2>3. cals[least] \in CalLines
    BY <1>1, <2>2
  <2>4. cals[least].value \in DOMAIN Rounded
    BY <2>3 DEF CalLines
  <2>5. \A i \in K : Least(i) => i = least
    BY <1>1, <2>2
  <2> QED BY <1>2, <1>4, <2>4, <2>5 DEF K
<1> QED BY <1>3, <1>4

(* The first lines of a table have been read: a value is that of the first *)
(* line for its fibre, or the default.                                     *)
CalAt(cals, sided, taken, pars) ==
  \A f \in Fibres, s \in Sides :
    /\ \A i \in CalsOf(cals, sided, f, s) : i <= taken => KeyOf(sided, f, s) \in DOMAIN pars
    /\ KeyOf(sided, f, s) \in DOMAIN pars =>
         /\ pars[KeyOf(sided, f, s)] = FirstFor(cals, sided, f, s)
         /\ CalsOf(cals, sided, f, s) = {} \/ \E i \in CalsOf(cals, sided, f, s) : i <= taken

(* The keys of calibrations, which are those of fibres of two digits.      *)
KeysAre(sided, pars) ==
  /\ IsFiniteSet(DOMAIN pars)
  /\ \A k \in DOMAIN pars : \E f \in Fibres, s \in Sides : f.s < 100 /\ k = KeyOf(sided, f, s)

Added(pars, key, value) ==
  [k \in DOMAIN pars \cup {key} |-> IF k \in DOMAIN pars THEN pars[k] ELSE value]

(* A value is added under a key that had none.                             *)
LEMMA AddedIs ==
  ASSUME NEW pars, NEW key, NEW value
  PROVE  /\ DOMAIN Added(pars, key, value) = DOMAIN pars \cup {key}
         /\ \A k \in DOMAIN pars : Added(pars, key, value)[k] = pars[k]
         /\ key \notin DOMAIN pars => Added(pars, key, value)[key] = value
BY DEF Added

(* The keys stay those of fibres.                                          *)
LEMMA KeysAdded ==
  ASSUME NEW sided, NEW pars, KeysAre(sided, pars), NEW f \in Fibres, f.s < 100, NEW s \in Sides, NEW value
  PROVE  KeysAre(sided, Added(pars, KeyOf(sided, f, s), value))
<1>1. DOMAIN Added(pars, KeyOf(sided, f, s), value) = DOMAIN pars \cup {KeyOf(sided, f, s)}
  BY AddedIs
<1>2. IsFiniteSet(DOMAIN pars \cup {KeyOf(sided, f, s)})
  BY FS_AddElement DEF KeysAre
<1> QED BY <1>1, <1>2 DEF KeysAre

(* Reading one more line.                                                  *)
LEMMA CalAtNext ==
  ASSUME NEW sided \in BOOLEAN, NEW cals \in Seq(CalLines), NEW taken \in Nat, taken + 1 <= Len(cals),
         cals[taken + 1].side \in Sides,
         NEW pars, CalAt(cals, sided, taken, pars)
  PROVE  CalAt(cals, sided, taken + 1,
               Added(pars, KeyOf(sided, cals[taken + 1].fibre, cals[taken + 1].side), cals[taken + 1].value))
<1> DEFINE line == cals[taken + 1]
           key == KeyOf(sided, line.fibre, line.side)
           new == Added(pars, key, line.value)
<1>1. taken + 1 \in 1 .. Len(cals) /\ line \in CalLines
  OBVIOUS
<1>2. line.fibre \in Fibres
  BY <1>1 DEF CalLines
<1>3. /\ DOMAIN new = DOMAIN pars \cup {key}
      /\ \A k \in DOMAIN pars : new[k] = pars[k]
      /\ key \notin DOMAIN pars => new[key] = line.value
  BY AddedIs
<1> HIDE DEF new
<1>4. ASSUME NEW f \in Fibres, NEW s \in Sides
      PROVE  /\ \A i \in CalsOf(cals, sided, f, s) : i <= taken + 1 => KeyOf(sided, f, s) \in DOMAIN new
             /\ KeyOf(sided, f, s) \in DOMAIN new =>
                  /\ new[KeyOf(sided, f, s)] = FirstFor(cals, sided, f, s)
                  /\ CalsOf(cals, sided, f, s) = {} \/ \E i \in CalsOf(cals, sided, f, s) : i <= taken + 1
  <2> DEFINE K == CalsOf(cals, sided, f, s)
             own == KeyOf(sided, f, s)
  <2>1. /\ \A i \in K : i <= taken => own \in DOMAIN pars
        /\ own \in DOMAIN pars =>
             /\ pars[own] = FirstFor(cals, sided, f, s)
             /\ K = {} \/ \E i \in K : i <= taken
    BY DEF CalAt
  <2>2. K \subseteq Nat /\ (taken + 1 \in K <=> own = key)
    <3>1. taken + 1 \in K <=> line.fibre = f /\ (sided => line.side = s)
      BY <1>1 DEF CalsOf
    <3>2. own = key => line.fibre = f /\ (sided => line.side = s)
      BY <1>2, KeyIs
    <3>3. line.fibre = f /\ (sided => line.side = s) => own = key
      BY DEF KeyOf
    <3>4. K \subseteq Nat
      BY DEF CalsOf
    <3> QED BY <3>1, <3>2, <3>3, <3>4
  <2>3. \A i \in K : (\A j \in K : i <= j) => FirstFor(cals, sided, f, s) = cals[i].value
    BY FirstIs
  <2> HIDE DEF K, own, key
  <2>4. CASE own \in DOMAIN pars
    <3>1. own \in DOMAIN new /\ new[own] = FirstFor(cals, sided, f, s)
      BY <1>3, <2>1, <2>4
    <3>2. K = {} \/ \E i \in K : i <= taken + 1
      <4>1. \A i \in K : i <= taken => i <= taken + 1
        BY <2>2
      <4> QED BY <2>1, <2>4, <4>1
    <3> QED BY <3>1, <3>2 DEF K, own
  <2>5. CASE own \notin DOMAIN pars /\ own = key
    <3>1. taken + 1 \in K /\ \A i \in K : taken + 1 <= i
      BY <2>1, <2>2, <2>5
    <3>2. new[own] = FirstFor(cals, sided, f, s)
      BY <1>3, <2>3, <2>5, <3>1 DEF line
    <3>3. taken + 1 <= taken + 1
      OBVIOUS
    <3> QED BY <1>3, <2>5, <3>1, <3>2, <3>3 DEF K, own
  <2>6. CASE own \notin DOMAIN pars /\ own # key
    <3>1. own \notin DOMAIN new
      BY <1>3, <2>6
    <3>2. \A i \in K : ~(i <= taken) /\ i # taken + 1
      BY <2>1, <2>2, <2>6
    <3>3. \A i \in K : ~(i <= taken + 1)
      BY <2>2, <3>2
    <3> QED BY <3>1, <3>3 DEF K, own
  <2> QED BY <2>4, <2>5, <2>6
<1> QED BY <1>4 DEF CalAt, new

(* getPar adds the default for a fibre that has no line.                   *)
LEMMA CalAtDefault ==
  ASSUME NEW sided \in BOOLEAN, NEW cals \in Seq(CalLines), NEW pars,
         CalAt(cals, sided, Len(cals), pars),
         NEW g \in Fibres, NEW t \in Sides, KeyOf(sided, g, t) \notin DOMAIN pars
  PROVE  CalAt(cals, sided, Len(cals), Added(pars, KeyOf(sided, g, t), Default))
<1> DEFINE key == KeyOf(sided, g, t)
           new == Added(pars, key, Default)
<1>1. /\ DOMAIN new = DOMAIN pars \cup {key}
      /\ \A k \in DOMAIN pars : new[k] = pars[k]
      /\ new[key] = Default
  BY AddedIs
<1> HIDE DEF new
<1>2. ASSUME NEW f \in Fibres, NEW s \in Sides
      PROVE  /\ \A i \in CalsOf(cals, sided, f, s) : i <= Len(cals) => KeyOf(sided, f, s) \in DOMAIN new
             /\ KeyOf(sided, f, s) \in DOMAIN new =>
                  /\ new[KeyOf(sided, f, s)] = FirstFor(cals, sided, f, s)
                  /\ CalsOf(cals, sided, f, s) = {} \/ \E i \in CalsOf(cals, sided, f, s) : i <= Len(cals)
  <2> DEFINE K == CalsOf(cals, sided, f, s)
             own == KeyOf(sided, f, s)
  <2>1. /\ \A i \in K : i <= Len(cals) => own \in DOMAIN pars
        /\ own \in DOMAIN pars =>
             /\ pars[own] = FirstFor(cals, sided, f, s)
             /\ K = {} \/ \E i \in K : i <= Len(cals)
    BY DEF CalAt
  <2>2. \A i \in K : i <= Len(cals)
    BY DEF CalsOf
  <2>3. K = {} => FirstFor(cals, sided, f, s) = Default
    BY DEF FirstFor, FirstOf
  <2> HIDE DEF K, own, key
  <2>4. own = key => own \notin DOMAIN pars
    BY DEF key, own
  <2>5. CASE own \in DOMAIN pars
    BY <1>1, <2>1, <2>2, <2>5 DEF K, own
  <2>6. CASE own \notin DOMAIN pars
    <3>1. K = {}
      BY <2>1, <2>2, <2>6
    <3> QED BY <1>1, <2>3, <2>6, <3>1 DEF K, own
  <2> QED BY <2>5, <2>6
<1> QED BY <1>2 DEF CalAt, new, key

(* The other program: a value is the one that was written, and a fibre     *)
(* with a line has been read or will be.                                   *)
WrittenCalLine(cals, sided, line) ==
  /\ line.fibre \in Fibres /\ line.fibre.s < 100
  /\ \E s \in Sides :
       /\ KeyOf(sided, line.fibre, line.side) = KeyOf(sided, line.fibre, s)
       /\ line.value = Rounded[FirstFor(cals, sided, line.fibre, s)]
CalComes(rest, sided, key) ==
  \E i \in 1 .. Len(rest) : KeyOf(sided, rest[i].fibre, rest[i].side) = key
CalAgain(cals, sided, rest, pars) ==
  /\ \A i \in 1 .. Len(rest) : WrittenCalLine(cals, sided, rest[i])
  /\ \A f \in Fibres, s \in Sides :
       /\ KeyOf(sided, f, s) \in DOMAIN pars =>
            pars[KeyOf(sided, f, s)] = Rounded[FirstFor(cals, sided, f, s)]
       /\ CalsOf(cals, sided, f, s) # {} =>
            KeyOf(sided, f, s) \in DOMAIN pars \/ CalComes(rest, sided, KeyOf(sided, f, s))

(* One more line of the other program's calibrations.                      *)
LEMMA CalAgainNext ==
  ASSUME NEW sided \in BOOLEAN, NEW cals \in Seq(CalLines), NEW rest \in Seq(CalLines), rest # <<>>,
         NEW pars, CalAgain(cals, sided, rest, pars), KeysAre(sided, pars)
  PROVE  /\ Head(rest).fibre.s < 100
         /\ CalAgain(cals, sided, Tail(rest),
                     Added(pars, KeyOf(sided, Head(rest).fibre, Head(rest).side), Head(rest).value))
         /\ KeysAre(sided, Added(pars, KeyOf(sided, Head(rest).fibre, Head(rest).side), Head(rest).value))
<1> DEFINE line == Head(rest)
           after == Tail(rest)
           key == KeyOf(sided, line.fibre, line.side)
           new == Added(pars, key, line.value)
<1>1. /\ Len(rest) \in Nat /\ 1 \in 1 .. Len(rest) /\ line = rest[1] /\ line \in CalLines
      /\ Len(after) = Len(rest) - 1 /\ Len(after) \in Nat
      /\ \A i \in 1 .. Len(after) : after[i] = rest[i + 1]
  OBVIOUS
<1>2. WrittenCalLine(cals, sided, line)
  BY <1>1 DEF CalAgain
<1> HIDE DEF line, after
<1>3. PICK t \in Sides :
        /\ KeyOf(sided, line.fibre, line.side) = KeyOf(sided, line.fibre, t)
        /\ line.value = Rounded[FirstFor(cals, sided, line.fibre, t)]
  BY <1>2 DEF WrittenCalLine
<1>4. line.fibre \in Fibres /\ line.fibre.s < 100
  BY <1>2 DEF WrittenCalLine
<1>5. KeysAre(sided, new)
  BY <1>3, <1>4, KeysAdded
<1>6. /\ DOMAIN new = DOMAIN pars \cup {key}
      /\ \A k \in DOMAIN pars : new[k] = pars[k]
      /\ key \notin DOMAIN pars => new[key] = line.value
  BY AddedIs
<1>7. ASSUME NEW i \in 1 .. Len(after) PROVE WrittenCalLine(cals, sided, after[i])
  <2>1. i + 1 \in 1 .. Len(rest)
    BY <1>1
  <2> QED BY <1>1, <2>1 DEF CalAgain
<1> HIDE DEF new
<1>8. ASSUME NEW f \in Fibres, NEW s \in Sides
      PROVE  /\ KeyOf(sided, f, s) \in DOMAIN new =>
                  new[KeyOf(sided, f, s)] = Rounded[FirstFor(cals, sided, f, s)]
             /\ CalsOf(cals, sided, f, s) # {} =>
                  KeyOf(sided, f, s) \in DOMAIN new \/ CalComes(after, sided, KeyOf(sided, f, s))
  <2> DEFINE own == KeyOf(sided, f, s)
  <2>1. /\ own \in DOMAIN pars => pars[own] = Rounded[FirstFor(cals, sided, f, s)]
        /\ CalsOf(cals, sided, f, s) # {} => own \in DOMAIN pars \/ CalComes(rest, sided, own)
    BY DEF CalAgain
  <2>2. own = key => line.value = Rounded[FirstFor(cals, sided, f, s)]
    BY <1>3, <1>4, SameKey
  <2>3. CalComes(rest, sided, own) => own = key \/ CalComes(after, sided, own)
    <3> SUFFICES ASSUME NEW i \in 1 .. Len(rest), KeyOf(sided, rest[i].fibre, rest[i].side) = own, own # key
                 PROVE  CalComes(after, sided, own)
      BY DEF CalComes
    <3>1. i # 1
      BY <1>1
    <3>2. i - 1 \in 1 .. Len(after) /\ (i - 1) + 1 = i
      BY <1>1, <3>1
    <3>3. after[i - 1] = rest[i]
      BY <1>1, <3>2
    <3> QED BY <3>2, <3>3 DEF CalComes
  <2> HIDE DEF own, key
  <2> QED BY <1>6, <2>1, <2>2, <2>3 DEF own
<1>9. CalAgain(cals, sided, after, new)
  BY <1>7, <1>8 DEF CalAgain
<1> QED BY <1>4, <1>5, <1>9 DEF line, after, new

(* The default, for a fibre that has no line, is written and read as it    *)
(* is.                                                                     *)
LEMMA CalAgainDefault ==
  ASSUME NEW sided \in BOOLEAN, NEW cals \in Seq(CalLines), NEW pars, CalAgain(cals, sided, <<>>, pars),
         NEW g \in Fibres, NEW t \in Sides, KeyOf(sided, g, t) \notin DOMAIN pars
  PROVE  CalAgain(cals, sided, <<>>, Added(pars, KeyOf(sided, g, t), Default))
<1> DEFINE key == KeyOf(sided, g, t)
           new == Added(pars, key, Default)
<1>1. /\ DOMAIN new = DOMAIN pars \cup {key}
      /\ \A k \in DOMAIN pars : new[k] = pars[k]
      /\ new[key] = Default
  BY AddedIs
<1> HIDE DEF new
<1>2. ASSUME NEW f \in Fibres, NEW s \in Sides
      PROVE  /\ KeyOf(sided, f, s) \in DOMAIN new =>
                  new[KeyOf(sided, f, s)] = Rounded[FirstFor(cals, sided, f, s)]
             /\ CalsOf(cals, sided, f, s) # {} =>
                  KeyOf(sided, f, s) \in DOMAIN new \/ CalComes(<<>>, sided, KeyOf(sided, f, s))
  <2> DEFINE own == KeyOf(sided, f, s)
  <2>1. /\ own \in DOMAIN pars => pars[own] = Rounded[FirstFor(cals, sided, f, s)]
        /\ CalsOf(cals, sided, f, s) # {} => own \in DOMAIN pars
    BY DEF CalAgain, CalComes
  <2>2. CASE own \in DOMAIN pars
    BY <1>1, <2>1, <2>2
  <2>3. CASE own \notin DOMAIN pars
    <3>1. FirstFor(cals, sided, f, s) = Default /\ CalsOf(cals, sided, f, s) = {}
      BY <2>1, <2>3 DEF FirstFor, FirstOf
    <3>2. Rounded[Default] = Default
      BY RoundedAssumption
    <3> HIDE DEF own, key
    <3> QED BY <1>1, <2>3, <3>1, <3>2 DEF own
  <2> QED BY <2>2, <2>3
<1>3. \A i \in 1 .. Len(<<>>) : WrittenCalLine(cals, sided, <<>>[i])
  OBVIOUS
<1> QED BY <1>2, <1>3 DEF CalAgain, new

(* toContainer: what is written is what was in the map, the key of a fibre *)
(* giving back its numbers.                                                *)
LEMMA WrittenCalRead ==
  ASSUME NEW sided, sided = (setup.kind = "DD"), NEW cals \in Seq(CalLines),
         KeysAre(sided, calpars), CalAt(cals, sided, Len(cals), calpars)
  PROVE  /\ Tables!WrittenCal \in Seq(CalLines)
         /\ CalAgain(cals, sided, Tables!WrittenCal, Tables!NoPars)
         /\ KeysAre(sided, Tables!NoPars)
<1> DEFINE keys == Tables!SetToSeq(DOMAIN calpars)
           Line(k) == [fibre |-> [m |-> k[1], l |-> k[2], s |-> k[3]],
                       side |-> IF sided THEN k[4] ELSE "both",
                       value |-> Rounded[calpars[k]]]
           all == Tables!WrittenCal
           new == Tables!NoPars
<1>1. PICK size \in Nat : /\ keys \in [1 .. size -> DOMAIN calpars]
                          /\ \A x \in DOMAIN calpars : \E i \in 1 .. size : keys[i] = x
  BY SetToSeqHas DEF KeysAre
<1>2. all = [i \in 1 .. size |-> Line(keys[i])]
  BY <1>1 DEF Tables!WrittenCal
<1>3. DOMAIN new = {}
  BY DEF Tables!NoPars
<1> HIDE DEF keys, all, new
<1>4. ASSUME NEW f \in Fibres, NEW s \in Sides, KeyOf(sided, f, s) \in DOMAIN calpars
      PROVE  /\ Line(KeyOf(sided, f, s)).fibre = f
             /\ KeyOf(sided, f, Line(KeyOf(sided, f, s)).side) = KeyOf(sided, f, s)
             /\ Line(KeyOf(sided, f, s)).side \in Sides \cup {"both"}
             /\ Line(KeyOf(sided, f, s)).value = Rounded[FirstFor(cals, sided, f, s)]
  <2>1. f = [m |-> f.m, l |-> f.l, s |-> f.s]
    BY DEF Fibres
  <2>2. calpars[KeyOf(sided, f, s)] = FirstFor(cals, sided, f, s)
    BY <1>4 DEF CalAt
  <2>3. CASE sided
    BY <2>1, <2>2, <2>3 DEF KeyOf
  <2>4. CASE ~sided
    BY <2>1, <2>2, <2>4 DEF KeyOf
  <2> QED BY <2>3, <2>4
<1> HIDE DEF Line
<1>5. ASSUME NEW i \in 1 .. size
      PROVE  all[i] = Line(keys[i]) /\ WrittenCalLine(cals, sided, all[i])
             /\ Line(keys[i]).side \in Sides \cup {"both"} /\ Line(keys[i]).value \in DOMAIN Rounded
  <2>1. all[i] = Line(keys[i]) /\ keys[i] \in DOMAIN calpars
    BY <1>1, <1>2
  <2>2. PICK f \in Fibres, s \in Sides : f.s < 100 /\ keys[i] = KeyOf(sided, f, s)
    BY <2>1 DEF KeysAre
  <2>3. /\ all[i].fibre = f /\ KeyOf(sided, f, all[i].side) = KeyOf(sided, f, s)
        /\ all[i].side \in Sides \cup {"both"} /\ all[i].value = Rounded[FirstFor(cals, sided, f, s)]
    BY <1>4, <2>1, <2>2
  <2>4. Rounded[FirstFor(cals, sided, f, s)] \in DOMAIN Rounded
    BY FirstIs, RoundedAssumption
  <2> QED BY <2>1, <2>2, <2>3, <2>4 DEF WrittenCalLine
<1>6. all \in Seq(CalLines) /\ Len(all) = size
  <2>1. \A i \in 1 .. size : Line(keys[i]) \in CalLines
    <3> SUFFICES ASSUME NEW i \in 1 .. size PROVE Line(keys[i]) \in CalLines
      OBVIOUS
    <3>1. Line(keys[i]).fibre \in Fibres
      BY <1>5 DEF WrittenCalLine
    <3>2. Line(keys[i]).side \in Sides \cup {"both"} /\ Line(keys[i]).value \in DOMAIN Rounded
      BY <1>5
    <3>3. Line(keys[i]) = [fibre |-> Line(keys[i]).fibre, side |-> Line(keys[i]).side,
                           value |-> Line(keys[i]).value]
      BY DEF Line
    <3> QED BY <3>1, <3>2, <3>3 DEF CalLines
  <2>2. all \in [1 .. size -> CalLines]
    BY <1>2, <2>1
  <2> QED BY <2>2
<1>7. ASSUME NEW f \in Fibres, NEW s \in Sides, CalsOf(cals, sided, f, s) # {}
      PROVE  CalComes(all, sided, KeyOf(sided, f, s))
  <2>1. PICK i \in CalsOf(cals, sided, f, s) : TRUE
    BY <1>7
  <2>2. i <= Len(cals)
    BY DEF CalsOf
  <2>3. KeyOf(sided, f, s) \in DOMAIN calpars
    BY <2>2 DEF CalAt
  <2>4. PICK j \in 1 .. size : keys[j] = KeyOf(sided, f, s)
    BY <1>1, <2>3
  <2>5. all[j].fibre = f /\ KeyOf(sided, f, all[j].side) = KeyOf(sided, f, s)
    BY <1>4, <1>5, <2>3, <2>4
  <2> QED BY <1>6, <2>5 DEF CalComes
<1>8. CalAgain(cals, sided, all, new)
  BY <1>3, <1>5, <1>6, <1>7 DEF CalAgain
<1>9. KeysAre(sided, new)
  BY <1>3, FS_EmptySet DEF KeysAre
<1> QED BY <1>6, <1>8, <1>9 DEF all, new
-----------------------------------------------------------------------------
(* The invariant of a program with tables, and the steps that read them.   *)

Sided(s) == s.kind = "DD"
TwoDigitsIn(s) ==
  /\ \A i \in 1 .. Len(s.lookup) : s.lookup[i].fibre.s < 100
  /\ \A i \in 1 .. Len(s.cal) : s.cal[i].fibre.s < 100

(* What was found for a hit of a program with setup s.                     *)
FoundRight(s, u) ==
  /\ "addr" \in DOMAIN u.hit /\ TwoDigitsIn(s) =>
       /\ IsLast(s.lookup, [fibre |-> u.fibre, side |-> u.side], u.hit.addr, u.hit.chan)
       /\ u.value = IF u.round = 1 THEN FirstFor(s.cal, Sided(s), u.fibre, u.side)
                    ELSE Rounded[FirstFor(s.cal, Sided(s), u.fibre, u.side)]
       /\ u.round = 2 => u.hit.addr < AddrMax
  /\ u.fibre.m <= 2 /\ u.layer # None =>
       u.fibre.m \in DOMAIN s.geometry /\ u.layer = LayersIn(s.geometry, u.fibre.m) + u.fibre.l
  /\ "m" \in DOMAIN u.hit /\ u.hit.m <= 2 =>
       u.hit.m \in DOMAIN s.geometry /\ Numbered(s.geometry, u.fibre, u.hit.m, u.hit.number)

(* Why a program ended in step st of its rnd-th reading, with hit h.       *)
EndsRight(s, st, rnd, h) ==
  /\ st = "exited" =>
       h.addr \notin Tables!Addrs \/ LinesOf(s.lookup, h.addr, h.chan) = {} \/ (rnd = 2 /\ h.addr = AddrMax)
  /\ st = "crashed" /\ TwoDigitsIn(s) =>
       /\ LinesOf(s.lookup, h.addr, h.chan) # {}
       /\ CalsOf(s.cal, Sided(s), LastFor(s.lookup, h.addr, h.chan).fibre,
                 LastFor(s.lookup, h.addr, h.chan).side) = {}
  /\ st = "aborted" =>
       ~TwoDigitsIn(s) \/ \E i \in 1 .. Len(s.lookup) : s.lookup[i].chan \notin Tables!Chans

PlaceInv ==
  /\ setup \in Setups /\ round \in {1, 2}
  /\ step \in {"geometry", "digitizer", "tables", "hits", "exited", "crashed", "aborted"}
  /\ step = "hits" => text = <<>> /\ caltext = <<>>
  /\ step # "geometry" => ModulesAre(setup.geometry, mods)
  /\ step \notin {"geometry", "digitizer"} => LimitsAre(setup.geometry, limits)
LookupInv ==
  /\ boards \in Boards /\ text \in Seq(LookupLines)
  /\ round = 1 => /\ Rest(text, setup.lookup)
                  /\ LookupAt(setup.lookup, Len(setup.lookup) - Len(text), boards)
  /\ round = 2 => LookupAgain(setup.lookup, text, boards)
CalInv ==
  TwoDigitsIn(setup) =>
    /\ caltext \in Seq(CalLines) /\ KeysAre(Sided(setup), calpars)
    /\ round = 1 => /\ Rest(caltext, setup.cal)
                    /\ CalAt(setup.cal, Sided(setup), Len(setup.cal) - Len(caltext), calpars)
    /\ round = 2 => CalAgain(setup.cal, Sided(setup), caltext, calpars)
ResultInv ==
  /\ \A u \in used : FoundRight(setup, u)
  /\ EndsRight(setup, step, round, asked)
TablesInv == topic = "tables" => PlaceInv /\ LookupInv /\ CalInv /\ ResultInv

(* What a user writes into the tables.                                     *)
LEMMA SetupIs ==
  ASSUME NEW s \in Setups
  PROVE  /\ s.geometry \in Seq(Seq(Nat \ {0}))
         /\ s.lookup \in Seq(LookupLines)
         /\ s.cal \in Seq(CalLines) /\ \A i \in 1 .. Len(s.cal) : s.cal[i].side \in Sides
         /\ Sided(s) \in BOOLEAN
<1> DEFINE CL == [fibre : Fibres, side : Sides, value : DOMAIN Rounded]
           c == s.cal
<1>1. s.geometry \in Seq(Seq(Nat \ {0})) /\ s.lookup \in Seq(LookupLines) /\ c \in Seq(CL)
  BY SetupsAssumption DEF LookupLines
<1>2. CL \subseteq CalLines
  BY DEF CalLines
<1>3. \A x \in CL : x.side \in Sides
  OBVIOUS
<1> HIDE DEF CL, c
<1>4. c \in Seq(CalLines) /\ \A i \in 1 .. Len(c) : c[i].side \in Sides
  BY <1>1, <1>2, <1>3
<1> QED BY <1>1, <1>4 DEF c, Sided

(* Taking the first of the lines that are left.                            *)
LEMMA RestTail ==
  ASSUME NEW V, NEW whole \in Seq(V), NEW rest \in Seq(V), Rest(rest, whole), rest # <<>>
  PROVE  /\ Len(whole) - Len(rest) \in Nat
         /\ (Len(whole) - Len(rest)) + 1 <= Len(whole)
         /\ Head(rest) = whole[(Len(whole) - Len(rest)) + 1]
         /\ Tail(rest) \in Seq(V) /\ Rest(Tail(rest), whole)
         /\ Len(whole) - Len(Tail(rest)) = (Len(whole) - Len(rest)) + 1
<1> DEFINE after == Tail(rest)
           size == Len(whole)
           more == Len(rest)
<1>1. /\ more \in Nat /\ size \in Nat /\ more <= size /\ 1 \in 1 .. more /\ Head(rest) = rest[1]
      /\ after \in Seq(V) /\ Len(after) = more - 1 /\ \A i \in 1 .. Len(after) : after[i] = rest[i + 1]
      /\ \A i \in 1 .. more : rest[i] = whole[size - more + i]
  BY DEF Rest
<1> HIDE DEF after, size, more
<1>2. /\ size - more \in Nat /\ (size - more) + 1 <= size
      /\ size - (more - 1) = (size - more) + 1
  BY <1>1
<1>3. ASSUME NEW i \in 1 .. Len(after) PROVE after[i] = whole[size - Len(after) + i]
  <2>1. i + 1 \in 1 .. more /\ size - more + (i + 1) = size - Len(after) + i
    BY <1>1
  <2>2. rest[i + 1] = whole[size - more + (i + 1)]
    BY <1>1, <2>1
  <2> QED BY <1>1, <2>1, <2>2
<1>4. Rest(after, whole)
  <2>1. Len(after) <= Len(whole)
    BY <1>1 DEF size
  <2>2. \A i \in 1 .. Len(after) : after[i] = whole[Len(whole) - Len(after) + i]
    BY <1>3, Zenon DEF size
  <2> QED BY <2>1, <2>2, Zenon DEF Rest
<1> QED BY <1>1, <1>2, <1>4 DEF after, size, more

(* A step that touches neither the lookup table nor the calibrations, nor  *)
(* finds anything.                                                         *)
LEMMA LookupStays == LookupInv /\ UNCHANGED <<setup, round, text, boards>> => LookupInv'
BY DEF LookupInv

(* The same of the calibrations.                                           *)
LEMMA CalStays == CalInv /\ UNCHANGED <<setup, round, caltext, calpars>> => CalInv'
BY DEF CalInv

(* The same of what was found.                                             *)
LEMMA ResultStays ==
  ResultInv /\ UNCHANGED <<setup, used>> /\ step' \notin {"exited", "crashed", "aborted"} => ResultInv'
BY DEF ResultInv, EndsRight

(* A step that ends the program finds nothing.                             *)
LEMMA FoundStays == ResultInv /\ UNCHANGED <<setup, used>> => \A u \in used' : FoundRight(setup', u)
BY DEF ResultInv

(* SFibersGeomPar::getParams.                                              *)
LEMMA GetParamsStep ==
  PlaceInv /\ LookupInv /\ CalInv /\ ResultInv /\ Tables!GetParams =>
    PlaceInv' /\ LookupInv' /\ CalInv' /\ ResultInv'
<1> SUFFICES ASSUME PlaceInv, LookupInv, CalInv, ResultInv, Tables!GetParams
             PROVE  PlaceInv' /\ LookupInv' /\ CalInv' /\ ResultInv'
  OBVIOUS
<1>1. setup.geometry \in Seq(Seq(Nat \ {0}))
  BY SetupIs DEF PlaceInv
<1>2. ModulesAre(setup.geometry, mods')
  BY <1>1, GetParamsPlaces
<1>3. PlaceInv'
  BY <1>2 DEF PlaceInv, Tables!GetParams
<1> QED BY <1>3, LookupStays, CalStays, ResultStays DEF Tables!GetParams

(* SFibersDigitizer::init.                                                 *)
LEMMA InitDigitizerStep ==
  PlaceInv /\ LookupInv /\ CalInv /\ ResultInv /\ Tables!InitDigitizer =>
    PlaceInv' /\ LookupInv' /\ CalInv' /\ ResultInv'
<1> SUFFICES ASSUME PlaceInv, LookupInv, CalInv, ResultInv, Tables!InitDigitizer
             PROVE  PlaceInv' /\ LookupInv' /\ CalInv' /\ ResultInv'
  OBVIOUS
<1>1. setup.geometry \in Seq(Seq(Nat \ {0})) /\ ModulesAre(setup.geometry, mods)
  BY SetupIs DEF PlaceInv, Tables!InitDigitizer
<1>2. LimitsAre(setup.geometry, limits')
  BY <1>1, InitDigitizerLimits
<1>3. PlaceInv'
  BY <1>1, <1>2 DEF PlaceInv, Tables!InitDigitizer
<1> QED BY <1>3, LookupStays, CalStays, ResultStays DEF Tables!InitDigitizer

(* SLookupTable::fromContainer, a line at a time.                          *)
LEMMA ReadLookupStep ==
  PlaceInv /\ LookupInv /\ CalInv /\ ResultInv /\ Tables!ReadLookup =>
    PlaceInv' /\ LookupInv' /\ CalInv' /\ ResultInv'
<1> SUFFICES ASSUME PlaceInv, LookupInv, CalInv, ResultInv, Tables!ReadLookup
             PROVE  PlaceInv' /\ LookupInv' /\ CalInv' /\ ResultInv'
  OBVIOUS
<1> DEFINE line == Head(text)
           table == setup.lookup
<1>1. /\ step = "tables" /\ text # <<>> /\ text' = Tail(text)
      /\ UNCHANGED <<setup, step, round, caltext, mods, limits, calpars, asked, used>>
  BY DEF Tables!ReadLookup, Tables!Reading
<1>2. Fits(line) /\ boards' = Put(boards, line)
  BY DEF Tables!ReadLookup, Fits, Put
<1>3. table \in Seq(LookupLines) /\ text \in Seq(LookupLines) /\ boards \in Boards
  BY SetupIs DEF PlaceInv, LookupInv
<1>4. line \in LookupLines /\ text' \in Seq(LookupLines)
  BY <1>1, <1>3
<1>5. boards' \in Boards
  <2> HIDE DEF line
  <2> QED BY <1>2, <1>3, <1>4, PutIs
<1>6. CASE round = 1
  <2> DEFINE taken == Len(table) - Len(text)
  <2>1. Rest(text, table) /\ LookupAt(table, taken, boards)
    BY <1>6 DEF LookupInv
  <2>2. /\ taken \in Nat /\ taken + 1 <= Len(table) /\ line = table[taken + 1]
        /\ Rest(Tail(text), table) /\ Len(table) - Len(Tail(text)) = taken + 1
    BY <1>1, <1>3, <2>1, RestTail
  <2> HIDE DEF line, table, taken
  <2>3. LookupAt(table, taken + 1, boards')
    BY <1>2, <1>3, <2>1, <2>2, LookupAtNext
  <2>4. table' = table
    BY <1>1 DEF table
  <2>5. LookupInv'
    BY <1>1, <1>4, <1>5, <1>6, <2>2, <2>3, <2>4 DEF LookupInv, table
  <2> QED BY <1>1, <2>5, CalStays, ResultStays DEF PlaceInv
<1>7. CASE round = 2
  <2>1. LookupAgain(table, text, boards)
    BY <1>7 DEF LookupInv
  <2> HIDE DEF table
  <2>2. LookupAgain(table, Tail(text), Put(boards, Head(text)))
    BY <1>1, <1>3, <2>1, LookupAgainNext
  <2>3. table' = table
    BY <1>1 DEF table
  <2>4. LookupInv'
    BY <1>1, <1>2, <1>4, <1>5, <1>7, <2>2, <2>3 DEF LookupInv, table
  <2> QED BY <1>1, <2>4, CalStays, ResultStays DEF PlaceInv
<1> QED BY <1>6, <1>7 DEF PlaceInv

(* Its assertions fail for a line of the user only.                        *)
LEMMA ReadLookupAbortsStep ==
  PlaceInv /\ LookupInv /\ CalInv /\ ResultInv /\ Tables!ReadLookupAborts =>
    PlaceInv' /\ LookupInv' /\ CalInv' /\ ResultInv'
<1> SUFFICES ASSUME PlaceInv, LookupInv, CalInv, ResultInv, Tables!ReadLookupAborts
             PROVE  PlaceInv' /\ LookupInv' /\ CalInv' /\ ResultInv'
  OBVIOUS
<1> DEFINE line == Head(text)
           table == setup.lookup
<1>1. /\ step = "tables" /\ text # <<>> /\ step' = "aborted"
      /\ UNCHANGED <<setup, round, text, caltext, mods, limits, boards, calpars, asked, used>>
      /\ line.addr \in Tables!Addrs /\ (line.chan \notin Tables!Chans \/ line.fibre.s >= 100)
  BY DEF Tables!ReadLookupAborts, Tables!Reading
<1>2. table \in Seq(LookupLines) /\ text \in Seq(LookupLines) /\ line \in LookupLines
  BY <1>1, SetupIs DEF PlaceInv, LookupInv
<1>3. ~Fits(line)
  <2>1. line.fibre \in Fibres
    BY <1>2 DEF LookupLines
  <2>2. line.fibre.s \in Nat
    BY <2>1 DEF Fibres
  <2>3. line.fibre.s >= 100 => ~(line.fibre.s < 100)
    BY <2>2
  <2> QED BY <1>1, <2>3, Zenon DEF Fits
<1>4. EndsRight(setup, "aborted", round, asked)
  <2>1. CASE round = 1
    <3> DEFINE i == (Len(table) - Len(text)) + 1
    <3>1. Rest(text, table)
      BY <2>1 DEF LookupInv
    <3>2. i \in 1 .. Len(table) /\ line = table[i]
      BY <1>1, <1>2, <3>1, RestTail
    <3> HIDE DEF i
    <3>3. table[i].chan \notin Tables!Chans \/ ~(table[i].fibre.s < 100)
      BY <1>3, <3>2 DEF Fits
    <3> QED BY <3>2, <3>3 DEF EndsRight, TwoDigitsIn
  <2>2. CASE round = 2
    <3>1. LookupAgain(table, text, boards) /\ boards \in Boards
      BY <2>2 DEF LookupInv
    <3> HIDE DEF table, line
    <3>2. Fits(Head(text))
      BY <1>1, <1>2, <3>1, LookupAgainNext
    <3> QED BY <1>3, <3>2 DEF line
  <2> QED BY <2>1, <2>2 DEF PlaceInv
<1>5. ResultInv'
  BY <1>1, <1>4, FoundStays DEF ResultInv
<1> QED BY <1>1, <1>5, LookupStays, CalStays DEF PlaceInv

(* SCalContainer::fromContainer, a line at a time.                         *)
LEMMA ReadCalStep ==
  PlaceInv /\ LookupInv /\ CalInv /\ ResultInv /\ Tables!ReadCal =>
    PlaceInv' /\ LookupInv' /\ CalInv' /\ ResultInv'
<1> SUFFICES ASSUME PlaceInv, LookupInv, CalInv, ResultInv, Tables!ReadCal
             PROVE  PlaceInv' /\ LookupInv' /\ CalInv' /\ ResultInv'
  OBVIOUS
<1> DEFINE line == Head(caltext)
           cals == setup.cal
           sided == Sided(setup)
           key == KeyOf(sided, line.fibre, line.side)
<1>1. /\ step = "tables" /\ caltext # <<>> /\ caltext' = Tail(caltext)
      /\ UNCHANGED <<setup, step, round, text, mods, limits, boards, asked, used>>
  BY DEF Tables!ReadCal, Tables!ReadingCal, Tables!Reading
<1>2. CalInv'
  <2> SUFFICES ASSUME TwoDigitsIn(setup)
               PROVE  /\ caltext' \in Seq(CalLines) /\ KeysAre(sided, calpars')
                      /\ round = 1 => /\ Rest(caltext', cals)
                                      /\ CalAt(cals, sided, Len(cals) - Len(caltext'), calpars')
                      /\ round = 2 => CalAgain(cals, sided, caltext', calpars')
    BY <1>1 DEF CalInv
  <2>1. /\ caltext \in Seq(CalLines) /\ KeysAre(sided, calpars)
        /\ round = 1 => Rest(caltext, cals) /\ CalAt(cals, sided, Len(cals) - Len(caltext), calpars)
        /\ round = 2 => CalAgain(cals, sided, caltext, calpars)
    BY DEF CalInv
  <2>2. /\ cals \in Seq(CalLines) /\ \A i \in 1 .. Len(cals) : cals[i].side \in Sides
        /\ sided \in BOOLEAN /\ \A i \in 1 .. Len(cals) : cals[i].fibre.s < 100
    BY SetupIs DEF PlaceInv, TwoDigitsIn
  <2>3. line \in CalLines /\ caltext' \in Seq(CalLines)
    BY <1>1, <2>1
  <2>4. line.fibre \in Fibres
    BY <2>3 DEF CalLines
  <2>5. line.fibre.s < 100 => calpars' = Added(calpars, key, line.value)
    <3> SUFFICES ASSUME line.fibre.s < 100 PROVE calpars' = Added(calpars, key, line.value)
      OBVIOUS
    <3>1. ~(line.fibre.s >= 100)
      BY <2>4 DEF Fibres
    <3>2. Tables!Key(line.fibre, line.side) = key
      BY DEF Tables!Key, KeyOf, Sided
    <3> DEFINE other == Tables!Key(line.fibre, line.side)
    <3>3. calpars' = [k \in DOMAIN calpars \cup {other} |->
                        IF k \in DOMAIN calpars THEN calpars[k] ELSE line.value]
      BY <3>1 DEF Tables!ReadCal
    <3> QED BY <3>2, <3>3 DEF Added
  <2> HIDE DEF cals, sided
  <2>6. CASE round = 1
    <3> DEFINE taken == Len(cals) - Len(caltext)
    <3>1. /\ taken \in Nat /\ taken + 1 <= Len(cals) /\ line = cals[taken + 1]
          /\ Rest(Tail(caltext), cals) /\ Len(cals) - Len(Tail(caltext)) = taken + 1
      BY <1>1, <2>1, <2>2, <2>6, RestTail
    <3>2. CalAt(cals, sided, taken, calpars)
      BY <2>1, <2>6
    <3>3. taken + 1 \in 1 .. Len(cals)
      BY <3>1
    <3> HIDE DEF taken
    <3>4. cals[taken + 1].side \in Sides /\ cals[taken + 1].fibre.s < 100
      BY <2>2, <3>3
    <3>5. calpars' = Added(calpars, KeyOf(sided, cals[taken + 1].fibre, cals[taken + 1].side), cals[taken + 1].value)
      BY <2>5, <3>1, <3>4
    <3>6. CalAt(cals, sided, taken + 1, calpars')
      BY <2>2, <3>1, <3>2, <3>4, <3>5, CalAtNext
    <3>7. KeysAre(sided, calpars')
      <4>1. cals[taken + 1].fibre \in Fibres
        BY <2>4, <3>1
      <4> QED BY <2>1, <3>4, <3>5, <4>1, KeysAdded
    <3> QED BY <1>1, <2>3, <2>6, <3>1, <3>6, <3>7
  <2>7. CASE round = 2
    <3>1. CalAgain(cals, sided, caltext, calpars)
      BY <2>1, <2>7
    <3>2. /\ Head(caltext).fibre.s < 100
          /\ CalAgain(cals, sided, Tail(caltext),
                      Added(calpars, KeyOf(sided, Head(caltext).fibre, Head(caltext).side), Head(caltext).value))
          /\ KeysAre(sided, Added(calpars, KeyOf(sided, Head(caltext).fibre, Head(caltext).side), Head(caltext).value))
      BY <1>1, <2>1, <2>2, <3>1, CalAgainNext
    <3> QED BY <1>1, <2>3, <2>5, <2>7, <3>2
  <2> QED BY <2>6, <2>7 DEF PlaceInv
<1>3. PlaceInv'
  BY <1>1 DEF PlaceInv
<1> QED BY <1>1, <1>2, <1>3, LookupStays, ResultStays

(* Its assertion fails for a fibre with a third digit only.                *)
LEMMA ReadCalAbortsStep ==
  PlaceInv /\ LookupInv /\ CalInv /\ ResultInv /\ Tables!ReadCalAborts =>
    PlaceInv' /\ LookupInv' /\ CalInv' /\ ResultInv'
<1> SUFFICES ASSUME PlaceInv, LookupInv, CalInv, ResultInv, Tables!ReadCalAborts
             PROVE  PlaceInv' /\ LookupInv' /\ CalInv' /\ ResultInv'
  OBVIOUS
<1> DEFINE cals == setup.cal
<1>1. /\ step = "tables" /\ caltext # <<>> /\ step' = "aborted" /\ Head(caltext).fibre.s >= 100
      /\ UNCHANGED <<setup, round, text, caltext, mods, limits, boards, calpars, asked, used>>
  BY DEF Tables!ReadCalAborts, Tables!ReadingCal, Tables!Reading
<1>2. ~TwoDigitsIn(setup)
  <2> SUFFICES ASSUME TwoDigitsIn(setup) PROVE FALSE
    OBVIOUS
  <2>1. /\ caltext \in Seq(CalLines) /\ KeysAre(Sided(setup), calpars)
        /\ round = 1 => Rest(caltext, cals)
        /\ round = 2 => CalAgain(cals, Sided(setup), caltext, calpars)
    BY DEF CalInv
  <2>2. /\ cals \in Seq(CalLines) /\ Sided(setup) \in BOOLEAN
        /\ \A i \in 1 .. Len(cals) : cals[i].fibre.s < 100
    BY SetupIs DEF PlaceInv, TwoDigitsIn
  <2>3. Head(caltext).fibre.s \in Nat
    <3>1. Head(caltext) \in CalLines
      BY <1>1, <2>1
    <3> QED BY <3>1 DEF CalLines, Fibres
  <2>4. Head(caltext).fibre.s < 100
    <3>1. CASE round = 1
      <4> HIDE DEF cals
      <4> DEFINE i == (Len(cals) - Len(caltext)) + 1
      <4>1. i \in 1 .. Len(cals) /\ Head(caltext) = cals[i]
        BY <1>1, <2>1, <2>2, <3>1, RestTail
      <4> HIDE DEF i
      <4> QED BY <2>2, <4>1
    <3>2. CASE round = 2
      <4> DEFINE sided == Sided(setup)
      <4>1. CalAgain(cals, sided, caltext, calpars) /\ KeysAre(sided, calpars) /\ sided \in BOOLEAN
        BY <2>1, <2>2, <3>2
      <4> HIDE DEF sided, cals
      <4> QED BY <1>1, <2>1, <2>2, <4>1, CalAgainNext
    <3> QED BY <3>1, <3>2 DEF PlaceInv
  <2> QED BY <1>1, <2>3, <2>4
<1>3. ResultInv'
  BY <1>1, <1>2, FoundStays DEF ResultInv, EndsRight
<1> QED BY <1>1, <1>3, LookupStays, CalStays DEF PlaceInv

(* All lines are read.                                                     *)
LEMMA TablesReadStep ==
  PlaceInv /\ LookupInv /\ CalInv /\ ResultInv /\ Tables!TablesRead =>
    PlaceInv' /\ LookupInv' /\ CalInv' /\ ResultInv'
BY LookupStays, CalStays, ResultStays DEF PlaceInv, Tables!TablesRead
-----------------------------------------------------------------------------
(* What a program with all its tables finds for a hit.                     *)

(* The last line for a channel is not taken for an empty channel.          *)
LEMMA LastIs ==
  ASSUME NEW table \in Seq(LookupLines), NEW a, NEW c, LinesOf(table, a, c) # {}
  PROVE  Entry(LastFor(table, a, c)) # None
<1> DEFINE K == LinesOf(table, a, c)
<1>1. K \in SUBSET (1 .. Len(table)) /\ Len(table) \in Nat
  BY DEF LinesOf
<1>2. PICK i \in K : \A j \in K : j <= i
  <2> HIDE DEF K
  <2> QED BY <1>1, GreatestIs DEF K
<1> DEFINE last == CHOOSE k \in K : \A j \in K : j <= k
<1>3. last \in K
  <2> HIDE DEF K
  <2> QED BY <1>2
<1>4. table[last] \in LookupLines
  BY <1>1, <1>3
<1>5. Entry(table[last]) \in [fibre : Fibres, side : Sides]
  BY <1>4 DEF Entry, LookupLines
<1>6. LastFor(table, a, c) = table[last]
  BY DEF LastFor
<1> QED BY <1>5, <1>6, NoneAssumption

(* What a program with all its tables has for a channel.                   *)
LEMMA ChannelIs ==
  ASSUME PlaceInv, LookupInv, step = "hits", NEW h \in Tables!RealHits
  PROVE  /\ h.chan \in Tables!Chans
         /\ Tables!GetAddress(h) = None =>
              h.addr \notin Tables!Addrs \/ LinesOf(setup.lookup, h.addr, h.chan) = {} \/ (round = 2 /\ h.addr = AddrMax)
         /\ Tables!GetAddress(h) # None =>
              /\ Tables!GetAddress(h) \in Entries
              /\ IsLast(setup.lookup, Tables!GetAddress(h), h.addr, h.chan)
              /\ round = 2 => h.addr < AddrMax
<1> DEFINE table == setup.lookup
           a == h.addr
           c == h.chan
           lc == Tables!GetAddress(h)
<1>1. a \in Int /\ c \in Tables!Chans
  <2>1. a \in AddrMin - 1 .. AddrMax + 1 /\ c \in Tables!Chans
    BY DEF Tables!RealHits
  <2>2. \A x \in AddrMin - 1 .. AddrMax + 1 : x \in Int
    OBVIOUS
  <2> HIDE DEF a, c
  <2>3. a \in Int
    BY <2>1, <2>2, Zenon
  <2> QED BY <2>1, <2>3, Zenon
<1>2. lc = IF a \in Tables!Addrs THEN boards[<<a, c>>] ELSE None
  BY Zenon DEF Tables!GetAddress
<1>3. CASE a \notin Tables!Addrs
  BY <1>1, <1>2, <1>3
<1>4. CASE a \in Tables!Addrs
  <2>1. /\ table \in Seq(LookupLines) /\ boards \in Boards /\ text = <<>> /\ Len(text) = 0
        /\ round \in {1, 2}
    BY SetupIs DEF PlaceInv, LookupInv
  <2>2. lc = boards[<<a, c>>] /\ boards[<<a, c>>] \in Entries \cup {None}
    BY <1>1, <1>2, <1>4, <2>1 DEF Boards
  <2>3. CASE round = 1
    <3>1. LookupAt(table, Len(table), boards)
      <4>1. LookupAt(table, Len(table) - Len(text), boards)
        BY <2>3 DEF LookupInv
      <4>2. Len(table) - Len(text) = Len(table)
        BY <2>1
      <4> QED BY <4>1, <4>2
    <3> HIDE DEF table, a, c, lc
    <3>2. IF LinesOf(table, a, c) = {} THEN boards[<<a, c>>] = None
          ELSE IsLast(table, boards[<<a, c>>], a, c)
      BY <1>1, <1>4, <2>1, <3>1, LookupRead
    <3>3. lc = None => LinesOf(table, a, c) = {}
      BY <2>1, <2>2, <3>2, LastIs DEF IsLast
    <3>4. lc # None => lc \in Entries /\ IsLast(table, lc, a, c)
      BY <2>2, <3>2
    <3> QED BY <1>1, <2>3, <3>3, <3>4 DEF table, a, c, lc
  <2>4. CASE round = 2
    <3>1. LookupAgain(table, text, boards)
      BY <2>4 DEF LookupInv
    <3> HIDE DEF table, a, c, lc
    <3>2. /\ boards[<<a, c>>] # None => a < AddrMax /\ IsLast(table, boards[<<a, c>>], a, c)
          /\ a < AddrMax /\ LinesOf(table, a, c) # {} => boards[<<a, c>>] # None \/ Comes(text, a, c)
      BY <1>1, <1>4, <3>1 DEF LookupAgain
    <3>3. ~Comes(text, a, c)
      BY <2>1 DEF Comes
    <3>4. lc = None => a = AddrMax \/ LinesOf(table, a, c) = {}
      BY <1>1, <1>4, <2>2, <3>2, <3>3, BoardsAssumption DEF Tables!Addrs
    <3> QED BY <1>1, <2>2, <2>4, <3>2, <3>4 DEF table, a, c, lc
  <2> QED BY <2>1, <2>3, <2>4
<1> QED BY <1>3, <1>4
(* The calibration of a fibre, the default staying for one without.        *)
LEMMA CalibrationIs ==
  ASSUME PlaceInv, CalInv, step = "hits", TwoDigitsIn(setup),
         NEW fibre \in Fibres, fibre.s < 100, NEW side \in Sides,
         NEW key, key = KeyOf(Sided(setup), fibre, side),
         NEW pars, pars = IF key \in DOMAIN calpars THEN calpars ELSE Added(calpars, key, Default)
  PROVE  /\ pars[key] = IF round = 1 THEN FirstFor(setup.cal, Sided(setup), fibre, side)
                        ELSE Rounded[FirstFor(setup.cal, Sided(setup), fibre, side)]
         /\ KeysAre(Sided(setup), pars)
         /\ round = 1 => CalAt(setup.cal, Sided(setup), Len(setup.cal) - Len(caltext), pars)
         /\ round = 2 => CalAgain(setup.cal, Sided(setup), caltext, pars)
         /\ key \notin DOMAIN calpars => CalsOf(setup.cal, Sided(setup), fibre, side) = {}
<1> DEFINE cals == setup.cal
           sided == Sided(setup)
<1>1. /\ cals \in Seq(CalLines) /\ sided \in BOOLEAN /\ round \in {1, 2}
      /\ caltext = <<>> /\ Len(caltext) = 0
      /\ Len(cals) - Len(caltext) = Len(cals)
      /\ KeysAre(sided, calpars)
  BY SetupIs DEF PlaceInv, CalInv
<1>2. /\ round = 1 => CalAt(cals, sided, Len(cals), calpars)
      /\ round = 2 => CalAgain(cals, sided, <<>>, calpars)
  BY <1>1 DEF CalInv
<1>3. key = KeyOf(sided, fibre, side)
  OBVIOUS
<1> HIDE DEF cals, sided
<1>4. DOMAIN pars = DOMAIN calpars \cup {key}
  BY AddedIs
<1>5. KeysAre(sided, pars)
  BY <1>1, <1>3, KeysAdded
<1>6. /\ round = 1 => CalAt(cals, sided, Len(cals), pars)
      /\ round = 2 => CalAgain(cals, sided, <<>>, pars)
  BY <1>1, <1>2, <1>3, CalAtDefault, CalAgainDefault
<1>7. round = 1 => pars[key] = FirstFor(cals, sided, fibre, side)
  BY <1>3, <1>4, <1>6 DEF CalAt
<1>8. round = 2 => pars[key] = Rounded[FirstFor(cals, sided, fibre, side)]
  BY <1>3, <1>4, <1>6 DEF CalAgain
<1>9. key \notin DOMAIN calpars => CalsOf(cals, sided, fibre, side) = {}
  <2>1. CASE round = 1
    <3>1. CalsOf(cals, sided, fibre, side) \subseteq 1 .. Len(cals) /\ Len(cals) \in Nat
      BY <1>1 DEF CalsOf
    <3>2. \A i \in CalsOf(cals, sided, fibre, side) : i <= Len(cals) => key \in DOMAIN calpars
      BY <1>2, <1>3, <2>1 DEF CalAt
    <3> QED BY <3>1, <3>2
  <2>2. CASE round = 2
    <3>1. CalsOf(cals, sided, fibre, side) # {} => key \in DOMAIN calpars \/ CalComes(<<>>, sided, key)
      BY <1>2, <1>3, <2>2 DEF CalAgain
    <3>2. ~CalComes(<<>>, sided, key)
      BY DEF CalComes
    <3> QED BY <3>1, <3>2
  <2> QED BY <1>1, <2>1, <2>2
<1> QED BY <1>1, <1>5, <1>6, <1>7, <1>8, <1>9 DEF cals, sided

(* The layer of a fibre of the first two modules.                          *)
LEMMA LayerIs ==
  ASSUME PlaceInv, step = "hits", NEW m \in Nat, m <= 2, NEW l, Tables!Layer(m, l) # None
  PROVE  m \in DOMAIN setup.geometry /\ Tables!Layer(m, l) = LayersIn(setup.geometry, m) + l
<1>1. m \in DOMAIN setup.geometry /\ l \in DOMAIN mods[m] /\ Tables!Layer(m, l) = mods[m][l]
  BY DEF Tables!Layer, Tables!Modules
<1>2. mods[m] = [k \in DOMAIN setup.geometry[m] |-> LayersIn(setup.geometry, m) + k]
  BY <1>1 DEF PlaceInv, ModulesAre
<1> QED BY <1>1, <1>2
-----------------------------------------------------------------------------
(* The steps of the hits, and of writing the tables.                       *)

(* A channel without a fibre ends the unpacker.                            *)
LEMMA UnpackExitsStep ==
  ASSUME PlaceInv, LookupInv, CalInv, ResultInv, NEW h \in Tables!RealHits, Tables!UnpackExits(h)
  PROVE  PlaceInv' /\ LookupInv' /\ CalInv' /\ ResultInv'
<1>1. /\ step = "hits" /\ step' = "exited" /\ asked' = h /\ Tables!GetAddress(h) = None
      /\ UNCHANGED <<setup, round, text, caltext, mods, limits, boards, calpars, used>>
  BY DEF Tables!UnpackExits, Tables!Ask
<1>2. EndsRight(setup, "exited", round, h)
  BY <1>1, ChannelIs DEF EndsRight
<1>3. ResultInv'
  BY <1>1, <1>2, FoundStays DEF ResultInv
<1> QED BY <1>1, <1>3, LookupStays, CalStays DEF PlaceInv

(* A fibre without calibration ends the unpacker of the samples.           *)
LEMMA GetParCrashesStep ==
  ASSUME PlaceInv, LookupInv, CalInv, ResultInv, NEW h \in Tables!RealHits, Tables!GetParCrashes(h)
  PROVE  PlaceInv' /\ LookupInv' /\ CalInv' /\ ResultInv'
<1> DEFINE lc == Tables!GetAddress(h)
           key == Tables!Key(lc.fibre, lc.side)
<1>1. /\ step = "hits" /\ step' = "crashed" /\ asked' = h /\ lc # None
      /\ key \notin DOMAIN calpars
      /\ UNCHANGED <<setup, round, text, caltext, mods, limits, boards, calpars, used>>
  BY DEF Tables!GetParCrashes, Tables!Ask
<1>2. lc \in Entries /\ IsLast(setup.lookup, lc, h.addr, h.chan)
  BY <1>1, ChannelIs
<1>3. lc.fibre \in Fibres /\ lc.fibre.s < 100 /\ lc.side \in Sides
  BY <1>2 DEF Entries
<1>4. key = KeyOf(Sided(setup), lc.fibre, lc.side)
  BY DEF Tables!Key, KeyOf, Sided
<1>5. /\ LinesOf(setup.lookup, h.addr, h.chan) # {}
      /\ LastFor(setup.lookup, h.addr, h.chan).fibre = lc.fibre
      /\ LastFor(setup.lookup, h.addr, h.chan).side = lc.side
  BY <1>2 DEF IsLast, Entry
<1>6. TwoDigitsIn(setup) => CalsOf(setup.cal, Sided(setup), lc.fibre, lc.side) = {}
  <2> SUFFICES ASSUME TwoDigitsIn(setup) PROVE CalsOf(setup.cal, Sided(setup), lc.fibre, lc.side) = {}
    OBVIOUS
  <2> DEFINE pars == IF key \in DOMAIN calpars THEN calpars ELSE Added(calpars, key, Default)
  <2>1. pars = IF key \in DOMAIN calpars THEN calpars ELSE Added(calpars, key, Default)
    OBVIOUS
  <2> HIDE DEF pars, lc, key
  <2> QED BY <1>1, <1>3, <1>4, <2>1, CalibrationIs
<1>7. EndsRight(setup, "crashed", round, h)
  BY <1>5, <1>6 DEF EndsRight
<1>8. ResultInv'
  BY <1>1, <1>7, FoundStays DEF ResultInv
<1> QED BY <1>1, <1>8, LookupStays, CalStays DEF PlaceInv

(* One more hit for which the right things were found.                     *)
LEMMA FoundNext ==
  ASSUME ResultInv, UNCHANGED setup, step' = "hits",
         NEW u, FoundRight(setup, u), used' = used \cup {u}
  PROVE  ResultInv'
<1>1. \A v \in used' : FoundRight(setup', v)
  BY DEF ResultInv
<1>2. EndsRight(setup', step', round', asked')
  BY DEF EndsRight
<1> QED BY <1>1, <1>2 DEF ResultInv

(* SLookupTable::getAddress and SCalContainer::getPar.                     *)
LEMMA GetParStep ==
  ASSUME PlaceInv, LookupInv, CalInv, ResultInv, NEW h \in Tables!RealHits, Tables!GetPar(h)
  PROVE  PlaceInv' /\ LookupInv' /\ CalInv' /\ ResultInv'
<1> DEFINE lc == Tables!GetAddress(h)
           fibre == lc.fibre
           side == lc.side
           key == Tables!Key(fibre, side)
           layer == Tables!Layer(fibre.m, fibre.l)
           u == [hit |-> h, round |-> round, fibre |-> fibre, side |-> side,
                 value |-> calpars'[key], layer |-> layer]
<1>1. /\ step = "hits" /\ step' = "hits" /\ asked' = h /\ lc # None
      /\ UNCHANGED <<setup, round, text, caltext, mods, limits, boards>>
  BY DEF Tables!GetPar, Tables!Ask
<1>2. calpars' = IF key \in DOMAIN calpars THEN calpars
                 ELSE [k \in DOMAIN calpars \cup {key} |-> IF k = key THEN Default ELSE calpars[k]]
  BY DEF Tables!GetPar
<1>3. used' = used \cup {u}
  BY DEF Tables!GetPar, Tables!Found
<1>4. /\ lc \in Entries /\ IsLast(setup.lookup, lc, h.addr, h.chan)
      /\ round = 2 => h.addr < AddrMax
  BY <1>1, ChannelIs
<1>5. /\ fibre \in Fibres /\ fibre.s < 100 /\ side \in Sides
      /\ lc = [fibre |-> fibre, side |-> side]
  BY <1>4 DEF Entries
<1>6. key = KeyOf(Sided(setup), fibre, side)
  BY DEF Tables!Key, KeyOf, Sided
<1>7. calpars' = IF key \in DOMAIN calpars THEN calpars ELSE Added(calpars, key, Default)
  <2> HIDE DEF key
  <2> QED BY <1>2 DEF Added
<1>8. ASSUME TwoDigitsIn(setup)
      PROVE  /\ calpars'[key] = IF round = 1 THEN FirstFor(setup.cal, Sided(setup), fibre, side)
                               ELSE Rounded[FirstFor(setup.cal, Sided(setup), fibre, side)]
             /\ KeysAre(Sided(setup), calpars')
             /\ round = 1 => CalAt(setup.cal, Sided(setup), Len(setup.cal) - Len(caltext), calpars')
             /\ round = 2 => CalAgain(setup.cal, Sided(setup), caltext, calpars')
  <2> HIDE DEF lc, fibre, side, key
  <2> QED BY <1>1, <1>5, <1>6, <1>7, <1>8, CalibrationIs
<1>9. CalInv'
  <2> HIDE DEF key
  <2> QED BY <1>1, <1>8 DEF CalInv
<1>10. fibre.m <= 2 /\ layer # None =>
         fibre.m \in DOMAIN setup.geometry /\ layer = LayersIn(setup.geometry, fibre.m) + fibre.l
  <2>1. fibre.m \in Nat
    BY <1>5 DEF Fibres
  <2> HIDE DEF lc, fibre
  <2> QED BY <1>1, <2>1, LayerIs
<1>11. h.addr = h.addr /\ "m" \notin DOMAIN h
  BY DEF Tables!RealHits
<1>12. FoundRight(setup, u)
  <2> HIDE DEF lc, fibre, side, key, layer
  <2>1. /\ u.hit = h /\ u.round = round /\ u.fibre = fibre /\ u.side = side
        /\ u.value = calpars'[key] /\ u.layer = layer
    OBVIOUS
  <2> HIDE DEF u
  <2> QED BY <1>4, <1>5, <1>8, <1>10, <1>11, <2>1 DEF FoundRight
<1>13. ResultInv'
  <2> HIDE DEF u
  <2> QED BY <1>1, <1>3, <1>12, FoundNext
<1> QED BY <1>1, <1>9, <1>13, LookupStays DEF PlaceInv

(* SFibersDigitizer::execute.                                              *)
LEMMA DigitizeStep ==
  ASSUME PlaceInv, LookupInv, CalInv, ResultInv, NEW h \in Tables!SimulatedHits, Tables!Digitize(h)
  PROVE  PlaceInv' /\ LookupInv' /\ CalInv' /\ ResultInv'
<1> DEFINE geometry == setup.geometry
           below == {l \in DOMAIN limits[h.m] : h.number < limits[h.m][l]}
           lay == CHOOSE l \in below : \A k \in below : l <= k
           fibre == IF below = {} THEN [m |-> h.m, l |-> 1, s |-> 0]
                    ELSE [m |-> h.m, l |-> lay,
                          s |-> h.number - (IF lay > 1 THEN limits[h.m][lay - 1] ELSE 0)]
           layer == Tables!Layer(fibre.m, fibre.l)
           u == [hit |-> h, round |-> round, fibre |-> fibre, side |-> "both",
                 value |-> None, layer |-> layer]
<1>1. /\ step = "hits" /\ step' = "hits" /\ asked' = h
      /\ UNCHANGED <<setup, round, text, caltext, mods, limits, boards, calpars>>
  BY DEF Tables!Digitize, Tables!Ask
<1>2. used' = used \cup {u}
  BY DEF Tables!Digitize, Tables!Found
<1>3. /\ geometry \in Seq(Seq(Nat \ {0})) /\ LimitsAre(geometry, limits)
  BY <1>1, SetupIs DEF PlaceInv
<1>4. /\ h.m \in DOMAIN geometry /\ "addr" \notin DOMAIN h
      /\ h.number \in 0 .. Tables!UpTo(geometry[h.m])[Len(geometry[h.m])]
  <2>1. PICK m \in Tables!Modules : h \in [m : {m}, number : 0 .. Tables!FibresOf(m)]
    BY DEF Tables!SimulatedHits
  <2> QED BY <2>1 DEF Tables!Modules, Tables!FibresOf
<1>5. h.m \in Nat /\ fibre.m = h.m
  BY <1>3, <1>4
<1>6. h.m <= 2 => Numbered(geometry, fibre, h.m, h.number)
  <2> SUFFICES ASSUME h.m <= 2 PROVE Numbered(geometry, fibre, h.m, h.number)
    OBVIOUS
  <2>1. fibre = FibreAt(limits, h.m, h.number)
    BY DEF FibreAt, Above, FirstLayer
  <2> HIDE DEF geometry, fibre
  <2> QED BY <1>3, <1>4, <2>1, DigitizeFinds
<1>7. fibre.m <= 2 /\ layer # None =>
         fibre.m \in DOMAIN geometry /\ layer = LayersIn(geometry, fibre.m) + fibre.l
  <2> HIDE DEF fibre, below, lay
  <2> QED BY <1>1, <1>5, LayerIs
<1>8. FoundRight(setup, u)
  <2> HIDE DEF below, lay, fibre, layer
  <2>1. u.hit = h /\ u.round = round /\ u.fibre = fibre /\ u.layer = layer
    OBVIOUS
  <2> HIDE DEF u
  <2> QED BY <1>4, <1>6, <1>7, <2>1 DEF FoundRight
<1>9. ResultInv'
  <2> HIDE DEF u
  <2> QED BY <1>1, <1>2, <1>8, FoundNext
<1> QED BY <1>1, <1>9, LookupStays, CalStays DEF PlaceInv

(* toContainer of both tables, and the beginning of another program.       *)
LEMMA WriteTablesStep ==
  ASSUME PlaceInv, LookupInv, CalInv, ResultInv, Tables!WriteTables
  PROVE  PlaceInv' /\ LookupInv' /\ CalInv' /\ ResultInv'
<1> DEFINE table == setup.lookup
           cals == setup.cal
           sided == Sided(setup)
<1>1. /\ step = "hits" /\ round = 1 /\ round' = 2 /\ step' = "tables" /\ asked' = None
      /\ text' = Tables!WrittenLookup /\ caltext' = Tables!WrittenCal
      /\ boards' = Tables!NoBoards /\ calpars' = Tables!NoPars
      /\ UNCHANGED <<setup, mods, limits, used>>
  BY DEF Tables!WriteTables
<1>2. /\ table \in Seq(LookupLines) /\ cals \in Seq(CalLines) /\ boards \in Boards
      /\ text = <<>> /\ caltext = <<>>
  BY <1>1, SetupIs DEF PlaceInv, LookupInv
<1>3. LookupAt(table, Len(table), boards)
  <2>1. LookupAt(table, Len(table) - Len(text), boards)
    BY <1>1 DEF LookupInv
  <2>2. Len(table) - Len(text) = Len(table)
    BY <1>2
  <2> QED BY <2>1, <2>2
<1>4. LookupAgain(table, text', boards') /\ boards' \in Boards /\ text' \in Seq(LookupLines)
  <2> HIDE DEF table
  <2>1. \A a \in Tables!Addrs, c \in Tables!Chans :
          IF LinesOf(table, a, c) = {} THEN boards[<<a, c>>] = None
          ELSE IsLast(table, boards[<<a, c>>], a, c)
    BY <1>2, <1>3, LookupRead
  <2>2. LookupAgain(table, Tables!WrittenLookup, Tables!NoBoards) /\ Tables!NoBoards \in Boards
    BY <1>2, <2>1, WrittenLookupRead
  <2>3. Tables!WrittenLookup \in Seq(LookupLines)
    BY <1>2, WrittenLookupIs
  <2> QED BY <1>1, <2>2, <2>3
<1>5. LookupInv'
  <2>1. table' = table
    BY <1>1
  <2> QED BY <1>1, <1>4, <2>1 DEF LookupInv
<1>6. ASSUME TwoDigitsIn(setup)
      PROVE  caltext' \in Seq(CalLines) /\ CalAgain(cals, sided, caltext', calpars') /\ KeysAre(sided, calpars')
  <2>1. KeysAre(sided, calpars) /\ CalAt(cals, sided, Len(cals) - Len(caltext), calpars)
    BY <1>1, <1>6 DEF CalInv
  <2>2. Len(cals) - Len(caltext) = Len(cals)
    BY <1>2
  <2>3. sided = (setup.kind = "DD")
    BY DEF Sided
  <2> HIDE DEF cals, sided
  <2> QED BY <1>1, <1>2, <2>1, <2>2, <2>3, WrittenCalRead
<1>7. CalInv'
  BY <1>1, <1>6 DEF CalInv
<1> QED BY <1>1, <1>5, <1>7, ResultStays DEF PlaceInv
-----------------------------------------------------------------------------
(* The property, for every program.                                        *)

(* The words of the property are those of the invariant.                   *)
LEMMA TablesSay ==
  ASSUME PlaceInv
  PROVE  /\ \A h : Tables!LinesFor(h) = LinesOf(setup.lookup, h.addr, h.chan)
         /\ \A h : Tables!LastLine(h) = LastFor(setup.lookup, h.addr, h.chan)
         /\ \A f, s : Tables!CalsFor(f, s) = CalsOf(setup.cal, Sided(setup), f, s)
         /\ \A f, s : Tables!FirstCal(f, s) = FirstFor(setup.cal, Sided(setup), f, s)
         /\ Tables!TwoDigits = TwoDigitsIn(setup)
         /\ \A m \in DOMAIN setup.geometry : m <= 2 => Tables!LayersBefore(m) = LayersIn(setup.geometry, m)
         /\ \A f, m, number : Numbered(setup.geometry, f, m, number) =>
              \/ Tables!IsNumber(f, m, number)
              \/ number = Tables!FibresOf(m) /\ f.l = 1 /\ f.s = 0
<1>1. /\ setup.geometry \in Seq(Seq(Nat \ {0}))
      /\ DOMAIN setup.lookup = 1 .. Len(setup.lookup) /\ DOMAIN setup.cal = 1 .. Len(setup.cal)
  BY SetupIs DEF PlaceInv
<1>2. \A h : Tables!LinesFor(h) = LinesOf(setup.lookup, h.addr, h.chan)
  BY <1>1, Zenon DEF Tables!LinesFor, LinesOf
<1>3. \A h : Tables!LastLine(h) = LastFor(setup.lookup, h.addr, h.chan)
  BY <1>2, Zenon DEF Tables!LastLine, LastFor
<1>4. \A f, s : Tables!CalsFor(f, s) = CalsOf(setup.cal, Sided(setup), f, s)
  BY <1>1, Zenon DEF Tables!CalsFor, CalsOf, Sided
<1>5. \A f, s : Tables!FirstCal(f, s) = FirstFor(setup.cal, Sided(setup), f, s)
  <2>1. \A f, s : Tables!FirstCal(f, s) = FirstOf(setup.cal, Tables!CalsFor(f, s))
    BY Zenon DEF Tables!FirstCal, FirstOf
  <2> QED BY <1>4, <2>1, Zenon DEF FirstFor
<1>6. Tables!TwoDigits = TwoDigitsIn(setup)
  BY <1>1, Zenon DEF Tables!TwoDigits, TwoDigitsIn
<1>7. \A m \in DOMAIN setup.geometry : m <= 2 => Tables!LayersBefore(m) = LayersIn(setup.geometry, m)
  BY <1>1, LayerIndexIs
<1>8. \A f, m, number : Numbered(setup.geometry, f, m, number) =>
        \/ Tables!IsNumber(f, m, number)
        \/ number = Tables!FibresOf(m) /\ f.l = 1 /\ f.s = 0
  BY Zenon DEF Numbered, Tables!IsNumber, Tables!FibresOf
<1> QED BY <1>2, <1>3, <1>4, <1>5, <1>6, <1>7, <1>8

(* The property follows from what was found right.                         *)
LEMMA HitsFind == PlaceInv /\ ResultInv => Tables!HitsFindTheirFibre
<1> SUFFICES ASSUME PlaceInv, ResultInv PROVE Tables!HitsFindTheirFibre
  OBVIOUS
<1>1. ASSUME NEW u \in used, "addr" \in DOMAIN u.hit, Tables!TwoDigits
      PROVE  /\ Tables!LinesFor(u.hit) # {}
             /\ u.fibre = Tables!LastLine(u.hit).fibre /\ u.side = Tables!LastLine(u.hit).side
             /\ u.value = IF u.round = 1 THEN Tables!FirstCal(u.fibre, u.side)
                          ELSE Rounded[Tables!FirstCal(u.fibre, u.side)]
  <2>1. /\ IsLast(setup.lookup, [fibre |-> u.fibre, side |-> u.side], u.hit.addr, u.hit.chan)
        /\ u.value = IF u.round = 1 THEN FirstFor(setup.cal, Sided(setup), u.fibre, u.side)
                     ELSE Rounded[FirstFor(setup.cal, Sided(setup), u.fibre, u.side)]
    BY <1>1, TablesSay DEF ResultInv, FoundRight
  <2> QED BY <2>1, TablesSay DEF IsLast, Entry
<1>2. ASSUME NEW u \in used, u.fibre.m <= 2, u.layer # None
      PROVE  u.layer = Tables!LayersBefore(u.fibre.m) + u.fibre.l
  BY <1>2, TablesSay DEF ResultInv, FoundRight
<1>3. ASSUME NEW u \in used, "m" \in DOMAIN u.hit, u.hit.m <= 2
      PROVE  \/ Tables!IsNumber(u.fibre, u.hit.m, u.hit.number)
             \/ u.hit.number = Tables!FibresOf(u.hit.m) /\ u.fibre.l = 1 /\ u.fibre.s = 0
  BY <1>3, TablesSay DEF ResultInv, FoundRight
<1>4. step = "exited" =>
        asked.addr \notin Tables!Addrs \/ Tables!LinesFor(asked) = {} \/ (round = 2 /\ asked.addr = AddrMax)
  BY TablesSay DEF ResultInv, EndsRight
<1>5. step = "crashed" /\ Tables!TwoDigits =>
        /\ Tables!LinesFor(asked) # {}
        /\ Tables!CalsFor(Tables!LastLine(asked).fibre, Tables!LastLine(asked).side) = {}
  BY TablesSay DEF ResultInv, EndsRight
<1>6. step = "aborted" =>
        ~Tables!TwoDigits \/ \E i \in DOMAIN setup.lookup : setup.lookup[i].chan \notin Tables!Chans
  <2>1. DOMAIN setup.lookup = 1 .. Len(setup.lookup)
    BY SetupIs DEF PlaceInv
  <2> QED BY <2>1, TablesSay DEF ResultInv, EndsRight
<1> QED BY <1>1, <1>2, <1>3, <1>4, <1>5, <1>6 DEF Tables!HitsFindTheirFibre

(* The beginning: the whole tables are still to be read.                   *)
LEMMA TablesInit ==
  ASSUME Tables!Init
  PROVE  PlaceInv /\ LookupInv /\ CalInv /\ ResultInv
<1> DEFINE table == setup.lookup
           cals == setup.cal
           sided == Sided(setup)
<1>1. /\ setup \in Setups /\ step = "geometry" /\ round = 1 /\ text = table /\ caltext = cals
      /\ boards = Tables!NoBoards /\ calpars = Tables!NoPars /\ used = {}
      /\ table \in Seq(LookupLines) /\ cals \in Seq(CalLines) /\ sided \in BOOLEAN
  BY SetupIs DEF Tables!Init
<1>2. LookupInv
  <2> HIDE DEF table
  <2>1. /\ Tables!NoBoards \in Boards
        /\ \A a \in Tables!Addrs, c \in Tables!Chans : Tables!NoBoards[<<a, c>>] = None
    BY DEF Tables!NoBoards, Boards
  <2>2. Rest(table, table) /\ Len(table) - Len(table) = 0
    BY <1>1 DEF Rest
  <2>3. LookupAt(table, 0, Tables!NoBoards)
    <3>1. \A a, c : \A i \in LinesOf(table, a, c) : ~(i <= 0)
      BY <1>1 DEF LinesOf
    <3> QED BY <2>1, <3>1 DEF LookupAt
  <2>4. Rest(text, table) /\ LookupAt(table, Len(table) - Len(text), boards)
    BY <1>1, <2>2, <2>3
  <2> QED BY <1>1, <2>1, <2>4 DEF LookupInv, table
<1>3. CalInv
  <2> HIDE DEF cals, sided
  <2>1. DOMAIN Tables!NoPars = {}
    BY DEF Tables!NoPars
  <2>2. KeysAre(sided, Tables!NoPars)
    BY <2>1, FS_EmptySet DEF KeysAre
  <2>3. Rest(cals, cals) /\ Len(cals) - Len(cals) = 0
    BY <1>1 DEF Rest
  <2>4. CalAt(cals, sided, 0, Tables!NoPars)
    <3>1. \A f, s : \A i \in CalsOf(cals, sided, f, s) : ~(i <= 0)
      BY <1>1 DEF CalsOf
    <3> QED BY <2>1, <3>1 DEF CalAt
  <2>5. Rest(caltext, cals) /\ CalAt(cals, sided, Len(cals) - Len(caltext), calpars)
    BY <1>1, <2>3, <2>4
  <2> QED BY <1>1, <2>2, <2>5 DEF CalInv, cals, sided
<1>4. PlaceInv /\ ResultInv
  BY <1>1 DEF PlaceInv, ResultInv, EndsRight
<1> QED BY <1>2, <1>3, <1>4

(* Every step of a program.                                                *)
LEMMA TablesNext ==
  ASSUME PlaceInv, LookupInv, CalInv, ResultInv, Tables!Next
  PROVE  PlaceInv' /\ LookupInv' /\ CalInv' /\ ResultInv'
<1>1. CASE Tables!GetParams
  BY <1>1, GetParamsStep
<1>2. CASE Tables!InitDigitizer
  BY <1>2, InitDigitizerStep
<1>3. CASE Tables!ReadLookup
  BY <1>3, ReadLookupStep
<1>4. CASE Tables!ReadLookupAborts
  BY <1>4, ReadLookupAbortsStep
<1>5. CASE Tables!ReadCal
  BY <1>5, ReadCalStep
<1>6. CASE Tables!ReadCalAborts
  BY <1>6, ReadCalAbortsStep
<1>7. CASE Tables!TablesRead
  BY <1>7, TablesReadStep
<1>8. ASSUME NEW h \in Tables!RealHits,
             Tables!UnpackExits(h) \/ Tables!GetPar(h) \/ Tables!GetParCrashes(h)
      PROVE  PlaceInv' /\ LookupInv' /\ CalInv' /\ ResultInv'
  BY <1>8, UnpackExitsStep, GetParStep, GetParCrashesStep
<1>9. ASSUME NEW h \in Tables!SimulatedHits, Tables!Digitize(h)
      PROVE  PlaceInv' /\ LookupInv' /\ CalInv' /\ ResultInv'
  BY <1>9, DigitizeStep
<1>10. CASE Tables!WriteTables
  BY <1>10, WriteTablesStep
<1> QED BY <1>1, <1>2, <1>3, <1>4, <1>5, <1>6, <1>7, <1>8, <1>9, <1>10 DEF Tables!Next

(* What holds of the tables at every step of every program.                *)
THEOREM TablesInvCorrect == ParametersSpec => []TablesInv
<1>1. ParametersInit => TablesInv
  BY TablesInit DEF ParametersInit, TablesInv
<1>2. TablesInv /\ [ParametersNext]_<<topic, vars, container, tables>> => TablesInv'
  <2> SUFFICES ASSUME TablesInv, [ParametersNext]_<<topic, vars, container, tables>>, topic' = "tables"
               PROVE  PlaceInv' /\ LookupInv' /\ CalInv' /\ ResultInv'
    BY DEF TablesInv
  <2>1. topic = "tables"
    BY DEF ParametersNext
  <2>2. PlaceInv /\ LookupInv /\ CalInv /\ ResultInv
    BY <2>1 DEF TablesInv
  <2>3. CASE Tables!Next
    BY <2>2, <2>3, TablesNext
  <2>4. CASE UNCHANGED tables
    BY <2>2, <2>4, LookupStays, CalStays DEF tables, PlaceInv, ResultInv
  <2> QED BY <2>1, <2>3, <2>4 DEF ParametersNext
<1> QED BY <1>1, <1>2, PTL DEF ParametersSpec

(* Whatever the tables of the user are, with any number of lines, of modules *)
(* and of hits: every hit finds the fibre of the last line for its channel, *)
(* the first calibration of that fibre and, in the first two modules, its  *)
(* layer, also with tables that were written by another program, and a     *)
(* program ends only for what the tables of the user lack or cannot say.   *)
THEOREM TablesCorrect == ParametersSpec => []HitsFindTheirFibre
<1>1. TablesInv => HitsFindTheirFibre
  BY HitsFind DEF TablesInv, HitsFindTheirFibre
<1> QED BY <1>1, TablesInvCorrect, PTL
=============================================================================

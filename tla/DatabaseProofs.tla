--------------------------- MODULE DatabaseProofs ---------------------------
(***************************************************************************)
(* Proofs about Database and the source it constructs: for any number of   *)
(* names, lines and sources, a container has the lines of the first        *)
(* section with its name, an object those of the first source that has it; *)
(* and when no name is registered for two kinds, the maps by name tell     *)
(* exactly which objects have been filled.                                 *)
(***************************************************************************)
EXTENDS Database, TLAPS, WellFoundedInduction

(* The loop is in the section that began last; its container was freed if  *)
(* that was not the first one with the name.                               *)
IsCurrent(c) ==
  /\ c \in 1 .. next /\ file[c] = Section(cont_name)
  /\ \A d \in c + 1 .. next : file[d].kind # "section"

CurrentSection ==
  /\ cont_name = None => \A c \in 1 .. next : file[c].kind # "section"
  /\ cont_name # None =>
       \E c \in 1 .. next :
         /\ IsCurrent(c)
         /\ cont_freed <=> \E b \in 1 .. c - 1 : file[b] = Section(cont_name)

(* A source is constructed when there is room for it.                      *)
RoomForSource == state # "closed" => Len(sources) < MaxSources

(* An object was registered before it was filled.                          *)
FilledAreRegistered == \A o \in Objects : filled[o] # None => o \in registered

(* The maps by name agree with the objects, for names with one kind.       *)
MapsTellFilled == \A o \in Registrable : filled[o] # None <=> WasRead(o)

(* Before a source is opened nothing of it has been read.                  *)
NothingOpen ==
  state = "closed" => next = 0 /\ containers = NoContainers /\ cont_name = None

SourceInv ==
  /\ SourceTypeOK
  /\ SectionsAreRead
  /\ CurrentSection
  /\ NothingOpen

Inv ==
  /\ TypeOK
  /\ SourceInv
  /\ RoomForSource
  /\ FilledAreRegistered
  /\ FirstSourceWins
-----------------------------------------------------------------------------
(* A set of numbers that is not empty has a least one.                     *)
LEMMA LeastNumber ==
  ASSUME NEW S \in SUBSET Nat, S # {}
  PROVE  \E s \in S : \A t \in S : s <= t
<1>1. IsWellFoundedOn(OpToRel(<, Nat), Nat)
  BY NatLessThanWellFounded
<1>2. PICK s \in S : \A t \in S : <<t, s>> \notin OpToRel(<, Nat)
  BY <1>1, WFMin
<1>3. ASSUME NEW t \in S PROVE s <= t
  <2>1. ~(t < s)
    BY <1>2 DEF OpToRel
  <2> QED BY <2>1
<1> QED BY <1>3

(* The loop over the sources ends at the first one that has the name.      *)
LEMMA FirstHavingIsFirst ==
  ASSUME TypeOK, NEW n \in Names, Having(n) # {}
  PROVE  /\ FirstHaving(n) \in DOMAIN sources
         /\ sources[FirstHaving(n)][n] \in Seq(Nat)
         /\ Store!IsFirst(FirstHaving(n), n)
<1>1. DOMAIN sources = 1 .. Len(sources) /\ Len(sources) \in Nat
  BY DEF TypeOK
<1>2. Having(n) \in SUBSET Nat
  BY <1>1 DEF Having
<1>3. \E s \in Having(n) : \A t \in Having(n) : s <= t
  BY <1>2, LeastNumber
<1>4. FirstHaving(n) \in Having(n) /\ \A t \in Having(n) : FirstHaving(n) <= t
  BY <1>3 DEF FirstHaving
<1> HIDE DEF FirstHaving
<1>5. FirstHaving(n) \in DOMAIN sources /\ sources[FirstHaving(n)][n] # None
  BY <1>4 DEF Having
<1>6. sources[FirstHaving(n)] \in [Names -> Seq(Nat) \cup {None}]
  BY <1>5 DEF TypeOK
<1>7. ASSUME NEW t \in 1 .. FirstHaving(n) - 1, sources[t][n] # None PROVE FALSE
  <2>1. t \in DOMAIN sources
    BY <1>1, <1>5
  <2>2. t \in Having(n)
    BY <2>1, <1>7 DEF Having
  <2> QED BY <2>2, <1>1, <1>4, <1>5
<1> QED BY <1>5, <1>6, <1>7 DEF Store!IsFirst
-----------------------------------------------------------------------------
(* What a line is.                                                         *)
LEMMA LineKinds ==
  ASSUME SourceTypeOK, next < Len(file)
  PROVE  /\ next \in Nat /\ next + 1 \in 1 .. Len(file)
         /\ file[next + 1] \in Lines
         /\ file[next + 1].kind = "section" =>
              file[next + 1].name \in Names /\ file[next + 1] = Section(file[next + 1].name)
         /\ file[next + 1].kind = "param" => file[next + 1] = Param
<1>1. file \in Seq(Lines) /\ next \in 0 .. Len(file) /\ Len(file) \in Nat
  BY DEF SourceTypeOK
<1>2. next \in Nat /\ next + 1 \in 1 .. Len(file)
  BY <1>1
<1>3. file[next + 1] \in Lines
  BY <1>1, <1>2
<1>4. file[next + 1].kind = "section" =>
        file[next + 1].name \in Names /\ file[next + 1] = Section(file[next + 1].name)
  <2>1. Param.kind = "param" /\ Blank.kind = "blank"
    BY DEF Param, Blank
  <2>2. \A n \in Names : Section(n).name = n
    BY DEF Section
  <2> QED BY <1>3, <2>1, <2>2 DEF Lines
<1>5. file[next + 1].kind = "param" => file[next + 1] = Param
  <2>1. \A n \in Names : Section(n).kind = "section"
    BY DEF Section
  <2>2. Blank.kind = "blank"
    BY DEF Blank
  <2> QED BY <1>3, <2>1, <2>2 DEF Lines
<1> QED BY <1>2, <1>3, <1>4, <1>5
-----------------------------------------------------------------------------
(* The file is the same and one more line of it has been taken.            *)
LEMMA LineTaken ==
  ASSUME SourceTypeOK, NEW kind, ReadLine(kind)
  PROVE  /\ next \in Nat /\ next' = next + 1 /\ file' = file /\ newline' = newline
         /\ next + 1 \in 1 .. Len(file) /\ Len(file) \in Nat
         /\ file[next + 1] \in Lines /\ file[next + 1].kind = kind
         /\ 1 .. next' = (1 .. next) \cup {next + 1} /\ next + 1 \notin 1 .. next
         /\ next' \in 0 .. Len(file)'
<1>1. next < Len(file) /\ next' = next + 1 /\ file' = file /\ file[next + 1].kind = kind
      /\ newline' = newline
  BY DEF ReadLine
<1>2. next \in Nat /\ Len(file) \in Nat
  BY DEF SourceTypeOK
<1> QED BY <1>1, <1>2, LineKinds

(* What a line that is taken adds to a section.                            *)
LEMMA ParamLinesTaken ==
  ASSUME next \in Nat, next' = next + 1, file' = file, NEW b \in 1 .. next
  PROVE  /\ ParamLines(b) \subseteq 1 .. next
         /\ ParamLines(b)' = IF next + 1 \in ParamLines(b)'
                               THEN ParamLines(b) \cup {next + 1} ELSE ParamLines(b)
         /\ file[next + 1] # Param => next + 1 \notin ParamLines(b)'
<1>1. ParamLines(b) \subseteq 1 .. next
  BY DEF ParamLines
<1>2. ASSUME NEW k PROVE k \in ParamLines(b)' => k \in ParamLines(b) \/ k = next + 1
  BY DEF ParamLines
<1>3. ASSUME NEW k \in ParamLines(b) PROVE k \in ParamLines(b)'
  BY DEF ParamLines
<1>4. file[next + 1] # Param => next + 1 \notin ParamLines(b)'
  BY DEF ParamLines
<1>5. next + 1 \notin ParamLines(b)
  BY <1>1
<1> HIDE DEF ParamLines
<1>6. ParamLines(b)' = IF next + 1 \in ParamLines(b)'
                         THEN ParamLines(b) \cup {next + 1} ELSE ParamLines(b)
  BY <1>2, <1>3, <1>5
<1> QED BY <1>1, <1>4, <1>6

(* A line that is not in the first section with a name leaves what has     *)
(* been read of it.                                                        *)
LEMMA OtherLine ==
  ASSUME next \in Nat, next' = next + 1, file' = file,
         NEW n \in Names, FirstSectionRead(n), containers'[n] = containers[n],
         containers[n] = None => file[next + 1] # Section(n),
         \A b \in 1 .. next : Begins(n, b) => next + 1 \notin ParamLines(b)'
  PROVE  FirstSectionRead(n)'
<1>0. 1 .. next' = (1 .. next) \cup {next + 1}
  OBVIOUS
<1>1. CASE containers[n] = None
  BY <1>0, <1>1 DEF FirstSectionRead
<1>2. CASE containers[n] # None
  <2>1. PICK b \in 1 .. next :
          /\ Begins(n, b)
          /\ {containers[n][i] : i \in DOMAIN containers[n]} = ParamLines(b)
          /\ \A i, j \in DOMAIN containers[n] : i < j => containers[n][i] < containers[n][j]
    BY <1>2 DEF FirstSectionRead
  <2>2. Begins(n, b)'
    BY <1>0, <2>1 DEF Begins
  <2>3. ParamLines(b)' = ParamLines(b)
    BY <2>1, ParamLinesTaken
  <2> QED BY <1>0, <1>2, <2>1, <2>2, <2>3 DEF FirstSectionRead
<1> QED BY <1>1, <1>2

(* The parser is still in the section it was in.                           *)
LEMMA SameSection ==
  ASSUME next \in Nat, next' = next + 1, file' = file, CurrentSection,
         file[next + 1].kind # "section",
         cont_name' = cont_name, cont_freed' = cont_freed
  PROVE  CurrentSection'
<1>0. 1 .. next' = (1 .. next) \cup {next + 1}
  OBVIOUS
<1>1. CASE cont_name = None
  BY <1>0, <1>1 DEF CurrentSection
<1>2. CASE cont_name # None
  <2>1. PICK c \in 1 .. next :
          /\ IsCurrent(c)
          /\ cont_freed <=> \E b \in 1 .. c - 1 : file[b] = Section(cont_name)
    BY <1>2 DEF CurrentSection
  <2>2. \A d \in c + 1 .. next + 1 : d \in c + 1 .. next \/ d = next + 1
    OBVIOUS
  <2>3. IsCurrent(c)'
    BY <1>0, <2>1, <2>2 DEF IsCurrent
  <2> QED BY <1>0, <1>2, <2>1, <2>3 DEF CurrentSection
<1> QED BY <1>1, <1>2

-----------------------------------------------------------------------------
(* A line with the name of a section: its container is new, or was there   *)
(* and is not touched.                                                     *)
LEMMA ReadSectionKeeps ==
  ASSUME SourceTypeOK, SectionsAreRead, CurrentSection, ReadSection
  PROVE  SourceTypeOK' /\ SectionsAreRead' /\ CurrentSection'
<1>0. ReadLine("section")
  BY DEF ReadSection
<1>1. PICK m \in Names : m = file[next + 1].name /\ file[next + 1] = Section(m) /\ m # None
  BY <1>0, LineTaken, LineKinds, NoneAssumption DEF ReadLine
<1>2. /\ cont_name' = m
      /\ cont_freed' = (containers[m] # None)
      /\ containers[m] # None => containers' = containers
      /\ containers[m] = None => containers' = [containers EXCEPT ![m] = <<>>]
      /\ state' = state
  <2>1. /\ cont_name' = m /\ state' = state
        /\ cont_freed' = (containers[cont_name'] # None)
        /\ containers' = IF cont_freed' THEN containers
                          ELSE [containers EXCEPT ![cont_name'] = <<>>]
    BY <1>1 DEF ReadSection
  <2> QED BY <2>1
<1>3. /\ next \in Nat /\ next' = next + 1 /\ file' = file
      /\ 1 .. next' = (1 .. next) \cup {next + 1}
  BY <1>0, LineTaken
<1>9. PICK l \in Nat : l = next + 1
  BY <1>3
<1>4. \A n \in Names : Section(n) # Param /\ Section(n).kind = "section" /\ Section(n).name = n
  BY DEF Section, Param
<1>5. SourceTypeOK'
  <2>1. containers \in [Names -> Seq(Nat) \cup {None}] /\ state = "lines" /\ newline \in BOOLEAN
        /\ file \in Seq(Lines) /\ Len(file) <= MaxLines
    BY <1>0 DEF SourceTypeOK, ReadLine
  <2>2. containers' \in [Names -> Seq(Nat) \cup {None}]
    <3>1. <<>> \in Seq(Nat)
      OBVIOUS
    <3>2. CASE containers[m] # None
      BY <1>2, <2>1, <3>2
    <3>3. CASE containers[m] = None
      <4>1. containers' = [containers EXCEPT ![m] = <<>>]
        BY <1>2, <3>3
      <4> QED BY <1>1, <2>1, <3>1, <4>1
    <3> QED BY <3>2, <3>3
  <2>3. next' \in 0 .. Len(file)' /\ newline' = newline
    BY <1>0, LineTaken
  <2> QED BY <1>1, <1>2, <1>3, <2>1, <2>2, <2>3 DEF SourceTypeOK
<1>6. ASSUME NEW n \in Names PROVE FirstSectionRead(n)'
  <2>0. FirstSectionRead(n)
    BY DEF SectionsAreRead
  <2>1. CASE n = m /\ containers[m] = None
    <3>1. containers'[m] = <<>> /\ <<>> # None
      <4>1. <<>> \in Seq(Nat) /\ containers \in [Names -> Seq(Nat) \cup {None}]
        BY DEF SourceTypeOK
      <4> QED BY <1>1, <1>2, <2>1, <4>1, NoneAssumption
    <3>2. \A b \in 1 .. next : file[b] # Section(m)
      BY <2>0, <2>1 DEF FirstSectionRead
    <3>3. Begins(m, l)'
      <4>1. l \in 1 .. next' /\ file'[l] = Section(m)
        BY <1>1, <1>3, <1>9
      <4>2. \A c \in 1 .. l - 1 : file'[c] # Section(m)
        BY <1>3, <1>9, <3>2
      <4> QED BY <4>1, <4>2 DEF Begins
    <3>4. ParamLines(l)' = {}
      BY <1>3, <1>9 DEF ParamLines
    <3>5. {containers[m][i] : i \in DOMAIN containers[m]}' = {}
      BY <3>1
    <3> QED BY <1>3, <1>9, <2>1, <3>1, <3>3, <3>4, <3>5 DEF FirstSectionRead
  <2>2. CASE ~(n = m /\ containers[m] = None)
    <3>1. containers[n] = None => file[next + 1] # Section(n)
      BY <1>1, <1>4, <2>2
    <3>2. containers'[n] = containers[n]
      BY <1>1, <1>2, <2>2 DEF SourceTypeOK
    <3>3. \A b \in 1 .. next : next + 1 \notin ParamLines(b)'
      BY <1>1, <1>3, <1>4, ParamLinesTaken
    <3> QED BY <1>3, <2>0, <3>1, <3>2, <3>3, OtherLine
  <2> QED BY <2>1, <2>2
<1>7. CurrentSection'
  <2>1. IsCurrent(l)'
    <3>1. l \in 1 .. next' /\ file'[l] = Section(m)
      BY <1>1, <1>3, <1>9
    <3>2. l + 1 .. next' = {}
      BY <1>3, <1>9
    <3> QED BY <1>2, <3>1, <3>2 DEF IsCurrent
  <2>2. (containers[m] # None) <=> \E b \in 1 .. next : file[b] = Section(m)
    BY <1>1 DEF SectionsAreRead, FirstSectionRead, Begins
  <2>3. 1 .. l - 1 = 1 .. next /\ l \in 1 .. next'
    BY <1>3, <1>9
  <2>4. cont_freed' <=> \E b \in 1 .. l - 1 : file'[b] = Section(m)
    BY <1>2, <1>3, <2>2, <2>3
  <2> QED BY <1>1, <1>2, <2>1, <2>3, <2>4 DEF CurrentSection
<1> QED BY <1>5, <1>6, <1>7 DEF SectionsAreRead

(* A blank line changes no container.                                      *)
LEMMA ReadBlankKeeps ==
  ASSUME SourceTypeOK, SectionsAreRead, CurrentSection, ReadBlank
  PROVE  SourceTypeOK' /\ SectionsAreRead' /\ CurrentSection'
<1>1. ReadLine("blank") /\ UNCHANGED <<state, cont_name, cont_freed, containers>>
  BY DEF ReadBlank
<1>2. /\ next \in Nat /\ next' = next + 1 /\ file' = file /\ newline' = newline
      /\ next' \in 0 .. Len(file)' /\ file[next + 1].kind = "blank"
  BY <1>1, LineTaken
<1>3. SourceTypeOK'
  BY <1>1, <1>2 DEF SourceTypeOK
<1>4. CurrentSection'
  BY <1>1, <1>2, SameSection
<1>5. ASSUME NEW n \in Names PROVE FirstSectionRead(n)'
  <2>1. file[next + 1] # Section(n)
    BY <1>2 DEF Section
  <2>2. \A b \in 1 .. next : next + 1 \notin ParamLines(b)'
    BY <1>2, ParamLinesTaken DEF Param
  <2> QED BY <1>1, <1>2, <2>1, <2>2, OtherLine DEF SectionsAreRead
<1> QED BY <1>3, <1>4, <1>5 DEF SectionsAreRead

(* A parameter line belongs to the current section, if that is the first   *)
(* one with its name, and to no other.                                     *)
LEMMA ParamOfCurrent ==
  ASSUME SourceTypeOK, CurrentSection,
         next' = next + 1, file' = file, file[next + 1] = Param,
         NEW n \in Names, NEW b \in 1 .. next, Begins(n, b), next + 1 \in ParamLines(b)'
  PROVE  n = cont_name /\ ~cont_freed
<1>1. next \in Nat
  BY DEF SourceTypeOK
<1>2. \A c \in b + 1 .. next : file[c].kind # "section"
  BY <1>1 DEF ParamLines
<1>3. file[b] = Section(n) /\ \A c \in 1 .. b - 1 : file[c] # Section(n)
  BY DEF Begins
<1>4. \A m : Section(m).kind = "section" /\ Section(m).name = m
  BY DEF Section
<1>5. cont_name # None
  BY <1>3, <1>4 DEF CurrentSection
<1>6. PICK c \in 1 .. next :
        /\ IsCurrent(c)
        /\ cont_freed <=> \E d \in 1 .. c - 1 : file[d] = Section(cont_name)
  BY <1>5 DEF CurrentSection
<1>7. file[c] = Section(cont_name) /\ \A d \in c + 1 .. next : file[d].kind # "section"
  BY <1>6 DEF IsCurrent
<1>8. c = b
  <2>1. ~(c < b)
    BY <1>1, <1>3, <1>4, <1>7
  <2>2. ~(b < c)
    BY <1>1, <1>2, <1>4, <1>7
  <2> QED BY <1>1, <2>1, <2>2
<1> QED BY <1>3, <1>4, <1>6, <1>7, <1>8

(* What a sequence of increasing numbers is with one more number.          *)
LEMMA Appended ==
  ASSUME NEW q \in Seq(Nat), NEW l \in Nat
  PROVE  /\ Append(q, l) \in Seq(Nat)
         /\ {Append(q, l)[i] : i \in DOMAIN Append(q, l)} = {q[i] : i \in DOMAIN q} \cup {l}
         /\ (\A i \in DOMAIN q : q[i] < l) /\ (\A i, j \in DOMAIN q : i < j => q[i] < q[j]) =>
              \A i, j \in DOMAIN Append(q, l) : i < j => Append(q, l)[i] < Append(q, l)[j]
<1>1. /\ Append(q, l) \in Seq(Nat)
      /\ DOMAIN q = 1 .. Len(q) /\ Len(q) \in Nat
      /\ DOMAIN Append(q, l) = 1 .. Len(q) + 1
      /\ \A i \in 1 .. Len(q) : Append(q, l)[i] = q[i]
      /\ Append(q, l)[Len(q) + 1] = l
  OBVIOUS
<1> DEFINE r == Append(q, l)
<1> HIDE DEF r
<1>2. \A i \in 1 .. Len(q) + 1 : i \in 1 .. Len(q) \/ i = Len(q) + 1
  BY <1>1
<1>3. {r[i] : i \in DOMAIN r} = {q[i] : i \in DOMAIN q} \cup {l}
  BY <1>1, <1>2 DEF r
<1>4. ASSUME \A i \in DOMAIN q : q[i] < l, \A i, j \in DOMAIN q : i < j => q[i] < q[j],
             NEW i \in DOMAIN r, NEW j \in DOMAIN r, i < j
      PROVE  r[i] < r[j]
  <2>1. i \in DOMAIN q
    BY <1>1, <1>4 DEF r
  <2>2. CASE j = Len(q) + 1
    BY <1>1, <1>4, <2>1, <2>2 DEF r
  <2>3. CASE j \in DOMAIN q
    BY <1>1, <1>4, <2>1, <2>3 DEF r
  <2> QED BY <1>1, <1>2, <2>2, <2>3 DEF r
<1> QED BY <1>1, <1>3, <1>4 DEF r

(* A parameter line is added to the container of the current section.      *)
LEMMA ReadParamKeeps ==
  ASSUME SourceTypeOK, SectionsAreRead, CurrentSection, ReadParam
  PROVE  SourceTypeOK' /\ SectionsAreRead' /\ CurrentSection'
<1>1. /\ ReadLine("param") /\ cont_name # None /\ ~cont_freed
      /\ containers' = [containers EXCEPT ![cont_name] = Append(@, next + 1)]
      /\ UNCHANGED <<state, cont_name, cont_freed>>
  BY DEF ReadParam
<1>2. /\ next \in Nat /\ next' = next + 1 /\ file' = file /\ newline' = newline
      /\ 1 .. next' = (1 .. next) \cup {next + 1}
      /\ next' \in 0 .. Len(file)' /\ file[next + 1].kind = "param"
  BY <1>1, LineTaken
<1>3. file[next + 1] = Param
  BY <1>1, <1>2, LineTaken, LineKinds DEF ReadLine
<1>4. cont_name \in Names /\ containers \in [Names -> Seq(Nat) \cup {None}]
  BY <1>1 DEF SourceTypeOK
<1>5. CurrentSection'
  BY <1>1, <1>2, SameSection
<1>6. PICK c \in 1 .. next :
        /\ IsCurrent(c)
        /\ cont_freed <=> \E d \in 1 .. c - 1 : file[d] = Section(cont_name)
  BY <1>1 DEF CurrentSection
<1>7. /\ file[c] = Section(cont_name)
      /\ \A d \in c + 1 .. next : file[d].kind # "section"
      /\ \A d \in 1 .. c - 1 : file[d] # Section(cont_name)
  BY <1>1, <1>6 DEF IsCurrent
<1>8. PICK b \in 1 .. next :
        /\ containers[cont_name] # None
        /\ Begins(cont_name, b)
        /\ {containers[cont_name][i] : i \in DOMAIN containers[cont_name]} = ParamLines(b)
        /\ \A i, j \in DOMAIN containers[cont_name] :
             i < j => containers[cont_name][i] < containers[cont_name][j]
  BY <1>4, <1>7 DEF SectionsAreRead, FirstSectionRead
<1>9. SourceTypeOK'
  <2>1. containers' \in [Names -> Seq(Nat) \cup {None}]
    <3>1. Append(containers[cont_name], next + 1) \in Seq(Nat)
      BY <1>2, <1>4, <1>8
    <3> QED BY <1>1, <1>4, <3>1
  <2> QED BY <1>1, <1>2, <2>1 DEF SourceTypeOK
<1>10. ASSUME NEW n \in Names, n # cont_name PROVE FirstSectionRead(n)'
  <2>1. file[next + 1] # Section(n)
    BY <1>2 DEF Section
  <2>2. \A d \in 1 .. next : Begins(n, d) => next + 1 \notin ParamLines(d)'
    BY <1>2, <1>3, <1>10, ParamOfCurrent
  <2>3. containers'[n] = containers[n]
    BY <1>1, <1>4, <1>10
  <2> QED BY <1>2, <2>1, <2>2, <2>3, OtherLine DEF SectionsAreRead
<1>11. FirstSectionRead(cont_name)'
  <2>1. PICK m \in Names, l \in Nat, q \in Seq(Nat) :
          m = cont_name /\ l = next + 1 /\ q = containers[cont_name]
    BY <1>2, <1>4, <1>8
  <2>2. cont_name' = m /\ containers'[m] = Append(q, l)
    BY <1>1, <1>4, <2>1
  <2>3. ~(c < b) /\ ~(b < c)
    <3>1. file[b] = Section(m) /\ \A d \in 1 .. b - 1 : file[d] # Section(m)
      BY <1>8, <2>1 DEF Begins
    <3> QED BY <1>2, <1>7, <2>1, <3>1
  <2>4. b = c
    BY <1>2, <2>3
  <2>5. l \in ParamLines(b)'
    <3>1. l \in b + 1 .. next' /\ file'[l] = Param
      BY <1>2, <1>3, <2>1
    <3>2. ASSUME NEW d \in b + 1 .. l PROVE file'[d].kind # "section"
      <4>1. CASE d = l
        BY <1>2, <2>1, <4>1
      <4>2. CASE d # l
        BY <1>2, <1>7, <2>1, <2>4, <4>2
      <4> QED BY <4>1, <4>2
    <3> QED BY <3>1, <3>2 DEF ParamLines
  <2>6. ParamLines(b)' = ParamLines(b) \cup {l} /\ ParamLines(b) \subseteq 1 .. next
    BY <1>2, <2>1, <2>5, ParamLinesTaken
  <2>7. /\ Append(q, l) # None
        /\ {Append(q, l)[i] : i \in DOMAIN Append(q, l)} = {q[i] : i \in DOMAIN q} \cup {l}
    BY <2>1, NoneAssumption, Appended
  <2>8. \A i, j \in DOMAIN Append(q, l) : i < j => Append(q, l)[i] < Append(q, l)[j]
    <3>1. \A i \in DOMAIN q : q[i] < l
      <4>1. \A i \in DOMAIN q : q[i] \in 1 .. next
        BY <1>8, <2>1, <2>6
      <4> QED BY <1>2, <2>1, <4>1
    <3>2. \A i, j \in DOMAIN q : i < j => q[i] < q[j]
      BY <1>8, <2>1
    <3> QED BY <2>1, <3>1, <3>2, Appended
  <2>9. Begins(m, b)'
    <3>1. b \in 1 .. next' /\ file'[b] = Section(m) /\ \A d \in 1 .. b - 1 : file'[d] # Section(m)
      BY <1>2, <1>8, <2>1 DEF Begins
    <3> QED BY <3>1 DEF Begins
  <2>10. {containers[m][i] : i \in DOMAIN containers[m]}' = ParamLines(b)'
    <3>1. {q[i] : i \in DOMAIN q} = ParamLines(b)
      BY <1>8, <2>1
    <3>2. {Append(q, l)[i] : i \in DOMAIN Append(q, l)} = ParamLines(b)'
      BY <2>6, <2>7, <3>1
    <3> QED BY <2>2, <3>2
  <2>11. FirstSectionRead(m)'
    BY <1>2, <2>2, <2>7, <2>8, <2>9, <2>10 DEF FirstSectionRead
  <2> QED BY <1>1, <2>1, <2>11
<1> QED BY <1>1, <1>5, <1>9, <1>10, <1>11 DEF SectionsAreRead

(* A line that is written to a freed container, or that ends the parsing,  *)
(* is in no first section.                                                 *)
LEMMA LostLineKeeps ==
  ASSUME SourceTypeOK, SectionsAreRead, CurrentSection, WriteFreed \/ Reject
  PROVE  SourceTypeOK' /\ SectionsAreRead' /\ CurrentSection'
<1>1. /\ ReadLine("param") /\ (cont_name = None \/ cont_freed)
      /\ state' \in {"lines", "aborted", "rejected"}
      /\ UNCHANGED <<cont_name, cont_freed, containers>>
  BY DEF WriteFreed, Reject
<1>2. /\ next \in Nat /\ next' = next + 1 /\ file' = file /\ newline' = newline
      /\ next' \in 0 .. Len(file)' /\ file[next + 1].kind = "param"
  BY <1>1, LineTaken
<1>3. file[next + 1] = Param
  BY <1>1, <1>2, LineTaken, LineKinds DEF ReadLine
<1>4. SourceTypeOK'
  BY <1>1, <1>2 DEF SourceTypeOK
<1>5. CurrentSection'
  BY <1>1, <1>2, SameSection
<1>6. ASSUME NEW n \in Names PROVE FirstSectionRead(n)'
  <2>1. file[next + 1] # Section(n)
    BY <1>2 DEF Section
  <2>2. \A d \in 1 .. next : Begins(n, d) => next + 1 \notin ParamLines(d)'
    BY <1>1, <1>2, <1>3, ParamOfCurrent, NoneAssumption
  <2> QED BY <1>1, <1>2, <2>1, <2>2, OtherLine DEF SectionsAreRead
<1> QED BY <1>4, <1>5, <1>6 DEF SectionsAreRead

(* As long as nothing of the source is changed, what is read of it stays.  *)
LEMMA SourceUnchanged ==
  ASSUME SourceTypeOK, SectionsAreRead, CurrentSection, state' \in {"parsed", state},
         UNCHANGED <<file, newline, next, cont_name, cont_freed, containers>>
  PROVE  SourceTypeOK' /\ SectionsAreRead' /\ CurrentSection'
<1>1. SourceTypeOK'
  BY DEF SourceTypeOK
<1>2. SectionsAreRead'
  BY DEF SectionsAreRead, FirstSectionRead, Begins, ParamLines
<1>3. CurrentSection'
  BY DEF CurrentSection, IsCurrent
<1> QED BY <1>1, <1>2, <1>3

(* A turn of the loop of parseSource.                                      *)
LEMMA ParseKeeps ==
  ASSUME SourceTypeOK, SectionsAreRead, CurrentSection, ParseNext
  PROVE  SourceTypeOK' /\ SectionsAreRead' /\ CurrentSection'
<1>1. CASE AllRead
  BY <1>1, SourceUnchanged DEF AllRead
<1> QED
  BY <1>1, ReadSectionKeeps, ReadBlankKeeps, ReadParamKeeps, LostLineKeeps DEF ParseNext

(* Of a file nothing has been read of, no section has.                     *)
LEMMA NothingRead ==
  ASSUME next = 0, containers = NoContainers, cont_name = None
  PROVE  SectionsAreRead /\ CurrentSection
<1>1. \A n \in Names : containers[n] = None
  BY DEF NoContainers
<1> QED BY <1>1 DEF SectionsAreRead, FirstSectionRead, CurrentSection
-----------------------------------------------------------------------------
LEMMA InitInv == Init => Inv
<1> SUFFICES ASSUME Init PROVE Inv
  OBVIOUS
<1> USE DEF Init, Closed
<1>1. SourceInv
  <2>1. SourceTypeOK
    <3>1. <<>> \in Seq(Lines) /\ Len(<<>>) = 0 /\ 0 <= MaxLines /\ 0 \in 0 .. Len(<<>>)
      BY MaxLinesAssumption
    <3>2. NoContainers \in [Names -> Seq(Nat) \cup {None}]
      BY DEF NoContainers
    <3> QED BY <3>1, <3>2 DEF SourceTypeOK
  <2> QED BY <2>1, NothingRead DEF SourceInv, NothingOpen
<1>2. TypeOK
  <2>1. <<>> \in Seq([Names -> Seq(Nat) \cup {None}]) /\ Len(<<>>) = 0 /\ 0 <= MaxSources
    BY MaxSourcesAssumption
  <2> QED BY <1>1, <2>1 DEF SourceInv, TypeOK
<1>3. FilledAreRegistered /\ FirstSourceWins
  BY DEF FilledAreRegistered, FirstSourceWins, Objects, Name
<1> QED BY <1>1, <1>2, <1>3 DEF Inv, RoomForSource

(* A call that fills nothing.                                              *)
LEMMA NothingFilled ==
  ASSUME Inv, UNCHANGED sourceVars,
         UNCHANGED <<assertations, sources, filled, par_containers, conts_sources>>,
         registered \subseteq registered', registered' \subseteq Registrable,
         answer' \in registered' \cup {None}, running' \in BOOLEAN
  PROVE  Inv'
<1>1. SourceInv'
  BY SourceUnchanged DEF Inv, SourceInv, sourceVars, NothingOpen
<1>2. TypeOK'
  BY <1>1 DEF Inv, SourceInv, TypeOK
<1>3. FirstSourceWins'
  BY DEF Inv, FirstSourceWins, Store!IsFirst
<1>4. FilledAreRegistered' /\ RoomForSource'
  BY DEF Inv, FilledAreRegistered, RoomForSource, sourceVars
<1> QED BY <1>1, <1>2, <1>3, <1>4 DEF Inv

(* A turn of the parser, or the opening of a file, leaves the database.    *)
LEMMA ParsingKeeps ==
  ASSUME Inv, SourceInv', RoomForSource', UNCHANGED dbVars
  PROVE  Inv'
<1>1. TypeOK'
  BY DEF Inv, SourceInv, TypeOK, dbVars
<1>2. FirstSourceWins'
  BY DEF Inv, FirstSourceWins, Store!IsFirst, dbVars
<1>3. FilledAreRegistered'
  BY DEF Inv, FilledAreRegistered, dbVars
<1> QED BY <1>1, <1>2, <1>3 DEF Inv

LEMMA OpenStep ==
  ASSUME Inv, NEW f \in Files, NEW t \in BOOLEAN, OpenSource(f, t)
  PROVE  Inv'
<1>1. /\ state = "closed" /\ state' = "lines" /\ file' = f /\ newline' = t
      /\ UNCHANGED <<next, cont_name, cont_freed, containers>>
      /\ UNCHANGED dbVars /\ Len(sources) < MaxSources
  BY DEF OpenSource, Open
<1>2. f \in Seq(Lines) /\ Len(f) <= MaxLines /\ Len(f) \in Nat
  <2>1. PICK m \in 0 .. MaxLines : f \in [1 .. m -> Lines]
    BY DEF Files
  <2>2. f \in Seq(Lines)
    BY <2>1, MaxLinesAssumption
  <2>3. Len(f) = m
    BY <2>1, <2>2, MaxLinesAssumption
  <2> QED BY <2>1, <2>2, <2>3, MaxLinesAssumption
<1>3. next = 0 /\ containers = NoContainers /\ cont_name = None
  BY <1>1 DEF Inv, SourceInv, NothingOpen
<1>4. SourceTypeOK'
  BY <1>1, <1>2, <1>3 DEF Inv, SourceInv, SourceTypeOK
<1>5. SectionsAreRead' /\ CurrentSection'
  <2>1. next' = 0 /\ containers' = NoContainers /\ cont_name' = None
    BY <1>1, <1>3
  <2>2. (next = 0 /\ containers = NoContainers /\ cont_name = None
           => SectionsAreRead /\ CurrentSection)'
    BY NothingRead, PTL
  <2> QED BY <2>1, <2>2 DEF NoContainers
<1>6. RoomForSource' /\ NothingOpen'
  BY <1>1 DEF RoomForSource, NothingOpen, dbVars
<1> QED BY <1>1, <1>4, <1>5, <1>6, ParsingKeeps DEF SourceInv

LEMMA ParseStep ==
  ASSUME Inv, ParseSource
  PROVE  Inv'
<1>1. ParseNext /\ UNCHANGED dbVars
  BY DEF ParseSource
<1>2. state = "lines" /\ state' # "closed"
  BY <1>1 DEF ParseNext, ReadSection, ReadBlank, ReadParam, WriteFreed, Reject, AllRead, ReadLine
<1>3. SourceInv'
  BY <1>1, <1>2, ParseKeeps DEF Inv, SourceInv, NothingOpen
<1>4. RoomForSource'
  BY <1>1, <1>2 DEF Inv, RoomForSource, dbVars
<1> QED BY <1>1, <1>3, <1>4, ParsingKeeps

(* A source that is added comes after the others.                          *)
LEMMA AddedAtTheEnd ==
  ASSUME TypeOK, AddSource
  PROVE  /\ sources' \in Seq([Names -> Seq(Nat) \cup {None}])
         /\ Len(sources') = Len(sources) + 1 /\ Len(sources) \in Nat
         /\ sources' = Append(sources, sources'[Len(sources')])
         /\ DOMAIN sources \subseteq DOMAIN sources'
         /\ \A s \in DOMAIN sources : sources'[s] = sources[s]
         /\ \A s \in DOMAIN sources, n \in Names : Store!IsFirst(s, n) => Store!IsFirst(s, n)'
<1>1. containers \in [Names -> Seq(Nat) \cup {None}]
  BY DEF TypeOK, SourceTypeOK
<1>2. sources' = Append(sources, containers)
  BY DEF AddSource
<1>3. sources \in Seq([Names -> Seq(Nat) \cup {None}])
  BY DEF TypeOK
<1>4. /\ sources' \in Seq([Names -> Seq(Nat) \cup {None}])
      /\ Len(sources') = Len(sources) + 1 /\ Len(sources) \in Nat
      /\ DOMAIN sources = 1 .. Len(sources) /\ DOMAIN sources' = 1 .. Len(sources) + 1
      /\ sources'[Len(sources) + 1] = containers
      /\ \A s \in 1 .. Len(sources) : sources'[s] = sources[s]
  BY <1>1, <1>2, <1>3
<1>5. ASSUME NEW s \in DOMAIN sources, NEW n \in Names, Store!IsFirst(s, n)
      PROVE  Store!IsFirst(s, n)'
  <2>1. s \in DOMAIN sources' /\ sources'[s] = sources[s]
    BY <1>4
  <2>2. \A t \in 1 .. s - 1 : sources'[t] = sources[t]
    BY <1>4
  <2> QED BY <1>5, <2>1, <2>2 DEF Store!IsFirst
<1>6. DOMAIN sources \subseteq DOMAIN sources'
  BY <1>4
<1> QED BY <1>2, <1>4, <1>5, <1>6

LEMMA AddSourceStep ==
  ASSUME Inv, AddSource
  PROVE  Inv'
<1> USE DEF Inv
<1>1. /\ state # "closed" /\ state' = "closed" /\ file' = <<>> /\ newline' = TRUE /\ next' = 0
      /\ cont_name' = None /\ cont_freed' = FALSE /\ containers' = NoContainers
      /\ UNCHANGED <<assertations, running, registered, filled, par_containers, conts_sources, answer>>
  BY DEF AddSource, Close
<1>2. SourceTypeOK'
  <2>1. <<>> \in Seq(Lines) /\ Len(<<>>) = 0 /\ 0 <= MaxLines /\ 0 \in 0 .. Len(<<>>)
    BY MaxLinesAssumption
  <2>2. NoContainers \in [Names -> Seq(Nat) \cup {None}]
    BY DEF NoContainers
  <2> QED BY <1>1, <2>1, <2>2 DEF SourceTypeOK
<1>3. SectionsAreRead' /\ CurrentSection' /\ NothingOpen'
  <2>1. next' = 0 /\ containers' = NoContainers' /\ cont_name' = None
    BY <1>1 DEF NoContainers
  <2>2. (next = 0 /\ containers = NoContainers /\ cont_name = None
           => SectionsAreRead /\ CurrentSection)'
    BY NothingRead, PTL
  <2> QED BY <2>1, <2>2 DEF NothingOpen
<1>4. Len(sources) < MaxSources
  BY <1>1 DEF RoomForSource
<1>5. TypeOK'
  <2>1. Len(sources') <= MaxSources
    BY <1>4, AddedAtTheEnd, MaxSourcesAssumption
  <2>2. filled' \in [Objects -> [source : DOMAIN sources', lines : Seq(Nat)] \cup {None}]
    BY <1>1, AddedAtTheEnd DEF TypeOK
  <2>3. conts_sources' \in [Names -> DOMAIN sources' \cup {None}]
    BY <1>1, AddedAtTheEnd DEF TypeOK
  <2> QED BY <1>1, <1>2, <2>1, <2>2, <2>3, AddedAtTheEnd DEF TypeOK
<1>6. FirstSourceWins'
  <2> SUFFICES ASSUME NEW o \in Objects
               PROVE  /\ filled'[o] # None =>
                           /\ Store!IsFirst(filled[o].source, Name(o))'
                           /\ filled'[o].lines = sources'[filled'[o].source][Name(o)]
                      /\ conts_sources'[Name(o)] # None =>
                           Store!IsFirst(conts_sources[Name(o)], Name(o))'
    BY DEF FirstSourceWins, Name
  <2>1. Name(o) \in Names
    BY DEF Objects, Name
  <2>2. filled[o] # None => filled[o].source \in DOMAIN sources
    BY DEF TypeOK
  <2>3. conts_sources[Name(o)] # None => conts_sources[Name(o)] \in DOMAIN sources
    BY <2>1 DEF TypeOK
  <2>4. /\ filled[o] # None =>
             /\ Store!IsFirst(filled[o].source, Name(o))
             /\ filled[o].lines = sources[filled[o].source][Name(o)]
        /\ conts_sources[Name(o)] # None => Store!IsFirst(conts_sources[Name(o)], Name(o))
    BY DEF FirstSourceWins
  <2>5. PICK s, t, n : s = filled[o].source /\ t = conts_sources[Name(o)] /\ n = Name(o)
    OBVIOUS
  <2>6. /\ n \in Names
        /\ s = filled'[o].source /\ t = conts_sources'[Name(o)]
        /\ filled[o] = filled'[o]
    BY <1>1, <2>1, <2>5
  <2>7. /\ filled[o] # None => Store!IsFirst(s, n)' /\ sources'[s] = sources[s]
        /\ conts_sources[Name(o)] # None => Store!IsFirst(t, n)'
    BY <2>2, <2>3, <2>4, <2>6, <2>5, AddedAtTheEnd
  <2> QED BY <1>1, <2>4, <2>6, <2>7, <2>5 DEF Name
<1>7. FilledAreRegistered' /\ RoomForSource'
  BY <1>1 DEF FilledAreRegistered, RoomForSource
<1> QED BY <1>2, <1>3, <1>5, <1>6, <1>7 DEF SourceInv

(* What an object is filled with.                                          *)
LEMMA FilledFirst ==
  ASSUME Inv, NEW o \in Objects, GetFirst(o)
  PROVE  /\ o \in registered /\ ~WasRead(o)
         /\ \E s \in DOMAIN sources :
              /\ Store!IsFirst(s, Name(o))
              /\ [source |-> s, lines |-> sources[s][Name(o)]]
                   \in [source : DOMAIN sources, lines : Seq(Nat)]
              /\ [source |-> s, lines |-> sources[s][Name(o)]] # None
              /\ filled' = [filled EXCEPT ![o] = [source |-> s, lines |-> sources[s][Name(o)]]]
              /\ conts_sources' = IF conts_sources[Name(o)] = None
                                    THEN [conts_sources EXCEPT ![Name(o)] = s]
                                    ELSE conts_sources
         /\ par_containers' = IF Kind(o) = "par" THEN par_containers \cup {Name(o)} ELSE par_containers
         /\ answer' = o
         /\ UNCHANGED <<assertations, running, sources, registered>>
         /\ UNCHANGED sourceVars
<1>1. Name(o) \in Names
  BY DEF Objects, Name
<1>2. PICK s : s = FirstHaving(Name(o))
  OBVIOUS
<1>3. /\ s \in DOMAIN sources /\ sources[s][Name(o)] \in Seq(Nat)
      /\ Store!IsFirst(s, Name(o))
  BY <1>1, <1>2, FirstHavingIsFirst DEF Inv, GetFirst
<1>4. DOMAIN sources \subseteq Nat
  BY DEF Inv, TypeOK
<1>5. /\ [source |-> s, lines |-> sources[s][Name(o)]] \in [source : DOMAIN sources, lines : Seq(Nat)]
      /\ [source |-> s, lines |-> sources[s][Name(o)]] # None
  BY <1>3, <1>4, NoneIsNoValue
<1>6. /\ filled' = [filled EXCEPT ![o] = [source |-> s, lines |-> sources[s][Name(o)]]]
      /\ conts_sources' = IF conts_sources[Name(o)] = None
                            THEN [conts_sources EXCEPT ![Name(o)] = s] ELSE conts_sources
  BY <1>2 DEF GetFirst
<1> QED BY <1>3, <1>5, <1>6 DEF GetFirst

LEMMA GetFirstStep ==
  ASSUME Inv, NEW o \in Objects, GetFirst(o)
  PROVE  Inv'
<1> USE DEF Inv
<1>1. PICK s \in DOMAIN sources, r \in [source : DOMAIN sources, lines : Seq(Nat)] :
        /\ Store!IsFirst(s, Name(o))
        /\ r = [source |-> s, lines |-> sources[s][Name(o)]] /\ r # None
        /\ r.source = s /\ r.lines = sources[s][Name(o)]
        /\ filled' = [filled EXCEPT ![o] = r]
        /\ conts_sources' = IF conts_sources[Name(o)] = None
                              THEN [conts_sources EXCEPT ![Name(o)] = s] ELSE conts_sources
  BY FilledFirst
<1>2. /\ o \in registered /\ answer' = o /\ Name(o) \in Names
      /\ par_containers' = IF Kind(o) = "par" THEN par_containers \cup {Name(o)} ELSE par_containers
      /\ UNCHANGED <<assertations, running, sources, registered>>
      /\ UNCHANGED sourceVars
  BY FilledFirst DEF Objects, Name
<1>3. SourceInv'
  BY <1>2, SourceUnchanged DEF SourceInv, sourceVars, NothingOpen
<1>4. filled \in [Objects -> [source : DOMAIN sources, lines : Seq(Nat)] \cup {None}]
      /\ conts_sources \in [Names -> DOMAIN sources \cup {None}]
      /\ par_containers \subseteq Names
  BY DEF TypeOK
<1>5. /\ filled' \in [Objects -> [source : DOMAIN sources, lines : Seq(Nat)] \cup {None}]
      /\ filled'[o] = r
      /\ \A p \in Objects : p # o => filled'[p] = filled[p]
  BY <1>1, <1>4
<1>6. /\ conts_sources' \in [Names -> DOMAIN sources \cup {None}]
      /\ \A n \in Names :
           conts_sources'[n] = conts_sources[n] \/ (n = Name(o) /\ conts_sources'[n] = s)
  BY <1>1, <1>2, <1>4
<1>7. TypeOK'
  BY <1>2, <1>3, <1>4, <1>5, <1>6 DEF SourceInv, TypeOK
<1>8. FirstSourceWins'
  <2> SUFFICES ASSUME NEW p \in Objects
               PROVE  /\ filled'[p] # None =>
                           /\ Store!IsFirst(filled'[p].source, Name(p))
                           /\ filled'[p].lines = sources[filled'[p].source][Name(p)]
                      /\ conts_sources'[Name(p)] # None =>
                           Store!IsFirst(conts_sources'[Name(p)], Name(p))
    BY <1>2 DEF FirstSourceWins, Store!IsFirst, Name
  <2>1. Name(p) \in Names
    BY DEF Objects, Name
  <2>2. filled'[p] # None =>
          /\ Store!IsFirst(filled'[p].source, Name(p))
          /\ filled'[p].lines = sources[filled'[p].source][Name(p)]
    BY <1>1, <1>5 DEF FirstSourceWins
  <2>3. conts_sources'[Name(p)] # None => Store!IsFirst(conts_sources'[Name(p)], Name(p))
    BY <1>1, <1>6, <2>1 DEF FirstSourceWins
  <2> QED BY <2>2, <2>3
<1>9. FilledAreRegistered' /\ RoomForSource'
  BY <1>2, <1>5 DEF FilledAreRegistered, RoomForSource, sourceVars
<1> QED BY <1>3, <1>7, <1>8, <1>9

(* Every step keeps the invariant.                                         *)
LEMMA NextInv == Inv /\ [Next]_vars => Inv'
<1> SUFFICES ASSUME Inv, [Next]_vars PROVE Inv'
  OBVIOUS
<1>0. TypeOK
  BY DEF Inv
<1>1. ASSUME NEW f \in Files, NEW t \in BOOLEAN, OpenSource(f, t) PROVE Inv'
  BY <1>1, OpenStep
<1>2. CASE OpenFails \/ ParseAborts
  BY <1>0, <1>2, NothingFilled DEF OpenFails, ParseAborts, TypeOK
<1>3. CASE ParseSource
  BY <1>3, ParseStep
<1>4. CASE AddSource
  BY <1>4, AddSourceStep
<1>5. ASSUME NEW o \in Registrable, AddContainer(o) PROVE Inv'
  BY <1>0, <1>5, NothingFilled DEF AddContainer, TypeOK
<1>6. ASSUME NEW o \in Objects, GetRead(o) \/ GetAborts(o) \/ GetFails(o) PROVE Inv'
  BY <1>0, <1>6, NothingFilled DEF GetRead, GetAborts, GetFails, TypeOK
<1>7. ASSUME NEW o \in Objects, GetFirst(o) PROVE Inv'
  BY <1>7, GetFirstStep
<1>8. CASE UNCHANGED vars
  BY <1>0, <1>8, NothingFilled DEF vars, dbVars, TypeOK
<1> QED
  BY <1>1, <1>2, <1>3, <1>4, <1>5, <1>6, <1>7, <1>8 DEF Next
-----------------------------------------------------------------------------
THEOREM InvCorrect == Spec => []Inv
<1> QED BY InitInv, NextInv, PTL DEF Spec

(* The maps, the answers and the containers of the sources keep their      *)
(* types; in particular nothing is handed out that was not registered.     *)
THEOREM TypeCorrect == Spec => []TypeOK
<1>1. Inv => TypeOK
  BY DEF Inv
<1> QED BY <1>1, InvCorrect, PTL

(* A container has the lines of the first section with its name.           *)
THEOREM SectionsCorrect == Spec => []SectionsAreRead
<1>1. Inv => SectionsAreRead
  BY DEF Inv, SourceInv
<1> QED BY <1>1, InvCorrect, PTL

(* An object has the lines of the first source that has its name.          *)
THEOREM FirstSourceCorrect == Spec => []FirstSourceWins
<1>1. Inv => FirstSourceWins
  BY DEF Inv
<1> QED BY <1>1, InvCorrect, PTL
-----------------------------------------------------------------------------
(* Without a clash of names the maps by name tell which objects have been  *)
(* filled, and what is handed out is one of those.                         *)
MapsInv == MapsTellFilled /\ HandedOutFilled

LEMMA MapsInit == Init => MapsInv
<1> SUFFICES ASSUME Init PROVE MapsInv
  OBVIOUS
<1>1. \A o \in Registrable : o \in Objects /\ Name(o) \in Names
  BY RegistrableAssumption DEF Objects, Name
<1> QED BY <1>1 DEF Init, MapsInv, MapsTellFilled, HandedOutFilled, WasRead

(* A call that fills nothing and hands out nothing new that is not filled. *)
LEMMA MapsUnchanged ==
  ASSUME MapsInv, UNCHANGED <<filled, par_containers, conts_sources>>,
         answer' # None => filled[answer'] # None
  PROVE  MapsInv'
  BY DEF MapsInv, MapsTellFilled, HandedOutFilled, WasRead

LEMMA GetFirstMaps ==
  ASSUME Inv, MapsInv, NoClash, NEW o \in Objects, GetFirst(o)
  PROVE  MapsInv'
<1>1. PICK s \in DOMAIN sources, r \in [source : DOMAIN sources, lines : Seq(Nat)] :
        /\ r # None
        /\ filled' = [filled EXCEPT ![o] = r]
        /\ conts_sources' = IF conts_sources[Name(o)] = None
                              THEN [conts_sources EXCEPT ![Name(o)] = s] ELSE conts_sources
  BY FilledFirst
<1>2. /\ o \in Registrable /\ answer' = o
      /\ par_containers' = IF Kind(o) = "par" THEN par_containers \cup {Name(o)} ELSE par_containers
  BY FilledFirst DEF Inv, TypeOK
<1>3. s # None
  BY NoneIsNoValue DEF Inv, TypeOK
<1>4. /\ filled \in [Objects -> [source : DOMAIN sources, lines : Seq(Nat)] \cup {None}]
      /\ conts_sources \in [Names -> DOMAIN sources \cup {None}]
  BY DEF Inv, TypeOK
<1>5. \A p \in Registrable : p \in Objects /\ Name(p) \in Names
  BY RegistrableAssumption DEF Objects, Name
<1>6. filled'[o] # None /\ \A p \in Objects : p # o => filled'[p] = filled[p]
  BY <1>1, <1>4
<1>7. conts_sources'[Name(o)] # None
      /\ \A n \in Names : n # Name(o) => conts_sources'[n] = conts_sources[n]
  BY <1>1, <1>2, <1>3, <1>4, <1>5
<1>8. ASSUME NEW p \in Registrable PROVE filled'[p] # None <=> WasRead(p)'
  <2>1. CASE p = o
    BY <1>2, <1>6, <1>7, <2>1 DEF WasRead, Kind, Name
  <2>2. CASE p # o
    <3>1. Name(p) # Name(o)
      BY <1>2, <2>2 DEF NoClash
    <3>2. conts_sources'[Name(p)] = conts_sources[Name(p)]
      BY <1>5, <1>7, <3>1
    <3>3. Name(p) \in par_containers' <=> Name(p) \in par_containers
      BY <1>2, <3>1
    <3>4. filled[p] # None <=> WasRead(p)
      BY DEF MapsInv, MapsTellFilled
    <3>5. filled'[p] = filled[p]
      BY <1>5, <1>6, <2>2
    <3> QED BY <3>2, <3>3, <3>4, <3>5 DEF WasRead, Kind, Name
  <2> QED BY <2>1, <2>2
<1> QED BY <1>2, <1>6, <1>8 DEF MapsInv, MapsTellFilled, HandedOutFilled

LEMMA MapsNext == NoClash /\ Inv /\ MapsInv /\ [Next]_vars => MapsInv'
<1> SUFFICES ASSUME NoClash, Inv, MapsInv, [Next]_vars PROVE MapsInv'
  OBVIOUS
<1>0. answer # None => filled[answer] # None
  BY DEF MapsInv, HandedOutFilled
<1>1. CASE \/ \E f \in Files, t \in BOOLEAN : OpenSource(f, t)
           \/ OpenFails \/ ParseSource \/ AddSource \/ ParseAborts
           \/ \E o \in Registrable : AddContainer(o)
           \/ UNCHANGED vars
  BY <1>0, <1>1, MapsUnchanged
     DEF OpenSource, OpenFails, ParseSource, AddSource, ParseAborts, AddContainer, vars, dbVars
<1>2. ASSUME NEW o \in Objects, GetRead(o) PROVE MapsInv'
  <2>1. /\ o \in Registrable /\ WasRead(o) /\ answer' = o
        /\ UNCHANGED <<filled, par_containers, conts_sources>>
    BY <1>2 DEF GetRead, Inv, TypeOK
  <2>2. filled[o] # None
    BY <2>1 DEF MapsInv, MapsTellFilled
  <2> QED BY <2>1, <2>2, MapsUnchanged
<1>3. ASSUME NEW o \in Objects, GetAborts(o) \/ GetFails(o) PROVE MapsInv'
  BY <1>0, <1>3, MapsUnchanged DEF GetAborts, GetFails
<1>4. ASSUME NEW o \in Objects, GetFirst(o) PROVE MapsInv'
  BY <1>4, GetFirstMaps
<1> QED BY <1>1, <1>2, <1>3, <1>4 DEF Next

(* When no name is registered for two kinds, an object that is handed out  *)
(* has been filled.                                                        *)
THEOREM HandedOutCorrect == NoClash => (Spec => []HandedOutFilled)
<1> SUFFICES ASSUME NoClash PROVE Spec => []HandedOutFilled
  OBVIOUS
<1>1. MapsInv => HandedOutFilled
  BY DEF MapsInv
<1>2. Inv /\ MapsInv /\ [Next]_vars => MapsInv'
  BY MapsNext
<1> QED BY <1>1, <1>2, MapsInit, InvCorrect, PTL DEF Spec

(* And the database is a store of parameters: every object is filled the   *)
(* first time it is asked for, from the first source that has it, and is   *)
(* not changed again.                                                      *)
THEOREM DatabaseImplementsStore == NoClash => (Spec => ImplementsStore)
<1> SUFFICES ASSUME NoClash PROVE Spec => ImplementsStore
  OBVIOUS
<1>1. Init => Store!StoreInit
  BY DEF Init, Store!StoreInit
<1>2. Inv /\ MapsInv /\ [Next]_vars => [Store!StoreNext]_Store!storeVars
  <2> SUFFICES ASSUME Inv, MapsInv, [Next]_vars
               PROVE  Store!StoreNext \/ UNCHANGED Store!storeVars
    OBVIOUS
  <2>1. CASE \/ \E f \in Files, t \in BOOLEAN : OpenSource(f, t)
             \/ ParseSource \/ UNCHANGED vars
    BY <2>1 DEF OpenSource, ParseSource, vars, dbVars, Store!storeVars
  <2>2. CASE OpenFails \/ ParseAborts
    BY <2>2 DEF OpenFails, ParseAborts, Ready, Store!StoreNext, Store!Stop
  <2>3. CASE AddSource
    BY <2>3, AddedAtTheEnd DEF Inv, AddSource, Store!StoreNext, Store!AddSource
  <2>4. ASSUME NEW o \in Registrable, AddContainer(o) PROVE Store!StoreNext
    BY <2>4, RegistrableAssumption DEF AddContainer, Ready, Store!StoreNext, Store!Register
  <2>5. ASSUME NEW o \in Objects, GetRead(o) PROVE Store!StoreNext
    <3>1. o \in Registrable
      BY <2>5 DEF GetRead, Inv, TypeOK
    <3>2. filled[o] # None
      BY <2>5, <3>1 DEF GetRead, MapsInv, MapsTellFilled
    <3> QED BY <2>5, <3>2 DEF GetRead, Ready, Store!StoreNext, Store!Get
  <2>6. ASSUME NEW o \in Objects, GetFirst(o) PROVE Store!StoreNext
    <3>1. o \in registered /\ running /\ filled[o] = None
      <4>1. o \in registered /\ ~WasRead(o) /\ running
        BY <2>6 DEF GetFirst, Ready
      <4> QED BY <4>1 DEF Inv, TypeOK, MapsInv, MapsTellFilled
    <3>2. Store!Get(o)
      BY <2>6, <3>1, FilledFirst DEF Store!Get, Name
    <3> QED BY <3>1, <3>2 DEF Store!StoreNext
  <2>7. ASSUME NEW o \in Objects, GetAborts(o) PROVE Store!StoreNext
    BY <2>7 DEF GetAborts, Ready, Store!StoreNext, Store!Stop
  <2>8. ASSUME NEW o \in Objects, GetFails(o) PROVE Store!StoreNext
    <3>1. \/ o \notin registered
          \/ filled[o] = None /\ \A s \in DOMAIN sources : sources[s][Name(o)] = None
      BY <2>8 DEF GetFails, Having, Inv, TypeOK, MapsInv, MapsTellFilled
    <3>2. Store!Refuse(o) /\ running
      BY <2>8, <3>1 DEF GetFails, Ready, Store!Refuse, Name, Inv, TypeOK
    <3> QED BY <3>2 DEF Store!StoreNext
  <2> QED BY <2>1, <2>2, <2>3, <2>4, <2>5, <2>6, <2>7, <2>8 DEF Next
<1>3. Inv /\ MapsInv /\ [Next]_vars => MapsInv'
  BY MapsNext
<1> QED BY <1>1, <1>2, <1>3, MapsInit, InvCorrect, PTL
        DEF Spec, ImplementsStore, Store!StoreSpec
=============================================================================

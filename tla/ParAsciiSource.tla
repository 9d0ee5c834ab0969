--------------------------- MODULE ParAsciiSource ---------------------------
(***************************************************************************)
(* SParAsciiSource (lib/base/database/SParAsciiSource.cc): a file of       *)
(* parameters is split into containers when the source is constructed.     *)
(*                                                                         *)
(* The file has sections, each one a line with a name in brackets and the  *)
(* parameter lines that follow it.  A container keeps the lines as they    *)
(* are; here a line is its number in the file.  The actions are the turns  *)
(* of the loop in parseSource; Database runs them.                         *)
(***************************************************************************)
EXTENDS Naturals, Sequences

CONSTANTS
  Names,     (* names of containers                                        *)
  MaxLines,  (* bound: lines in a file                                     *)
  None       (* nullptr; no container                                      *)

ASSUME MaxLinesAssumption == MaxLines \in Nat
ASSUME NoneAssumption == None \notin Names /\ None \notin Seq(Nat)

Section(n) == [kind |-> "section", name |-> n]
Param == [kind |-> "param", name |-> None]
Blank == [kind |-> "blank", name |-> None]   (* also a comment             *)
Lines == {Section(n) : n \in Names} \cup {Param, Blank}
Files == UNION {[1 .. m -> Lines] : m \in 0 .. MaxLines}

VARIABLES
  state,       (* of the source that is constructed                        *)
  file,
  newline,     (* the last line ends with a newline                        *)
  next,        (* the lines taken from the stream                          *)
  cont_name,   (* the section the loop is in, or None                      *)
  cont_freed,  (* its container was not put into the map                   *)
  containers   (* the lines of each container, or None                     *)

sourceVars == <<state, file, newline, next, cont_name, cont_freed, containers>>

NoContainers == [n \in Names |-> None]

Closed ==
  /\ state = "closed"
  /\ file = <<>>
  /\ newline = TRUE
  /\ next = 0
  /\ cont_name = None
  /\ cont_freed = FALSE
  /\ containers = NoContainers

Open(f, terminated) ==
  /\ state = "closed"
  /\ state' = "lines"
  /\ file' = f
  /\ newline' = terminated
  /\ UNCHANGED <<next, cont_name, cont_freed, containers>>

Close ==
  /\ state' = "closed"
  /\ file' = <<>>
  /\ newline' = TRUE
  /\ next' = 0
  /\ cont_name' = None
  /\ cont_freed' = FALSE
  /\ containers' = NoContainers
-----------------------------------------------------------------------------
ReadLine(kind) ==
  /\ state = "lines"
  /\ next < Len(file)
  /\ file[next + 1].kind = kind
  /\ next' = next + 1
  /\ UNCHANGED <<file, newline>>

(* map::emplace leaves a container that is there as it is, and frees the   *)
(* new one, which the loop goes on to use.                                 *)
MutantReadSection ==   \* the container that is there is replaced
  /\ ReadLine("section")
  /\ cont_name' = file[next + 1].name
  /\ cont_freed' = FALSE
  /\ containers' = [containers EXCEPT ![cont_name'] = <<>>]
  /\ UNCHANGED state
ReadSection ==
  /\ ReadLine("section")
  /\ cont_name' = file[next + 1].name
  /\ cont_freed' = (containers[cont_name'] # None)
  /\ containers' = IF cont_freed' THEN containers ELSE [containers EXCEPT ![cont_name'] = <<>>]
  /\ UNCHANGED state

ReadBlank ==
  /\ ReadLine("blank")
  /\ UNCHANGED <<state, cont_name, cont_freed, containers>>

ReadParam ==
  /\ ReadLine("param") /\ cont_name # None /\ ~cont_freed
  /\ containers' = [containers EXCEPT ![cont_name] = Append(@, next + 1)]
  /\ UNCHANGED <<state, cont_name, cont_freed>>

(* A parameter line of a freed container is written to freed memory: it is *)
(* lost, or the program aborts.                                            *)
WriteFreed ==
  /\ ReadLine("param") /\ cont_name # None /\ cont_freed
  /\ state' \in {"lines", "aborted"}
  /\ UNCHANGED <<cont_name, cont_freed, containers>>

(* "Expected container name here": parseSource returns false, which the    *)
(* constructor does not look at.                                           *)
Reject ==
  /\ ReadLine("param") /\ cont_name = None
  /\ state' = "rejected"
  /\ UNCHANGED <<cont_name, cont_freed, containers>>

(* The buffer is as long as the file.  A line that fills it, because it is *)
(* the only one and has no newline, makes getline fail before the end of   *)
(* the file, and eof is never reached.                                     *)
OneOpenLine == Len(file) = 1 /\ ~newline

MutantAllRead ==   \* the end is seen only after a newline
  /\ state = "lines" /\ next = Len(file) /\ newline
  /\ state' = "parsed"
  /\ UNCHANGED <<file, newline, next, cont_name, cont_freed, containers>>
AllRead ==
  /\ state = "lines" /\ next = Len(file) /\ ~OneOpenLine
  /\ state' = "parsed"
  /\ UNCHANGED <<file, newline, next, cont_name, cont_freed, containers>>

ParseNext ==
  \/ ReadSection \/ ReadBlank \/ ReadParam \/ WriteFreed \/ Reject \/ AllRead
-----------------------------------------------------------------------------
SourceTypeOK ==
  /\ state \in {"closed", "lines", "parsed", "rejected", "aborted"}
  /\ file \in Seq(Lines) /\ Len(file) <= MaxLines
  /\ newline \in BOOLEAN
  /\ next \in 0 .. Len(file)
  /\ cont_name \in Names \cup {None}
  /\ cont_freed \in BOOLEAN
  /\ containers \in [Names -> Seq(Nat) \cup {None}]

(* The lines of the file, as far as it was read, that the first section    *)
(* with a name consists of.                                                *)
Begins(n, b) ==
  /\ b \in 1 .. next /\ file[b] = Section(n)
  /\ \A c \in 1 .. b - 1 : file[c] # Section(n)

ParamLines(b) ==
  {k \in b + 1 .. next : file[k] = Param /\ \A c \in b + 1 .. k : file[c].kind # "section"}

FirstSectionRead(n) ==
  IF containers[n] = None
    THEN \A b \in 1 .. next : file[b] # Section(n)
    ELSE \E b \in 1 .. next :
           /\ Begins(n, b)
           /\ {containers[n][i] : i \in DOMAIN containers[n]} = ParamLines(b)
           /\ \A i, j \in DOMAIN containers[n] : i < j => containers[n][i] < containers[n][j]

(* Whatever precedes or follows it, comes in between or has its name, a    *)
(* container has the parameter lines of the first section with its name,   *)
(* in the order of the file, each of them once.                            *)
SectionsAreRead == \A n \in Names : FirstSectionRead(n)
=============================================================================

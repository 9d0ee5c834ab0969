---------------------------- MODULE ParContainer ----------------------------
(***************************************************************************)
(* SParContainer (lib/base/database/SParContainer.cc): parameters from the *)
(* lines of a container, fromContainer, and back, toContainer.             *)
(*                                                                         *)
(* A line begins a parameter with its name, its type and values, or        *)
(* continues the values of the line before when that one ended with a      *)
(* backslash.  The container a module of the framework reads is one of a   *)
(* source; what toContainer writes can be read again.                      *)
(***************************************************************************)
EXTENDS Naturals, Sequences

CONSTANTS
  Params,      (* names of parameters                                      *)
  LineValues,  (* the sequences of values in a line                        *)
  LineSplit,   (* SParContainer::line_split                                *)
  MaxLines,    (* bound: lines of a container that is read                 *)
  MaxValues,   (* bound: values of a parameter that was added              *)
  None         (* no parameter                                             *)

(* The kinds of lines: the heading of a parameter; values alone, an empty  *)
(* line is one without values; a comment; and a line that has an invalid   *)
(* type or a value that is not a number.                                   *)
Heading(p, vs, open) == [kind |-> "heading", name |-> p, vals |-> vs, open |-> open]
Values(vs, open) == [kind |-> "values", name |-> None, vals |-> vs, open |-> open]
Blank == Values(<<>>, FALSE)
Comment == [kind |-> "comment", name |-> None, vals |-> <<>>, open |-> TRUE]
Invalid == [kind |-> "invalid", name |-> None, vals |-> <<>>, open |-> FALSE]
Lines ==
  {Heading(p, vs, open) : p \in Params, vs \in LineValues, open \in BOOLEAN}
    \cup {Values(vs, open) : vs \in LineValues, open \in BOOLEAN}
    \cup {Blank, Comment, Invalid}

VARIABLES
  phase,       (* a container is read, written, read again                 *)
  lines,       (* SContainer::lines                                        *)
  next,        (* the lines taken                                          *)
  wn,          (* what next: a parameter or a continuation; the program    *)
               (* may have ended                                           *)
  param_name,
  values,
  parameters,  (* the values of each parameter                             *)
  original,    (* the parameters that were written                         *)
  left         (* the parameters still to be written                       *)

NoParameters == [p \in Params |-> None]
Present(pars) == {p \in Params : pars[p] # None}
Added == {[i \in 1 .. k |-> i] : k \in 0 .. MaxValues}

(* Parameters are read from a container, or were added one by one.         *)
Init ==
  /\ \/ /\ phase = "read"
        /\ lines \in UNION {[1 .. m -> Lines] : m \in 0 .. MaxLines}
        /\ parameters = NoParameters
        /\ left = {}
     \/ /\ phase = "write"
        /\ lines = <<>>
        /\ parameters \in [Params -> Added \cup {None}]
        /\ left = Present(parameters)
  /\ next = 0
  /\ wn = "param"
  /\ param_name = None
  /\ values = <<>>
  /\ original = NoParameters
-----------------------------------------------------------------------------
Reading == phase \in {"read", "reread"} /\ wn # "failed" /\ next < Len(lines)
Line == lines[next + 1]

TakeLine ==
  /\ Reading
  /\ next' = next + 1
  /\ UNCHANGED <<phase, lines, original, left>>

(* Comments are skipped, empty lines are not inside a parameter.           *)
Skipped == Line = Comment \/ (Line = Blank /\ wn = "param")
SkipLine ==
  /\ TakeLine /\ Skipped
  /\ UNCHANGED <<wn, param_name, values, parameters>>

(* initParam, when the line has no backslash.                              *)
HeadingLine ==
  /\ TakeLine
  /\ wn = "param" /\ Line.kind = "heading" /\ (Line.open \/ Line.vals # <<>>)
  /\ param_name' = Line.name
  /\ values' = Line.vals
  /\ IF Line.open
       THEN wn' = "cont" /\ UNCHANGED parameters
       ELSE parameters' = [parameters EXCEPT ![Line.name] = Line.vals] /\ UNCHANGED wn

MutantContinue ==   \* the values before are dropped
  /\ TakeLine
  /\ wn = "cont" /\ Line.kind = "values"
  /\ values' = Line.vals
  /\ Line.open \/ values' # <<>>
  /\ IF Line.open
       THEN wn' = "cont" /\ UNCHANGED parameters
       ELSE wn' = "param" /\ parameters' = [parameters EXCEPT ![param_name] = values']
  /\ UNCHANGED param_name
Continue ==
  /\ TakeLine
  /\ wn = "cont" /\ Line.kind = "values"
  /\ values' = values \o Line.vals
  /\ Line.open \/ values' # <<>>
  /\ IF Line.open
       THEN wn' = "cont" /\ UNCHANGED parameters
       ELSE wn' = "param" /\ parameters' = [parameters EXCEPT ![param_name] = values']
  /\ UNCHANGED param_name

(* abort, exit, or the exception of substr: no name or no type, no values, *)
(* a name where values are expected.                                       *)
Broken ==
  \/ Line = Invalid
  \/ wn = "param" /\ Line.kind = "heading" /\ ~Line.open /\ Line.vals = <<>>
  \/ wn = "param" /\ Line.kind = "values" /\ Line # Blank
  \/ wn = "cont" /\ Line.kind = "heading"
  \/ wn = "cont" /\ Line.kind = "values" /\ ~Line.open /\ values \o Line.vals = <<>>
BrokenLine ==
  /\ TakeLine /\ Broken
  /\ wn' = "failed"
  /\ UNCHANGED <<param_name, values, parameters>>

(* A parameter whose last line has a backslash is left out.                *)
AllRead ==
  /\ wn # "failed" /\ next = Len(lines)
  /\ \/ phase = "read" /\ phase' = "write" /\ left' = Present(parameters)
     \/ phase = "reread" /\ phase' = "done" /\ UNCHANGED left
  /\ lines' = <<>>
  /\ next' = 0
  /\ wn' = "param"
  /\ param_name' = None
  /\ values' = <<>>
  /\ UNCHANGED <<parameters, original>>
-----------------------------------------------------------------------------
(* The lines of a parameter: the values behind its type, or, when they are *)
(* too many, in lines of their own.                                        *)
NumberOfLines(vs) == (Len(vs) + LineSplit - 1) \div LineSplit
MutantWritten(p, vs) ==   \* every line of values has a backslash
  IF Len(vs) <= LineSplit
    THEN <<Heading(p, vs, FALSE)>>
    ELSE <<Heading(p, <<>>, TRUE)>> \o
         [k \in 1 .. NumberOfLines(vs) |->
            Values(SubSeq(vs, (k - 1) * LineSplit + 1,
                          IF k < NumberOfLines(vs) THEN k * LineSplit ELSE Len(vs)),
                   TRUE)]
Written(p, vs) ==
  IF Len(vs) <= LineSplit
    THEN <<Heading(p, vs, FALSE)>>
    ELSE <<Heading(p, <<>>, TRUE)>> \o
         [k \in 1 .. NumberOfLines(vs) |->
            Values(SubSeq(vs, (k - 1) * LineSplit + 1,
                          IF k < NumberOfLines(vs) THEN k * LineSplit ELSE Len(vs)),
                   k < NumberOfLines(vs))]

WriteParameter(p) ==
  /\ phase = "write" /\ p \in left
  /\ lines' = lines \o Written(p, parameters[p])
  /\ left' = left \ {p}
  /\ UNCHANGED <<phase, next, wn, param_name, values, parameters, original>>

ReadAgain ==
  /\ phase = "write" /\ left = {}
  /\ phase' = "reread"
  /\ original' = parameters
  /\ parameters' = NoParameters
  /\ UNCHANGED <<lines, next, wn, param_name, values, left>>

Next ==
  \/ SkipLine \/ HeadingLine \/ Continue \/ BrokenLine \/ AllRead
  \/ \E p \in Params : WriteParameter(p)
  \/ ReadAgain

-----------------------------------------------------------------------------
(* A definition of a parameter: the lines b .. e, of which only the last   *)
(* one has no backslash.  Comments in between do not count.                *)
IsDefinition(p, b, e) ==
  /\ lines[b].kind = "heading" /\ lines[b].name = p
  /\ \A k \in b .. e : lines[k].open <=> k < e

ValuesIn(b, e) ==
  LET flat[k \in b - 1 .. Len(lines)] == IF k < b THEN <<>> ELSE flat[k - 1] \o lines[k].vals
  IN flat[e]

(* A parameter has the values of the last of its definitions that was read *)
(* to the end, those of all lines of it in the order of the container; it  *)
(* is there when it has such a definition.                                 *)
ParametersAsWritten ==
  phase \in {"read", "reread"} /\ wn # "failed" =>
    \A p \in Params :
      LET definitions == {d \in (1 .. next) \X (1 .. next) :
                            d[1] <= d[2] /\ IsDefinition(p, d[1], d[2])}
      IN IF parameters[p] = None
           THEN definitions = {}
           ELSE \E d \in definitions :
                  /\ \A c \in definitions : c[1] <= d[1]
                  /\ parameters[p] = ValuesIn(d[1], d[2])

(* Written and read again parameters are the same, whatever number of      *)
(* values they have; only one that was added without a value cannot be     *)
(* read.                                                                   *)
RoundTrip ==
  /\ phase = "done" => parameters = original
  /\ phase = "reread" /\ wn = "failed" => \E p \in Params : original[p] = <<>>
=============================================================================

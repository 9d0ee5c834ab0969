----------------------------- MODULE EventStore -----------------------------
(***************************************************************************)
(* What an event category promises to the code that uses it: a map from    *)
(* locators to objects.  While an event is being built an object may be    *)
(* put at any locator; once the event is sealed nothing can be added; an   *)
(* event written to the archive can be loaded back as it was.              *)
(* The index, the compression and the array behind it are not visible.     *)
(***************************************************************************)
EXTENDS Naturals, Sequences

CONSTANTS
  Locators,  (* the addresses of the category                              *)
  Objects,   (* the values an address can hold                             *)
  None       (* an address without an object, not in Objects               *)

VARIABLES
  objects,   (* the object at each locator, or None                        *)
  sealed,    (* no object can be added until the next Reset                *)
  archive    (* the events written so far, in order                        *)

storeVars == <<objects, sealed, archive>>

Contents == [Locators -> Objects \cup {None}]
Empty == [l \in Locators |-> None]

StoreInit ==
  /\ objects = Empty
  /\ sealed = FALSE
  /\ archive = <<>>

(* An object is put at one locator; the others keep theirs.                *)
Put(l, o) ==
  /\ ~sealed
  /\ objects' = [objects EXCEPT ![l] = o]
  /\ UNCHANGED <<sealed, archive>>

(* The event is closed for writing; its objects stay where they are.       *)
Seal ==
  /\ sealed' = TRUE
  /\ UNCHANGED <<objects, archive>>

(* The event is closed and appended to the archive.                        *)
Write ==
  /\ sealed' = TRUE
  /\ archive' = Append(archive, objects)
  /\ UNCHANGED objects

(* The k-th event of the archive becomes the current one, as it was.       *)
Load(k) ==
  /\ objects' = archive[k]
  /\ sealed' = TRUE
  /\ UNCHANGED archive

Reset ==
  /\ objects' = Empty
  /\ sealed' = FALSE
  /\ UNCHANGED archive

StoreNext ==
  \/ \E l \in Locators, o \in Objects : Put(l, o)
  \/ Seal
  \/ Write
  \/ \E k \in DOMAIN archive : Load(k)
  \/ Reset

StoreSpec == StoreInit /\ [][StoreNext]_storeVars
=============================================================================

---------------------------- MODULE RecordStream ----------------------------
(***************************************************************************)
(* What a data source promises to the event loop: the records of its file  *)
(* are delivered in events, each event a block of consecutive records that *)
(* begins where the last one ended, until the source reports its end.  No  *)
(* record is skipped, delivered twice or moved to another place.           *)
(***************************************************************************)
EXTENDS Naturals, Sequences

VARIABLES
  records,    (* the number of records in the file                         *)
  delivered,  (* how many of them have been delivered                      *)
  blocks,     (* the events: the numbers of their records                  *)
  ended       (* the source has reported its end                           *)

streamVars == <<records, delivered, blocks, ended>>

StreamInit ==
  /\ records \in Nat
  /\ delivered = 0
  /\ blocks = <<>>
  /\ ended = FALSE

Deliver(n) ==
  /\ ~ended
  /\ delivered + n <= records
  /\ delivered' = delivered + n
  /\ blocks' = Append(blocks, [k \in 1 .. n |-> delivered + k])
  /\ UNCHANGED <<records, ended>>

End ==
  /\ ~ended
  /\ ended' = TRUE
  /\ UNCHANGED <<records, delivered, blocks>>

StreamNext ==
  \/ \E n \in 1 .. records - delivered : Deliver(n)
  \/ End

StreamSpec == StreamInit /\ [][StreamNext]_streamVars
=============================================================================

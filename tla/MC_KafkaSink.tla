---------------------------- MODULE MC_KafkaSink ----------------------------
(* A queue of 2 slots, so a third line logged before the sender drains   *)
(* it is dropped; batches of up to 2 lines; 4 lines in a behaviour, and  *)
(* one send whose acknowledgement is lost.  The kernel writes 2 records *)
(* into a ring of 1, so the relay can find its next record overwritten. *)
EXTENDS KafkaSink
=============================================================================

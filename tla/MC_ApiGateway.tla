---------------------------- MODULE MC_ApiGateway ----------------------------
(* Three requests against a gin cap of 2, so a third is turned away or   *)
(* must be exempt; a vehicle semaphore of 1; a QUIC cap of 1 that a      *)
(* quicssh session can hold.                                             *)
EXTENDS ApiGateway
=============================================================================

-------------------------- MODULE MCSyncDelivery --------------------------
(***************************************************************************)
(* SyncDelivery for TLC: no definition of its own; the configurations give *)
(* the constants their values.  Record ids are numbers, so that their page *)
(* order is that of the numbers.                                           *)
(***************************************************************************)
EXTENDS SyncDelivery
=============================================================================

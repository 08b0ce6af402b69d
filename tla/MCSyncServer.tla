--------------------------- MODULE MCSyncServer ---------------------------
(***************************************************************************)
(* SyncServer for TLC: no definition of its own; the configurations give   *)
(* the constants their values, with model values as record ids.            *)
(***************************************************************************)
EXTENDS SyncServer
=============================================================================

--------------------------- MODULE MCSyncDevice ---------------------------
(***************************************************************************)
(* SyncDevice for TLC: the configurations give the constants their values, *)
(* with model values as record ids and columns; records are alike, and    *)
(* columns.                                                                *)
(***************************************************************************)
EXTENDS SyncDevice, TLC

Alike == Permutations(Columns) \cup Permutations(Records)
=============================================================================

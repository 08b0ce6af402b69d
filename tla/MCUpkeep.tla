------------------------------ MODULE MCUpkeep ------------------------------
(***************************************************************************)
(* Upkeep for TLC: the configuration gives the constants their values;     *)
(* payment ids are numbers, because the tool reads them in order.          *)
(***************************************************************************)
EXTENDS Upkeep
=============================================================================

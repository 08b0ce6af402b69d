---------------------------- MODULE MCSessions ----------------------------
(***************************************************************************)
(* Sessions for TLC: accounts and calls are model values that can be       *)
(* exchanged; the configuration gives the bounds.                          *)
(***************************************************************************)
EXTENDS Sessions, TLC

Alike == Permutations(Accounts) \cup Permutations(Calls)
=============================================================================

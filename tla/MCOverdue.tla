----------------------------- MODULE MCOverdue -----------------------------
(***************************************************************************)
(* Overdue for TLC: processes, requests and invoices are model values that *)
(* can be exchanged.                                                       *)
(***************************************************************************)
EXTENDS Overdue, TLC

Alike == Permutations(Servers) \cup Permutations(Requests) \cup Permutations(Invoices)
=============================================================================

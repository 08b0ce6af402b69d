---------------------------- MODULE MCPayments ----------------------------
(***************************************************************************)
(* Payments for TLC: webhook deliveries and checkout requests are model    *)
(* values that can be exchanged.                                           *)
(***************************************************************************)
EXTENDS Payments, TLC

Symmetry == Permutations(Handlers) \cup Permutations(Requests)
=============================================================================

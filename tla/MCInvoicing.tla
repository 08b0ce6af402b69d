---------------------------- MODULE MCInvoicing ----------------------------
(***************************************************************************)
(* Invoicing for TLC: one process that serves one request next to its job, *)
(* a pool with a connection to spare, and one schedule, all model values;  *)
(* Invoicing.cfg has the bounds.  No symmetry: the run checks liveness.    *)
(***************************************************************************)
EXTENDS Invoicing
=============================================================================

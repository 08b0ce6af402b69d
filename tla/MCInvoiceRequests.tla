------------------------- MODULE MCInvoiceRequests -------------------------
(***************************************************************************)
(* InvoiceRequests for TLC: invoices, or clients, that can be exchanged,   *)
(* an account whose settings were never read and whose invoices have       *)
(* documents of an earlier version, and the tables that TypeORM makes.  In *)
(* those of the migrations some entries of the trail cannot be written and *)
(* fail; here they may fail, or not, so every behaviour with the           *)
(* migrations is, but for schema, one of these.                            *)
(***************************************************************************)
EXTENDS InvoiceRequests, TLC

Alike == Permutations(Invoices) \cup Permutations(Clients)
MCInit ==
    /\ Init /\ ~settings /\ schema = "synchronize"
    /\ \A i \in Invoices : Live(i) => store.documents[i] = 1
MCSpec == MCInit /\ [][Next]_vars
=============================================================================

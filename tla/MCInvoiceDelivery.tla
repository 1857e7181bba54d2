-------------------------- MODULE MCInvoiceDelivery --------------------------
(* Small instances of InvoiceDelivery for TLC.                             *)
EXTENDS InvoiceDelivery, TLC

Symmetry == Permutations(Workers) \cup Permutations(Senders)
=============================================================================

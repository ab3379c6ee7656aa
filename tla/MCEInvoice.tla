----------------------------- MODULE MCEInvoice -----------------------------
(* Instances of EInvoice for TLC. *)
EXTENDS EInvoice

CONSTANTS i1, w1, w2
=============================================================================

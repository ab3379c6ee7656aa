---------------------------- MODULE MCSettlement ----------------------------
(* Instances of Settlement for TLC. *)
EXTENDS Settlement, TLC

CONSTANTS i1, i2, b1, e1, h1, h2

\* One captured payment, of more than any single payment leaves due.
OneCapture  == e1 :> 2
ItsInvoice  == e1 :> i1
NoCaptures  == <<>>
=============================================================================

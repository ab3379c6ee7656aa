----------------------------- MODULE MCSessions -----------------------------
(* Instances of Sessions for TLC. *)
EXTENDS Sessions, TLC

CONSTANTS t1, t2, t3, laptop, phone

TwoTabs  == (t1 :> laptop) @@ (t2 :> laptop)

Both     == Permutations({t1, t2})
=============================================================================

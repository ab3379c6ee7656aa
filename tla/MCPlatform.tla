----------------------------- MODULE MCPlatform -----------------------------
(* Instances of Platform for TLC. *)
EXTENDS Platform, TLC

CONSTANTS free, paid

OneEach == (free :> 1) @@ (paid :> 2)
=============================================================================

------------------------------- MODULE MCChart -------------------------------
(* Instances of Chart for TLC: two accounts of the template, two of the users'. *)
EXTENDS Chart

CONSTANTS assets, banks

TwoRows == <<<<assets, Root>>, <<banks, assets>>>>
=============================================================================

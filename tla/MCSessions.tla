------------------------------ MODULE MCSessions ------------------------------
(* Two publishers and two requests on one member or visitor, all faults.     *)
EXTENDS Sessions, TLC

Symmetric == Permutations(Pub) \cup Permutations(Req)
=============================================================================

------------------------------ MODULE MCTurns ------------------------------
(* Turns on a small instance. *)
EXTENDS Turns, TLC

Symmetric == Permutations(Req) \cup Permutations(Msg) \cup Permutations(Proc)
=============================================================================

------------------------------ MODULE MCTitles ------------------------------
(* Two requests about one conversation, and two attempts at a time. *)
EXTENDS Titles
=============================================================================

------------------------------- MODULE MCGroups ------------------------------
(* Small instances of Groups. *)
EXTENDS Groups, TLC

Symmetric == Permutations(Players) \cup Permutations(Groups)
==============================================================================

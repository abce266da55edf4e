------------------------------ MODULE MCSecurity -----------------------------
(***************************************************************************)
(* A small instance of Security: two sessions of one host.  An input costs *)
(* two fractions of a token and a tick refills one: the limits of the code *)
(* scaled down so that all of them can be reached within a few ticks.      *)
(***************************************************************************)
EXTENDS Security, TLC

CONSTANTS s1, s2, host

MCHostOf == [s \in {s1, s2} |-> host]
Symmetric == Permutations(Sessions)
==============================================================================

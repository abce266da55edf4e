----------------------------- MODULE MCPresence ------------------------------
(* A small instance of Presence: another player, and two rooms. *)
EXTENDS Presence
==============================================================================

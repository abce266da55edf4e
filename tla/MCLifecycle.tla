----------------------------- MODULE MCLifecycle -----------------------------
(***************************************************************************)
(* An instance of Lifecycle.  Three connections: one served and logged in  *)
(* and one logging in when the signal comes, and one being accepted.       *)
(***************************************************************************)
EXTENDS Lifecycle
==============================================================================

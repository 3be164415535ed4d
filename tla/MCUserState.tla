---------------------------- MODULE MCUserState -----------------------------
(* UserState.tla on small instances. *)
EXTENDS UserState
=============================================================================

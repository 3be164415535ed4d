---------------------------- MODULE MCHeartbeat -----------------------------
(* Heartbeat.tla on small instances. *)
EXTENDS Heartbeat
=============================================================================

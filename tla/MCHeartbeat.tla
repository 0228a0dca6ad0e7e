---------------------------- MODULE MCHeartbeat ----------------------------
(* Heartbeat on a small instance: a counter of four values, a limit of one *)
(* unanswered ping, and one connection of each side.                       *)
EXTENDS Heartbeat
============================================================================

---------------------------- MODULE MCRendezvous ----------------------------
(* Rendezvous for TLC: at most MaxEnds times a process is killed or        *)
(* stopped; any number of reconnects.                                      *)
EXTENDS Rendezvous
=============================================================================

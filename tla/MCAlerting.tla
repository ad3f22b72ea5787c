---------------------------- MODULE MCAlerting ----------------------------
(* Small instances of Alerting for TLC. *)
EXTENDS Alerting

Symmetry == Permutations(Alerts) \cup Permutations(Incs) \cup Permutations(Channels)
===========================================================================

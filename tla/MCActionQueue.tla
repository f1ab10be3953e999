---------------------------- MODULE MCActionQueue ----------------------------
(* Instances of ActionQueue for TLC. *)
EXTENDS ActionQueue

TwoActions == 1..2
=============================================================================

------------------------------ MODULE MCTailer ------------------------------
(* Instances of Tailer for TLC: the constants have their values in the cfg. *)
EXTENDS Tailer
=============================================================================

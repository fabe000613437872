-------------------------- MODULE MCBashSupervisor ---------------------------
(* Instances of BashSupervisor for TLC. *)
EXTENDS BashSupervisor, TLC

Symmetry == Permutations(Descendants) \cup Permutations(Pipes)
=============================================================================

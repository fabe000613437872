---------------------------- MODULE MCLocalLaunch ---------------------------
(* Clients, backends and inode numbers are interchangeable. *)
EXTENDS LocalLaunch, TLC

Symmetry == Permutations(Clients) \cup Permutations(Backends) \cup Permutations(Inodes) \cup Permutations(Times)
=============================================================================

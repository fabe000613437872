---------------------------- MODULE MCJobRegistry ---------------------------
(***************************************************************************)
(* Small instances of JobRegistry.                                         *)
(***************************************************************************)
EXTENDS JobRegistry, TLC

\* The callers are interchangeable.
CallerSymmetry == Permutations(Callers)
=============================================================================

-------------------------- MODULE MCClientWorkspace -------------------------
EXTENDS ClientWorkspace, TLC
CONSTANTS s1, s2, s3
SessionSymmetry == Permutations(Sessions)
=============================================================================

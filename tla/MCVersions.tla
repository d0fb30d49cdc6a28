----------------------------- MODULE MCVersions -----------------------------
(* Values for model checking Versions.                                      *)
EXTENDS Versions, TLC

HashSymmetry == Permutations(Hashes)
=============================================================================

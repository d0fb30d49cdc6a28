------------------------------ MODULE MCAccess ------------------------------
(* Values for model checking Access.                                        *)
EXTENDS Access, TLC

RequestSymmetry == Permutations(Requests)
=============================================================================

----------------------------- MODULE MCCascade -----------------------------
(* Cascade for TLC.                                                        *)
EXTENDS Cascade, TLC

Symmetry == Permutations(Local)

=============================================================================

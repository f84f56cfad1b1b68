------------------------- MODULE MCTimeCoordinator -------------------------
(* TimeCoordinator for TLC: participants are interchangeable model values, *)
(* so the safety runs use the symmetry set.                                *)
EXTENDS TimeCoordinator, TLC

Symmetry == Permutations(Participant)

=============================================================================

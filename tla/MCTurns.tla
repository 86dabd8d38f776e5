------------------------------ MODULE MCTurns ------------------------------
(* Small instances of Turns.                                               *)
EXTENDS Turns, TLC

Symmetry == Permutations(Item)

=============================================================================

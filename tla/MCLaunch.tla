------------------------------ MODULE MCLaunch ------------------------------
(* Small instances of Launch.  Workers are interchangeable.                *)
EXTENDS Launch, TLC

Symmetry == Permutations(Worker)

=============================================================================

---------------------------- MODULE MCSessions ----------------------------
(* Small instances of Sessions.  Requests and edits are interchangeable.   *)
EXTENDS Sessions, TLC

Symmetry == Permutations(Client) \cup Permutations(Edit)

=============================================================================

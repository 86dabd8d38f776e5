------------------------------- MODULE MCGate -------------------------------
(* Small instances of Gate.  Runners are interchangeable.                  *)
EXTENDS Gate, TLC

MCWorkspace == [provider |-> "docker", session |-> TRUE, branch |-> "main"]

MCNoBudget == NoBudget

MCBudget == [model |-> 3, tool |-> 1, shell |-> 1]

MCCalls == { <<"read_file", "a">>, <<"write_file", "a">> }

Symmetry == Permutations(Runner)

=============================================================================

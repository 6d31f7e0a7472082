-------------------------- MODULE MCProcessManager --------------------------
(* The process manager with the symmetries TLC may use: calls of one kind  *)
(* are interchangeable, and so are names and binaries.                     *)
EXTENDS ProcessManager, TLC

Symmetry == Permutations(Creates) \cup Permutations(Replaces)
            \cup Permutations(Deletes) \cup Permutations(Names)
            \cup Permutations(Binaries)
=============================================================================

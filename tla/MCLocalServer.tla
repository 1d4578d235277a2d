--------------------------- MODULE MCLocalServer ---------------------------
(* Instances of LocalServer for TLC. *)
EXTENDS LocalServer, TLC

\* Displays, values and configurations are interchangeable.
Symmetry == Permutations(Clients) \cup Permutations(Values) \cup Permutations(Configs)
=============================================================================

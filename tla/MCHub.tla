------------------------------- MODULE MCHub -------------------------------
(* Small instances of Hub for TLC. *)
EXTENDS Hub, TLC

\* Connections, keys and workers are interchangeable.
Symmetry == Permutations(Clients) \cup Permutations(Keys) \cup Permutations(Workers)

=============================================================================

---------------------------- MODULE MCSearchIndex ----------------------------
(* Instances of SearchIndex for TLC. *)
EXTENDS SearchIndex, TLC

\* Keys and the threads of one kind are interchangeable.
Symmetry == Permutations(Key) \cup Permutations(Querier)
=============================================================================

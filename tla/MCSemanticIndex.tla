-------------------------- MODULE MCSemanticIndex --------------------------
(* Instances of SemanticIndex for TLC. *)
EXTENDS SemanticIndex, TLC

CONSTANTS r1, r2, f1, f2, a, b, j

Symmetry == Permutations(Run) \cup Permutations(File) \cup Permutations(Text)
=============================================================================

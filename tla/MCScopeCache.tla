---------------------------- MODULE MCScopeCache ----------------------------
(* Instances of ScopeCache for TLC. *)
EXTENDS ScopeCache, TLC

CONSTANTS k1, k2, q1, q2, f1, f2

\* The second key leaves out a hidden file.
MCShown == [k \in Key |-> IF k = k2 THEN File \ {f2} ELSE File]
MCRules == {{f1}}

Symmetry == Permutations(Query)
=============================================================================

---------------------------- MODULE MCFreshness ----------------------------
(* Instances of Freshness for TLC. *)
EXTENDS Freshness, TLC

CONSTANTS q1, q2, d1, d2, f1, m, n

MCHome == f1 :> d2
MCRules == {{}, {f1}}

\* The queries are interchangeable.
Symmetry == Permutations(Query)
=============================================================================

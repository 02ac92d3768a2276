---------------------------- MODULE MCDirEntries ----------------------------
(* Instances of DirEntries for TLC. *)
EXTENDS DirEntries, TLC

CONSTANTS k1, k2, c1, c2, c3, c4, f1, f2

\* The second key leaves out a hidden file.
MCShown == [k \in Key |-> IF k = k2 THEN File \ {f2} ELSE File]

Symmetry == Permutations(Call)
=============================================================================

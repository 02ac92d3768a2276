--------------------------- MODULE MCChildProcess ---------------------------
(* Instances of ChildProcess for TLC. *)
EXTENDS ChildProcess

MCLimit == [s \in Stream |-> IF s = "stdout" THEN 1 ELSE 2]
\* Every order of the three streams.
MCPlans == {p \in [1 .. 3 -> Pipe] : \A i, j \in 1 .. 3 : p[i] = p[j] => i = j}
=============================================================================

------------------------------- MODULE MCServer -------------------------------
(* Instances of Server for TLC. *)
EXTENDS Server

\* Every call has an id of its own.
MCId == Call
MCIdOf == [c \in Call |-> c]
=============================================================================

------------------------------ MODULE Directory ------------------------------
(***************************************************************************)
(* What the two caches of tools-mcp-local/src/tools/scope_cache.rs watch:  *)
(* a directory whose files come and go, as the keys show it.  Time is in   *)
(* units of the granularity of file times: two changes in one unit leave   *)
(* the same stamp.                                                         *)
(***************************************************************************)
EXTENDS Naturals

CONSTANTS
    Key, File,
    Shown,          \* the files each key asks for: hidden ones or not, depth
    MaxTime,        \* bound of the clock
    None

Time == 0 .. MaxTime

ASSUME DirectoryAssumption ==
    /\ Key # {} /\ Shown \in [Key -> SUBSET File]
    /\ MaxTime \in Nat

VARIABLES now, files, mtime     \* mtime: the time of the last change

directory == <<now, files, mtime>>

\* A file appears or disappears.
Toggle(f) ==
    /\ files' = IF f \in files THEN files \ {f} ELSE files \cup {f}
    /\ mtime' = now
    /\ UNCHANGED now

Age ==
    /\ now < MaxTime
    /\ now' = now + 1
    /\ UNCHANGED <<files, mtime>>

\* The entries of a cache, a function on the keys, and what evictions leave.
Cached(E) == {k \in Key : E[k] # None}

Without(E, S) == [k \in Key |-> IF k \in S THEN None ELSE E[k]]
=============================================================================

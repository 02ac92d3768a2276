---------------------------- MODULE SnapshotCache ----------------------------
(***************************************************************************)
(* What the search index manager promises: per key at most one build at a  *)
(* time, started only when nothing is cached; what is cached under a key   *)
(* is the outcome of the build that was reserved for it last; generations  *)
(* are never reused; and the cache never holds more than MaxEntries        *)
(* snapshots.  Forgetting is allowed at any time.                          *)
(***************************************************************************)
EXTENDS Naturals, FiniteSets

CONSTANTS Key, MaxEntries

VARIABLES
    building,   \* generation being built for the key, 0 when none
    cached,     \* generation of the key's snapshot, 0 when none
    latest      \* the last generation handed out

vars == <<building, cached, latest>>

Init ==
    /\ building = [k \in Key |-> 0]
    /\ cached = [k \in Key |-> 0]
    /\ latest = 0

Reserve(k) ==
    /\ building[k] = 0 /\ cached[k] = 0
    /\ latest' = latest + 1
    /\ building' = [building EXCEPT ![k] = latest + 1]
    /\ UNCHANGED cached

Abandon(k) ==
    /\ building[k] # 0
    /\ building' = [building EXCEPT ![k] = 0]
    /\ UNCHANGED <<cached, latest>>

Without(c, S) == [k \in Key |-> IF k \in S THEN 0 ELSE c[k]]

\* Storing a snapshot may cost any of the others their place, and its own.
Store(k) ==
    /\ building[k] # 0
    /\ building' = [building EXCEPT ![k] = 0]
    /\ \E S \in SUBSET Key :
          cached' = Without([cached EXCEPT ![k] = building[k]], S)
    /\ Cardinality({j \in Key : cached'[j] # 0}) <= MaxEntries
    /\ UNCHANGED latest

Forget ==
    /\ \E S \in SUBSET Key : cached' = Without(cached, S)
    /\ UNCHANGED <<building, latest>>

\* Other caches may take generations from the same counter.
Skip ==
    /\ latest' \in Nat /\ latest' > latest
    /\ UNCHANGED <<building, cached>>

Next == Forget \/ Skip \/ \E k \in Key : Reserve(k) \/ Abandon(k) \/ Store(k)

Spec == Init /\ [][Next]_vars
=============================================================================

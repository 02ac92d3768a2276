----------------------------- MODULE AccessOrder -----------------------------
(***************************************************************************)
(* The access order of a cache: a VecDeque of keys, the least recently     *)
(* used first.  The caches of tools-mcp-local keep the same one            *)
(* (tools/scope_cache.rs, tools/handlers/search_memory.rs).                *)
(***************************************************************************)
EXTENDS Naturals, Sequences, SequencesExt

\* VecDeque::retain: the elements in S, in their order.  A recursive function,
\* not SelectSeq, of which the provers know nothing.
retain(order, S) ==
    LET kept[n \in 0 .. Len(order)] ==
            IF n = 0 THEN << >>
            ELSE IF order[n] \in S THEN Append(kept[n - 1], order[n])
                                   ELSE kept[n - 1]
    IN  kept[Len(order)]

\* Mutants: the old place is kept; the used key is put at the wrong end.
Mut_touch(order, k) == Append(order, k)
Mut_touch_front(order, k) == <<k>> \o retain(order, ToSet(order) \ {k})
touch(order, k) == Append(retain(order, ToSet(order) \ {k}), k)
=============================================================================

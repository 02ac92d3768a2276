------------------------------ MODULE ScopeCache ------------------------------
(***************************************************************************)
(* The cache of directory trees (tools-mcp-local/src/tools/scope_cache.rs, *)
(* RepoScopeCache): Glob and the file discovery of Search ask it for the   *)
(* files below a root.  A cached tree is served again if the stamps of its *)
(* directories and ignore files are unchanged; every so many hits it is    *)
(* walked again and compared.                                              *)
(*                                                                         *)
(* Each directory is listed, stamped and compared on its own, so the tree  *)
(* is one Directory, with files and possibly one ignore file.              *)
(***************************************************************************)
EXTENDS Naturals, Sequences, FiniteSets, FiniteSetsExt, SequencesExt, AccessOrder,
        Directory

CONSTANTS
    Query,          \* the threads that ask
    QueryBudget,    \* bound: queries in all
    NoIgnore,       \* the keys that do without ignore files
    Rules,          \* what an ignore file may hide
    MaxEntries, MaxFilesTotal, Interval,    \* RepoScopeCacheLimits
    Slack           \* SCOPE_STAMP_RACY_SLACK

ASSUME ScopeCacheAssumption ==
    /\ NoIgnore \subseteq Key /\ Rules \subseteq SUBSET File
    /\ MaxEntries \in Nat /\ MaxFilesTotal \in Nat /\ Interval \in Nat
    /\ QueryBudget \in Nat
    /\ Slack \in Nat \ {0}  \* no shorter than the granularity of file times
    /\ None \notin Nat /\ \A S \in SUBSET File : None # S
    /\ Query # {} /\ IsFiniteSet(Query)

\* RecursiveScopeSnapshot: its generation (Arc::ptr_eq: each build has its own),
\* the files listed, the stamps of the directory and of the ignore file (None:
\* absent, or not asked for), and stamp_observation_floor.
Snapshot == [gen : Nat, list : SUBSET File, stamp : Time,
             rule : {None} \cup Time, floor : Time]

NoSnapshot == [gen |-> 0, list |-> {}, stamp |-> 0, rule |-> None, floor |-> 0]

VARIABLES
    rule, rtime,        \* on disk: what the ignore file hides, its time, or None
    \* RepoScopeCacheInner
    entries,            \* [snap, dirty, pending, hits] by key, or None
    accessOrder,
    nextGen,
    \* the queries
    pc, key, left,
    held,               \* the snapshot cached_snapshot returned
    build,              \* the snapshot being built
    comparing,          \* it is the candidate of a full validation
    answer,             \* the list returned, None for an error
    \* history
    seen,               \* what the tree showed during the query
    unchecked           \* answers since the key's tree was last walked

disk == <<now, files, mtime, rule, rtime>>
cache == <<entries, accessOrder, nextGen>>
locals == <<key, left, held, build, comparing, answer>>
vars == <<now, files, mtime, rule, rtime, entries, accessOrder, nextGen, pc,
          key, left, held, build, comparing, answer, seen, unchecked>>

-----------------------------------------------------------------------------
(* The disk *)

\* The files asked for that no ignore file hides, and those that are there.
Wanted(k) == Shown[k] \ (IF rule = None \/ k \in NoIgnore THEN {} ELSE rule)
Visible(k) == files \cap Wanted(k)

\* A query going on may be shown the tree before or after the change.
Witness ==
    seen' = [q \in Query |-> IF pc[q] = "idle" THEN seen[q]
                             ELSE seen[q] \cup {Visible(key[q])'}]

ChangeFiles(f) ==
    /\ Toggle(f)
    /\ UNCHANGED <<rule, rtime, cache, pc, locals, unchecked>>
    /\ Witness

\* The ignore file is rewritten, appears or disappears: the last two change
\* the directory as well.
ChangeRule(r) ==
    /\ rule # r
    /\ rule' = r
    /\ rtime' = IF r = None THEN None ELSE now
    /\ mtime' = IF None \in {rule, r} THEN now ELSE mtime
    /\ UNCHANGED <<now, files, cache, pc, locals, unchecked>>
    /\ Witness

Tick ==
    /\ Age
    /\ UNCHANGED <<rule, rtime, cache, pc, locals, seen, unchecked>>

-----------------------------------------------------------------------------
(* RepoScopeCacheInner *)

\* The entry still holds that very snapshot (Arc::ptr_eq).
Holds(k, s) == entries[k] # None /\ entries[k].snap.gen = s.gen

total_cached_scope_entries(E) ==
    MapThenSumSet(LAMBDA k : Cardinality(E[k].snap.list), Cached(E))

Fits(E) ==
    /\ Cardinality(Cached(E)) <= MaxEntries
    /\ total_cached_scope_entries(E) <= MaxFilesTotal

\* The least number of the oldest keys that must go; all of them at most.
evicted(E, order) ==
    CHOOSE n \in 0 .. Len(order) :
        /\ Fits(Without(E, Range(SubSeq(order, 1, n)))) \/ n = Len(order)
        /\ \A m \in 0 .. n - 1 : ~ Fits(Without(E, Range(SubSeq(order, 1, m))))

-----------------------------------------------------------------------------
(* Snapshots *)

\* The stamp is older than the build by the slack: what changed since bears
\* another stamp.
\* Mutant: no slack.
Mut_no_slack(stamp, floor) == stamp <= floor
RaceFree(stamp, floor) == stamp + Slack <= floor

umbrella_eligible(s) == RaceFree(s.stamp, s.floor)

\* Mutant: the stamps are not compared.
Mut_trust(s) == TRUE
directory_fingerprints_match(s) == s.stamp = mtime

\* An ignore file recorded as absent is not looked for under an eligible
\* directory, which was compared just before.
ignore_unchanged(k, s) ==
    \/ k \in NoIgnore
    \/ (s.rule = None /\ umbrella_eligible(s))
    \/ s.rule = rtime

recursive_scope_snapshot_matches(s, t) ==
    s.list = t.list /\ s.stamp = t.stamp /\ s.rule = t.rule

-----------------------------------------------------------------------------
(* get_or_build *)

Go(q, s) == pc' = [pc EXCEPT ![q] = s]

Return(q, list) ==
    /\ Go(q, "idle")
    /\ answer' = [answer EXCEPT ![q] = list]
    /\ held' = [held EXCEPT ![q] = NoSnapshot]
    /\ build' = [build EXCEPT ![q] = NoSnapshot]
    /\ comparing' = [comparing EXCEPT ![q] = FALSE]
    /\ seen' = [seen EXCEPT ![q] = {}]
    /\ UNCHANGED <<key, left>>

\* A query answered without a walk of its own.
ReturnUnchecked(q, list) ==
    /\ Return(q, list)
    /\ unchecked' = [unchecked EXCEPT ![key[q]] = @ + 1]
    /\ UNCHANGED <<disk, cache>>

Start(q, k) ==
    /\ pc[q] = "idle" /\ left > 0
    /\ Go(q, "lookup")
    /\ key' = [key EXCEPT ![q] = k]
    /\ left' = left - 1
    /\ answer' = [answer EXCEPT ![q] = None]
    /\ seen' = [seen EXCEPT ![q] = {Visible(k)}]
    /\ UNCHANGED <<disk, cache, held, build, comparing, unchecked>>

\* A deadline checked, or a read of the disk that fails.
Fails(q) ==
    /\ pc[q] \in {"lookup", "state", "dirs", "rules", "walk", "list", "stamp",
                  "fingerprint"}
    /\ Return(q, None)
    /\ UNCHANGED <<disk, cache, unchecked>>

Step(q, s) ==
    /\ Go(q, s)
    /\ UNCHANGED <<disk, cache, locals, seen, unchecked>>

LookupMisses(q) ==
    /\ pc[q] = "lookup" /\ entries[key[q]] = None
    /\ Step(q, "begin")

\* Mutant: the walk that was due is forgotten.
Mut_forget(e) ==
    LET due == Interval = 0 \/ e.hits + 1 >= Interval
    IN  [e EXCEPT !.hits = IF due THEN 0 ELSE @ + 1]
Hit(e) ==
    LET due == Interval = 0 \/ e.hits + 1 >= Interval
    IN  [e EXCEPT !.hits = IF due THEN 0 ELSE @ + 1,
                  !.pending = due \/ @]

LookupHits(q) ==
    /\ pc[q] = "lookup" /\ entries[key[q]] # None
    /\ entries' = [entries EXCEPT ![key[q]] = Hit(@)]
    /\ accessOrder' = touch(accessOrder, key[q])
    /\ held' = [held EXCEPT ![q] = entries[key[q]].snap]
    /\ Go(q, "state")
    /\ UNCHANGED <<disk, nextGen, key, left, build, comparing, answer, seen, unchecked>>

\* Evicted meanwhile, or found to be out of date by another query.
StateGone(q) ==
    /\ pc[q] = "state"
    /\ \/ entries[key[q]] = None
       \/ (Holds(key[q], held[q]) /\ entries[key[q]].dirty)
    /\ Step(q, "begin")

\* Replaced by another query.
StateReplaced(q) ==
    /\ pc[q] = "state"
    /\ entries[key[q]] # None /\ ~ Holds(key[q], held[q])
    /\ ReturnUnchecked(q, entries[key[q]].snap.list)

StateClean(q) ==
    /\ pc[q] = "state"
    /\ Holds(key[q], held[q]) /\ ~ entries[key[q]].dirty
    /\ Go(q, "dirs")
    /\ comparing' = [comparing EXCEPT ![q] = entries[key[q]].pending]
    /\ UNCHANGED <<disk, cache, key, left, held, build, answer, seen, unchecked>>

CheckDirectories(q) ==
    /\ pc[q] = "dirs"
    /\ Step(q, IF directory_fingerprints_match(held[q]) THEN "rules" ELSE "mark")

\* The ignore files: after them, the answer or the walk that is due.
RulesDiffer(q) ==
    /\ pc[q] = "rules" /\ ~ ignore_unchanged(key[q], held[q])
    /\ Step(q, "mark")

RulesMatch(q) ==
    /\ pc[q] = "rules" /\ ignore_unchanged(key[q], held[q])
    /\ IF comparing[q] THEN Step(q, "begin") ELSE ReturnUnchecked(q, held[q].list)

mark_dirty(q) ==
    /\ pc[q] = "mark"
    /\ Go(q, "begin")
    /\ entries' = IF Holds(key[q], held[q])
                    THEN [entries EXCEPT ![key[q]].dirty = TRUE] ELSE entries
    /\ comparing' = [comparing EXCEPT ![q] = FALSE]
    /\ UNCHANGED <<disk, accessOrder, nextGen, key, left, held, build, answer,
                   seen, unchecked>>

-----------------------------------------------------------------------------
(* build_recursive_scope_snapshot, and what becomes of the snapshot *)

Begin(q) ==
    /\ pc[q] = "begin"
    /\ Go(q, "walk")
    /\ build' = [build EXCEPT ![q] = [gen |-> nextGen, list |-> {}, stamp |-> 0,
                                      rule |-> None, floor |-> now]]
    /\ nextGen' = nextGen + 1
    /\ UNCHANGED <<disk, entries, accessOrder, key, left, held, comparing, answer,
                   seen, unchecked>>

Building(q) ==
    UNCHANGED <<disk, cache, key, left, held, comparing, answer, seen, unchecked>>

\* The walk reads the ignore file, then the directory.
WalkRules(q) ==
    /\ pc[q] = "walk"
    /\ Go(q, "list")
    /\ build' = [build EXCEPT ![q].list = Wanted(key[q])]
    /\ Building(q)

WalkFiles(q) ==
    /\ pc[q] = "list"
    /\ Go(q, "stamp")
    /\ build' = [build EXCEPT ![q].list = files \cap @]
    /\ Building(q)

Stamp(q) ==
    /\ pc[q] = "stamp"
    /\ Go(q, "fingerprint")
    /\ build' = [build EXCEPT ![q].stamp = mtime]
    /\ Building(q)

build_ignore_fingerprint(q) ==
    /\ pc[q] = "fingerprint"
    /\ Go(q, "store")
    /\ build' = [build EXCEPT ![q].rule = IF key[q] \in NoIgnore THEN None ELSE rtime]
    /\ Building(q)

\* The candidate of a full validation is no different from the entry.
clear_validation_flags(q) ==
    /\ pc[q] = "store" /\ comparing[q]
    /\ recursive_scope_snapshot_matches(held[q], build[q])
    /\ Return(q, held[q].list)
    /\ IF Holds(key[q], held[q])
         THEN /\ entries' = [entries EXCEPT ![key[q]].dirty = FALSE,
                                            ![key[q]].pending = FALSE]
              /\ unchecked' = [unchecked EXCEPT ![key[q]] = 0]
         ELSE UNCHANGED <<entries, unchecked>>
    /\ UNCHANGED <<disk, accessOrder, nextGen>>

\* A candidate may differ in what is not modelled, the stamps of the files.
store_snapshot(q) ==
    LET E == [entries EXCEPT ![key[q]] =
                [snap |-> build[q], dirty |-> FALSE, pending |-> FALSE, hits |-> 0]]
        order == touch(accessOrder, key[q])
        n == evicted(E, order)
    IN  /\ pc[q] = "store"
        /\ entries' = Without(E, Range(SubSeq(order, 1, n)))
        /\ accessOrder' = SubSeq(order, n + 1, Len(order))
        /\ Return(q, build[q].list)
        /\ unchecked' = [unchecked EXCEPT ![key[q]] = 0]
        /\ UNCHANGED <<disk, nextGen>>

-----------------------------------------------------------------------------
Init ==
    /\ now = 0
    /\ files \in SUBSET File /\ mtime = 0
    /\ rule = None /\ rtime = None
    /\ entries = [k \in Key |-> None] /\ accessOrder = <<>> /\ nextGen = 1
    /\ pc = [q \in Query |-> "idle"]
    /\ key = [q \in Query |-> CHOOSE k \in Key : TRUE]
    /\ left = QueryBudget
    /\ held = [q \in Query |-> NoSnapshot] /\ build = [q \in Query |-> NoSnapshot]
    /\ comparing = [q \in Query |-> FALSE]
    /\ answer = [q \in Query |-> None]
    /\ seen = [q \in Query |-> {}]
    /\ unchecked = [k \in Key |-> 0]

Ask(q) ==
    \/ \E k \in Key : Start(q, k)
    \/ LookupMisses(q) \/ LookupHits(q)
    \/ StateGone(q) \/ StateReplaced(q) \/ StateClean(q)
    \/ CheckDirectories(q) \/ RulesDiffer(q) \/ RulesMatch(q) \/ mark_dirty(q)
    \/ Begin(q) \/ WalkRules(q) \/ WalkFiles(q) \/ Stamp(q)
    \/ build_ignore_fingerprint(q)
    \/ clear_validation_flags(q) \/ store_snapshot(q)
    \/ Fails(q)

Environment ==
    \/ \E f \in File : ChangeFiles(f)
    \/ \E r \in Rules \cup {None} : ChangeRule(r)
    \/ Tick

Next == Environment \/ \E q \in Query : Ask(q)

Spec == Init /\ [][Next]_vars

-----------------------------------------------------------------------------
(* Properties *)

Entry == [snap : Snapshot, dirty : BOOLEAN, pending : BOOLEAN,
          hits : {n \in Nat : n = 0 \/ n < Interval}]

ASSUME NoEntryAssumption == None \notin Entry

\* The variables have their types; a cached tree never has Interval hits.
TypeOK ==
    /\ now \in Time /\ files \subseteq File /\ mtime \in Time
    /\ rule \in {None} \cup Rules /\ rtime \in {None} \cup Time
    /\ entries \in [Key -> {None} \cup Entry] /\ nextGen \in Nat
    /\ pc \in [Query -> {"idle", "lookup", "state", "dirs", "rules", "mark", "begin",
                         "walk", "list", "stamp", "fingerprint", "store"}]
    /\ key \in [Query -> Key] /\ left \in 0 .. QueryBudget
    /\ held \in [Query -> Snapshot] /\ build \in [Query -> Snapshot]
    /\ comparing \in [Query -> BOOLEAN]
    /\ answer \in [Query -> {None} \cup SUBSET File]
    /\ seen \in [Query -> SUBSET SUBSET File] /\ unchecked \in [Key -> Nat]

\* The order names every cached key once and no other: without it
\* evict_to_capacity would leave entries it cannot reach (its loop just ends
\* when the order is empty), or drop a recent one.
OrderNamesCached ==
    /\ Range(accessOrder) = Cached(entries)
    /\ Len(accessOrder) = Cardinality(Cached(entries))

\* Both stamps are old enough for the time of the build.
Settled(s) ==
    /\ umbrella_eligible(s)
    /\ s.rule = None \/ RaceFree(s.rule, s.floor)

\* What the directory and the ignore file show is what the snapshot lists.
Exact(k, s) ==
    /\ s.list = Visible(k)
    /\ k \in NoIgnore \/ (s.rule = None) = (rule = None)

\* The stamp rule: a snapshot whose stamps are settled and unchanged is exact,
\* whatever changed during and since its build; an ignore file recorded as
\* absent is absent.  This is what allows umbrella_eligible_directories to
\* skip the probes.
SettledIsExact ==
    \A k \in Key :
        entries[k] # None =>
            LET s == entries[k].snap
            IN  Settled(s) /\ s.stamp = mtime /\ (k \in NoIgnore \/ s.rule \in {None, rtime})
                  => Exact(k, s)

\* A query that checks a settled snapshot and answers from it gives what the
\* tree has shown during the call, though directory and ignore file are
\* compared one after the other.
SettledAnswersAreCurrent ==
    [][\A q \in Query :
         pc[q] = "rules" /\ pc'[q] = "idle" /\ answer'[q] # None
             /\ Settled(held[q])
           => answer'[q] \in seen[q]]_vars

\* The limits of TOOLS_SCOPE_CACHE_MAX_ENTRIES and _MAX_FILES_TOTAL hold
\* together, whatever the sizes of the trees stored, and what the loop of
\* evict_to_capacity can reach is every cached tree.
WithinLimits == OrderNamesCached /\ Fits(entries)

\* A tree that changed without a trace in the stamps is served a bounded
\* number of times: fewer than Interval hits, and the queries already past
\* the check when a walk ends, go by before the next walk.
UncheckedAnswersAreBounded ==
    \A k \in Key :
        unchecked[k] <= (IF Interval = 0 THEN 0 ELSE Interval - 1) + Cardinality(Query) - 1
=============================================================================

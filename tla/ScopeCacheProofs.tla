-------------------------- MODULE ScopeCacheProofs --------------------------
(* Theorems about the two caches of scope_cache.rs, for any directory, any  *)
(* callers and any limits: first the trees of ScopeCache, under any slack of *)
(* at least one unit of file times, then the listings of DirEntries.         *)
EXTENDS ScopeCache, DirEntries, CacheLemmas, FiniteSetTheorems, TLAPS

\* What an entry or a build may hold, and what Hit makes of an entry.
LEMMA DataTypes ==
    /\ NoSnapshot \in Snapshot
    /\ \A k \in Key : Wanted(k) \in SUBSET File /\ Visible(k) \in SUBSET File
    /\ \A e \in Entry : Hit(e) \in Entry /\ Hit(e).snap = e.snap
<1>1. NoSnapshot \in Snapshot
  BY ScopeCacheAssumption, DirectoryAssumption DEF NoSnapshot, Snapshot, Time
<1>2. \A k \in Key : Wanted(k) \in SUBSET File /\ Visible(k) \in SUBSET File
  BY ScopeCacheAssumption, DirectoryAssumption DEF Visible, Wanted
<1>3. ASSUME NEW e \in Entry
      PROVE  Hit(e) \in Entry /\ Hit(e).snap = e.snap
  <2>1. CASE Interval = 0 \/ e.hits + 1 >= Interval
    BY <2>1 DEF Hit, Entry
  <2>2. CASE ~ (Interval = 0 \/ e.hits + 1 >= Interval)
    <3>1. Hit(e) = [e EXCEPT !.hits = e.hits + 1, !.pending = e.pending]
      BY <2>2 DEF Hit, Entry
    <3>2. e.hits + 1 \in {n \in Nat : n = 0 \/ n < Interval}
      BY <2>2, ScopeCacheAssumption, DirectoryAssumption DEF Entry
    <3>3. QED
      BY <3>1, <3>2 DEF Entry
  <2>3. QED
    BY <2>1, <2>2
<1>4. QED
  BY <1>1, <1>2, <1>3

\* The updates of a snapshot being built.
LEMMA SnapshotUpdates ==
    ASSUME NEW s \in Snapshot, NEW list \in SUBSET File, NEW t \in Time,
           NEW r \in {None} \cup Time
    PROVE  /\ [s EXCEPT !.list = list] \in Snapshot
           /\ [s EXCEPT !.stamp = t] \in Snapshot
           /\ [s EXCEPT !.rule = r] \in Snapshot
<1> DEFINE R == {None} \cup Time
<1>1. Snapshot = [gen : Nat, list : SUBSET File, stamp : Time, rule : R, floor : Time]
  BY DEF Snapshot
<1> HIDE DEF R
<1>2. r \in R
  BY DEF R
<1>3. QED
  BY <1>1, <1>2

\* A returning query leaves typed locals.
LEMMA ReturnTyping ==
    ASSUME TypeOK, NEW q \in Query, NEW list \in {None} \cup SUBSET File,
           Return(q, list)
    PROVE  /\ pc' \in [Query -> {"idle", "lookup", "state", "dirs", "rules", "mark",
                                 "begin", "walk", "list", "stamp", "fingerprint", "store"}]
           /\ answer' \in [Query -> {None} \cup SUBSET File]
           /\ held' \in [Query -> Snapshot] /\ build' \in [Query -> Snapshot]
           /\ comparing' \in [Query -> BOOLEAN]
           /\ seen' \in [Query -> SUBSET SUBSET File]
           /\ UNCHANGED <<key, left>>
BY DataTypes DEF TypeOK, Return, Go

\* Every action keeps the types.
LEMMA TypingStep == TypeOK /\ [Next]_vars => TypeOK'
<1> SUFFICES ASSUME TypeOK, [Next]_vars
             PROVE  TypeOK'
  OBVIOUS
<1> USE DEF disk, cache, locals
<1>1. ASSUME NEW f \in File, ChangeFiles(f)
      PROVE  TypeOK'
  <2>1. files' \subseteq File
    BY <1>1 DEF ChangeFiles, Toggle, TypeOK
  <2>2. \A k \in Key : Visible(k)' \in SUBSET File
    BY <2>1 DEF Visible, Wanted
  <2>3. seen' \in [Query -> SUBSET SUBSET File]
    BY <1>1, <2>2 DEF ChangeFiles, Toggle, Witness, TypeOK
  <2>4. QED
    BY <1>1, <2>1, <2>3 DEF ChangeFiles, Toggle, TypeOK
<1>2. ASSUME NEW r \in Rules \cup {None}, ChangeRule(r)
      PROVE  TypeOK'
  <2>1. \A k \in Key : Visible(k)' \in SUBSET File
    BY <1>2 DEF Visible, Wanted, ChangeRule, TypeOK
  <2>2. seen' \in [Query -> SUBSET SUBSET File]
    BY <1>2, <2>1 DEF ChangeRule, Witness, TypeOK
  <2>3. QED
    BY <1>2, <2>2 DEF ChangeRule, TypeOK
<1>3. ASSUME Tick
      PROVE  TypeOK'
  BY <1>3, ScopeCacheAssumption, DirectoryAssumption DEF Tick, Age, TypeOK, Time
<1>4. ASSUME NEW q \in Query, NEW k \in Key, Start(q, k)
      PROVE  TypeOK'
  BY <1>4, DataTypes, ScopeCacheAssumption, DirectoryAssumption DEF Start, Go, TypeOK
<1>5. ASSUME NEW q \in Query, LookupMisses(q)
      PROVE  TypeOK'
  BY <1>5 DEF LookupMisses, Step, Go, TypeOK
<1>6. ASSUME NEW q \in Query, LookupHits(q)
      PROVE  TypeOK'
  <2>1. entries[key[q]] \in Entry
    BY <1>6 DEF LookupHits, TypeOK
  <2>2. entries' \in [Key -> {None} \cup Entry]
    BY <1>6, <2>1, DataTypes DEF LookupHits, TypeOK
  <2>3. held' \in [Query -> Snapshot]
    BY <1>6, <2>1 DEF LookupHits, TypeOK, Entry
  <2>4. QED
    BY <1>6, <2>2, <2>3 DEF LookupHits, Go, TypeOK
<1>7. ASSUME NEW q \in Query, StateGone(q)
      PROVE  TypeOK'
  BY <1>7 DEF StateGone, Step, Go, TypeOK
<1>8. ASSUME NEW q \in Query, NEW list \in SUBSET File, ReturnUnchecked(q, list)
      PROVE  TypeOK'
  <2>1. unchecked' \in [Key -> Nat]
    BY <1>8 DEF ReturnUnchecked, TypeOK
  <2>2. Return(q, list) /\ UNCHANGED <<disk, cache>>
    BY <1>8 DEF ReturnUnchecked
  <2>3. QED
    BY <2>1, <2>2, ReturnTyping DEF TypeOK
<1>9. ASSUME NEW q \in Query, StateReplaced(q)
      PROVE  TypeOK'
  <2>1. entries[key[q]].snap.list \in SUBSET File
    BY <1>9 DEF StateReplaced, TypeOK, Entry, Snapshot
  <2>2. QED
    BY <1>8, <1>9, <2>1 DEF StateReplaced
<1>10. ASSUME NEW q \in Query, StateClean(q)
       PROVE  TypeOK'
  <2>1. entries[key[q]].pending \in BOOLEAN
    BY <1>10 DEF StateClean, Holds, TypeOK, Entry
  <2>2. comparing' \in [Query -> BOOLEAN]
    BY <1>10, <2>1 DEF StateClean, TypeOK
  <2>3. QED
    BY <1>10, <2>2 DEF StateClean, Go, TypeOK
<1>11. ASSUME NEW q \in Query, CheckDirectories(q)
       PROVE  TypeOK'
  BY <1>11 DEF CheckDirectories, Step, Go, TypeOK
<1>12. ASSUME NEW q \in Query, RulesDiffer(q)
       PROVE  TypeOK'
  BY <1>12 DEF RulesDiffer, Step, Go, TypeOK
<1>13. ASSUME NEW q \in Query, RulesMatch(q)
       PROVE  TypeOK'
  <2>1. CASE comparing[q]
    BY <1>13, <2>1 DEF RulesMatch, Step, Go, TypeOK
  <2>2. CASE ~ comparing[q]
    <3>1. held[q].list \in SUBSET File
      BY DEF TypeOK, Snapshot
    <3>2. QED
      BY <1>8, <1>13, <2>2, <3>1 DEF RulesMatch
  <2>3. QED
    BY <2>1, <2>2
<1>14. ASSUME NEW q \in Query, mark_dirty(q)
       PROVE  TypeOK'
  <2>1. entries' \in [Key -> {None} \cup Entry]
    <3>1. CASE Holds(key[q], held[q])
      <4>1. entries[key[q]] \in Entry
        BY <3>1 DEF Holds, TypeOK
      <4>2. [entries[key[q]] EXCEPT !.dirty = TRUE] \in Entry
        BY <4>1 DEF Entry
      <4>3. QED
        BY <1>14, <3>1, <4>2 DEF mark_dirty, TypeOK
    <3>2. CASE ~ Holds(key[q], held[q])
      BY <1>14, <3>2 DEF mark_dirty, TypeOK
    <3>3. QED
      BY <3>1, <3>2
  <2>2. QED
    BY <1>14, <2>1 DEF mark_dirty, Go, TypeOK
<1>15. ASSUME NEW q \in Query, Begin(q)
       PROVE  TypeOK'
  <2>1. build' \in [Query -> Snapshot]
    BY <1>15, ScopeCacheAssumption, DirectoryAssumption DEF Begin, TypeOK, Snapshot, Time
  <2>2. QED
    BY <1>15, <2>1 DEF Begin, Go, TypeOK
<1>16. ASSUME NEW q \in Query, WalkRules(q) \/ WalkFiles(q)
       PROVE  TypeOK'
  <2>1. Wanted(key[q]) \in SUBSET File /\ files \cap build[q].list \in SUBSET File
    BY DataTypes DEF TypeOK
  <2>2. [build[q] EXCEPT !.list = Wanted(key[q])] \in Snapshot
        /\ [build[q] EXCEPT !.list = files \cap build[q].list] \in Snapshot
    BY <2>1, SnapshotUpdates DEF TypeOK
  <2>3. build' \in [Query -> Snapshot]
    BY <1>16, <2>2 DEF WalkRules, WalkFiles, TypeOK
  <2>4. QED
    BY <1>16, <2>3 DEF WalkRules, WalkFiles, Building, Go, TypeOK
<1>17. ASSUME NEW q \in Query, Stamp(q)
       PROVE  TypeOK'
  <2>1. [build[q] EXCEPT !.stamp = mtime] \in Snapshot
    BY SnapshotUpdates DEF TypeOK
  <2>2. build' \in [Query -> Snapshot]
    BY <1>17, <2>1 DEF Stamp, TypeOK
  <2>3. QED
    BY <1>17, <2>2 DEF Stamp, Building, Go, TypeOK
<1>18. ASSUME NEW q \in Query, build_ignore_fingerprint(q)
       PROVE  TypeOK'
  <2>1. [build[q] EXCEPT !.rule = IF key[q] \in NoIgnore THEN None ELSE rtime] \in Snapshot
    BY SnapshotUpdates DEF TypeOK
  <2>2. build' \in [Query -> Snapshot]
    BY <1>18, <2>1 DEF build_ignore_fingerprint, TypeOK
  <2>3. QED
    BY <1>18, <2>2 DEF build_ignore_fingerprint, Building, Go, TypeOK
<1>19. ASSUME NEW q \in Query, clear_validation_flags(q)
       PROVE  TypeOK'
  <2>1. held[q].list \in SUBSET File /\ Return(q, held[q].list)
    BY <1>19 DEF clear_validation_flags, TypeOK, Snapshot
  <2>2. entries' \in [Key -> {None} \cup Entry] /\ unchecked' \in [Key -> Nat]
    <3>1. CASE Holds(key[q], held[q])
      <4>1. entries[key[q]] \in Entry
        BY <3>1 DEF Holds, TypeOK
      <4>2. [entries[key[q]] EXCEPT !.dirty = FALSE, !.pending = FALSE] \in Entry
        BY <4>1 DEF Entry
      <4>3. entries' = [entries EXCEPT ![key[q]] =
                          [entries[key[q]] EXCEPT !.dirty = FALSE, !.pending = FALSE]]
        BY <1>19, <3>1 DEF clear_validation_flags, TypeOK
      <4>4. QED
        BY <1>19, <3>1, <4>2, <4>3 DEF clear_validation_flags, TypeOK
    <3>2. CASE ~ Holds(key[q], held[q])
      BY <1>19, <3>2 DEF clear_validation_flags, TypeOK
    <3>3. QED
      BY <3>1, <3>2
  <2>3. QED
    BY <1>19, <2>1, <2>2, ReturnTyping DEF clear_validation_flags, TypeOK
<1>20. ASSUME NEW q \in Query, store_snapshot(q)
       PROVE  TypeOK'
  <2>1. build[q].list \in SUBSET File /\ Return(q, build[q].list)
    BY <1>20 DEF store_snapshot, TypeOK, Snapshot
  <2>2. [snap |-> build[q], dirty |-> FALSE, pending |-> FALSE, hits |-> 0] \in Entry
    BY DEF TypeOK, Entry
  <2>3. entries' \in [Key -> {None} \cup Entry]
    BY <1>20, <2>2 DEF store_snapshot, Without, TypeOK
  <2>4. QED
    BY <1>20, <2>1, <2>3, ReturnTyping DEF store_snapshot, TypeOK
<1>21. ASSUME NEW q \in Query, Fails(q)
       PROVE  TypeOK'
  BY <1>21, ReturnTyping DEF Fails, TypeOK
<1>22. CASE UNCHANGED vars
  BY <1>22 DEF vars, TypeOK
<1>23. QED
  BY <1>1, <1>2, <1>3, <1>4, <1>5, <1>6, <1>7, <1>9, <1>10, <1>11, <1>12, <1>13,
     <1>14, <1>15, <1>16, <1>17, <1>18, <1>19, <1>20, <1>21, <1>22
     DEF Next, Environment, Ask

\* Init has the types.
LEMMA TypingInit == Init => TypeOK
<1> SUFFICES ASSUME Init
             PROVE  TypeOK
  OBVIOUS
<1>1. (CHOOSE k \in Key : TRUE) \in Key
  BY ScopeCacheAssumption, DirectoryAssumption
<1>2. QED
  BY <1>1, DataTypes, ScopeCacheAssumption, DirectoryAssumption DEF Init, TypeOK, Time

\* The variables keep their types, for any disk and any queries.
THEOREM TypeInvariant == Spec => []TypeOK
BY TypingInit, TypingStep, PTL DEF Spec

-----------------------------------------------------------------------------
(* The stamp rule.  A change is stamped with its time, so what a stamp shows *)
(* to be older than the floor of a build has not changed since the floor.    *)

\* The times of the disk are not in the future.
DiskTimes ==
    /\ mtime <= now
    /\ rtime # None => rtime <= now
    /\ rtime = None <=> rule = None

\* Nothing that key k looks at has changed since f.
Untouched(k, f) == mtime < f /\ (k \in NoIgnore \/ rule = None \/ rtime < f)

\* What is known of the snapshot of a key once the walk has read the ignore
\* file, once it has read the directory, and once the ignore file was stamped.
Masked(k, s) == s.floor <= now /\ (Untouched(k, s.floor) => s.list = Wanted(k))
Listed(k, s) == s.floor <= now /\ (Untouched(k, s.floor) => s.list = Visible(k))
Probed(k, s) ==
    k \notin NoIgnore /\ mtime < s.floor /\ s.rule = None => rule = None
Sound(k, s) == Listed(k, s) /\ Probed(k, s)

\* The snapshot was compared, and the files of an unchanged ignore file are
\* those that were seen then.
Compared(q) ==
    /\ umbrella_eligible(held[q])
    /\ \/ key[q] \in NoIgnore
       \/ held[q].rule = None
       \/ held[q].rule = rtime /\ RaceFree(rtime, held[q].floor)
    => held[q].list \in seen[q]

Holding == {"state", "dirs", "rules", "mark"}

\* What a query knows at its control point.
Knows(q) ==
    /\ pc[q] # "idle" => Visible(key[q]) \in seen[q]
    /\ pc[q] \in Holding => Sound(key[q], held[q])
    /\ pc[q] = "rules" => Compared(q)
    /\ pc[q] = "walk" => build[q].floor <= now
    /\ pc[q] = "list" => Masked(key[q], build[q])
    /\ pc[q] \in {"stamp", "fingerprint"} => Listed(key[q], build[q])
    /\ pc[q] = "store" => Sound(key[q], build[q])

StampInv ==
    /\ DiskTimes
    /\ \A k \in Key : entries[k] # None => Sound(k, entries[k].snap)
    /\ \A q \in Query : Knows(q)

\* The slack is at least one unit of file times.
LEMMA RaceFreeIsOlder ==
    ASSUME NEW t \in Time, NEW f \in Time, RaceFree(t, f)
    PROVE  t < f
<1>1. t \in Int /\ f \in Int /\ Slack \in Nat \ {0}
  BY ScopeCacheAssumption, DirectoryAssumption DEF Time
<1>2. QED
  BY <1>1 DEF RaceFree

\* Changes of the disk and the clock leave what is known of a snapshot valid.
LEMMA DiskStep ==
    ASSUME TypeOK, DiskTimes, NEW k \in Key, NEW s \in Snapshot, s.floor <= now,
           \/ \E f \in File : ChangeFiles(f)
           \/ \E r \in Rules \cup {None} : ChangeRule(r)
           \/ Tick
    PROVE  /\ DiskTimes' /\ s.floor <= now'
           /\ Masked(k, s) => Masked(k, s)'
           /\ Listed(k, s) => Listed(k, s)'
           /\ Probed(k, s) => Probed(k, s)'
<1> USE DEF TypeOK, DiskTimes, Time, Masked, Listed, Probed, Untouched, Visible, Wanted,
           Snapshot
<1>1. ASSUME NEW f \in File, ChangeFiles(f)
      PROVE  /\ DiskTimes' /\ s.floor <= now'
             /\ ~ (mtime' < s.floor)
             /\ (Masked(k, s) => Masked(k, s)')
             /\ (Listed(k, s) => Listed(k, s)') /\ (Probed(k, s) => Probed(k, s)')
  BY <1>1 DEF ChangeFiles, Toggle
<1>2. ASSUME NEW r \in Rules \cup {None}, ChangeRule(r)
      PROVE  /\ DiskTimes' /\ s.floor <= now'
             /\ (Masked(k, s) => Masked(k, s)')
             /\ (Listed(k, s) => Listed(k, s)') /\ (Probed(k, s) => Probed(k, s)')
  <2>1. DiskTimes' /\ s.floor <= now'
    BY <1>2, ScopeCacheAssumption, DirectoryAssumption DEF ChangeRule
  <2>2. CASE None \in {rule, r}
    BY <1>2, <2>1, <2>2 DEF ChangeRule
  <2>3. CASE None \notin {rule, r}
    BY <1>2, <2>1, <2>3 DEF ChangeRule
  <2>4. QED
    BY <2>1, <2>2, <2>3
<1>3. ASSUME Tick
      PROVE  /\ DiskTimes' /\ s.floor <= now'
             /\ (Masked(k, s) => Masked(k, s)')
             /\ (Listed(k, s) => Listed(k, s)') /\ (Probed(k, s) => Probed(k, s)')
  BY <1>3 DEF Tick, Age
<1>4. QED
  BY <1>1, <1>2, <1>3


\* The disk: what a query or an entry holds stays sound, and what was compared
\* stays compared.
LEMMA EnvironmentStep ==
    ASSUME TypeOK, StampInv,
           \/ \E f \in File : ChangeFiles(f)
           \/ \E r \in Rules \cup {None} : ChangeRule(r)
           \/ Tick
    PROVE  StampInv'
<1> USE DEF disk, cache, locals
<1>1. UNCHANGED <<entries, pc, key, held, build>>
  BY DEF ChangeFiles, Toggle, ChangeRule, Tick, Age
<1>2. DiskTimes'
  BY ScopeCacheAssumption, DirectoryAssumption
     DEF StampInv, TypeOK, DiskTimes, ChangeFiles, Toggle, ChangeRule, Tick, Age, Time
<1>3. ASSUME NEW k \in Key, entries[k] # None
      PROVE  Sound(k, entries[k].snap)'
  <2>1. entries[k].snap \in Snapshot /\ Sound(k, entries[k].snap)
    BY <1>3 DEF StampInv, TypeOK, Entry
  <2>2. QED
    BY <1>1, <2>1, DiskStep DEF Sound, Listed, StampInv
<1>4. ASSUME NEW q \in Query
      PROVE  Knows(q)'
  <2>1. held[q] \in Snapshot /\ build[q] \in Snapshot /\ key[q] \in Key /\ Knows(q)
    BY DEF StampInv, TypeOK
  <2>2. pc[q] # "idle" => Visible(key[q])' \in seen'[q] /\ seen[q] \subseteq seen'[q]
    <3>1. CASE Tick
      BY <3>1, <2>1 DEF Tick, Age, Knows, Visible, Wanted
    <3>2. CASE ~ Tick
      BY <3>2, <1>1, <2>1 DEF ChangeFiles, Toggle, ChangeRule, Witness, TypeOK, Visible, Wanted
    <3>3. QED
      BY <3>1, <3>2
  <2>3. pc[q] \in Holding => Sound(key[q], held[q])'
    BY <1>1, <2>1, DiskStep DEF Sound, Listed, StampInv, Knows
  <2>4. pc[q] = "rules" => Compared(q)'
    <3>1. CASE UNCHANGED rtime
      BY <1>1, <2>1, <2>2, <3>1 DEF Compared, Knows, umbrella_eligible, RaceFree
    <3>2. CASE rtime' = None
      BY <1>1, <2>1, <2>2, <3>2 DEF Compared, Knows, umbrella_eligible, RaceFree
    <3>3. CASE rtime' = now
      <4>1. pc[q] = "rules" => held[q].floor <= now
        BY <2>1 DEF Knows, Holding, Sound, Listed
      <4>2. pc[q] = "rules" => ~ RaceFree(rtime', held[q].floor)
        <5>1. now \in Int /\ held[q].floor \in Time
          BY <2>1, ScopeCacheAssumption, DirectoryAssumption DEF TypeOK, Time, Snapshot
        <5>2. pc[q] = "rules" => ~ (now < held[q].floor)
          BY <4>1, <5>1, ScopeCacheAssumption, DirectoryAssumption DEF Time
        <5>3. QED
          BY <3>3, <5>1, <5>2, RaceFreeIsOlder DEF TypeOK
      <4>3. QED
        BY <1>1, <2>1, <2>2, <4>2 DEF Compared, Knows, umbrella_eligible, RaceFree
    <3>4. QED
      BY <3>1, <3>2, <3>3 DEF ChangeFiles, Toggle, ChangeRule, Tick, Age
  <2>5. pc[q] = "walk" => build[q].floor <= now'
    BY <2>1, DiskStep DEF Knows, StampInv
  <2>6. pc[q] \in {"stamp", "fingerprint"} => Listed(key[q], build[q])'
    BY <1>1, <2>1, DiskStep DEF Listed, StampInv, Knows
  <2>7. pc[q] = "store" => Sound(key[q], build[q])'
    BY <1>1, <2>1, DiskStep DEF Sound, Listed, StampInv, Knows
  <2>8. pc[q] = "list" => Masked(key[q], build[q])'
    BY <1>1, <2>1, DiskStep DEF Masked, StampInv, Knows
  <2>9. QED
    BY <1>1, <2>2, <2>3, <2>4, <2>5, <2>6, <2>7, <2>8 DEF Knows
<1>5. QED
  BY <1>1, <1>2, <1>3, <1>4 DEF StampInv

\* A step of a query leaves the disk and the other queries alone.
LEMMA QueryFrame ==
    ASSUME TypeOK, StampInv, NEW q \in Query,
           UNCHANGED <<now, files, mtime, rule, rtime>>,
           \A p \in Query \ {q} :
              /\ pc'[p] = pc[p] /\ key'[p] = key[p] /\ held'[p] = held[p]
              /\ build'[p] = build[p] /\ seen'[p] = seen[p],
           \A k \in Key : entries'[k] # None => Sound(k, entries'[k].snap),
           Knows(q)'
    PROVE  StampInv'
<1>1. \A k \in Key : Visible(k)' = Visible(k)
  BY DEF Visible, Wanted
<1>2. DiskTimes'
  BY DEF StampInv, DiskTimes
<1>3. \A k \in Key : entries'[k] # None => Sound(k, entries[k].snap)'
  BY <1>1 DEF Sound, Listed, Probed, Untouched
<1>4. ASSUME NEW p \in Query \ {q}
      PROVE  Knows(p)'
  <2>1. Knows(p) /\ key[p] \in Key
    BY DEF StampInv, TypeOK
  <2>2. Visible(key[p])' = Visible(key[p])
    BY DEF Visible, Wanted
  <2>3. Wanted(key[p])' = Wanted(key[p])
    BY DEF Wanted
  <2>4. /\ Sound(key[p], held[p]) => Sound(key[p], held[p])'
        /\ Sound(key[p], build[p]) => Sound(key[p], build[p])'
        /\ Listed(key[p], build[p]) => Listed(key[p], build[p])'
        /\ Masked(key[p], build[p]) => Masked(key[p], build[p])'
        /\ Compared(p) => Compared(p)'
    BY <2>2, <2>3 DEF Compared, umbrella_eligible, RaceFree, Sound, Masked, Listed,
       Probed, Untouched
  <2>5. QED
    BY <2>1, <2>2, <2>4 DEF Knows
<1>5. QED
  BY <1>2, <1>3, <1>4 DEF StampInv

\* Nothing is cached and no query has begun.
LEMMA StampInit == Init => StampInv
BY ScopeCacheAssumption, DirectoryAssumption DEF Init, StampInv, DiskTimes, Knows, Holding

\* A query that returns knows nothing any more.
LEMMA ReturnFrame ==
    ASSUME TypeOK, NEW q \in Query, NEW list, Return(q, list)
    PROVE  /\ Knows(q)'
           /\ \A p \in Query \ {q} :
                /\ pc'[p] = pc[p] /\ key'[p] = key[p] /\ held'[p] = held[p]
                /\ build'[p] = build[p] /\ seen'[p] = seen[p]
<1>1. pc'[q] = "idle"
  BY DEF Return, Go, TypeOK
<1>2. Knows(q)'
  BY <1>1 DEF Knows, Holding
<1>3. QED
  BY <1>2 DEF Return, Go, TypeOK


\* A query that goes on from a control point at which it holds a sound
\* snapshot, or none: the disk is as it was, so what it knew still holds.
LEMMA StepKnows ==
    ASSUME TypeOK, StampInv, NEW q \in Query, NEW s, Step(q, s), pc[q] # "idle",
           \/ s = "begin"
           \/ s = "mark" /\ pc[q] \in {"dirs", "rules"}
           \/ s = "rules" /\ pc[q] = "dirs" /\ Compared(q)
    PROVE  StampInv'
<1> USE DEF disk, cache, locals
<1>1. /\ pc'[q] = s /\ UNCHANGED <<entries, key, held, build, seen>>
      /\ UNCHANGED <<now, files, mtime, rule, rtime>>
      /\ \A p \in Query \ {q} : pc'[p] = pc[p]
  BY DEF Step, Go, TypeOK
<1>2. \A k \in Key : entries'[k] # None => Sound(k, entries'[k].snap)
  BY <1>1 DEF StampInv
<1>3. Knows(q)'
  <2>1. Visible(key[q])' = Visible(key[q]) /\ Knows(q)
    BY <1>1 DEF Visible, Wanted, StampInv
  <2>2. CASE s = "begin"
    BY <1>1, <2>1, <2>2 DEF Knows, Holding
  <2>3. CASE s = "mark" /\ pc[q] \in {"dirs", "rules"}
    BY <1>1, <2>1, <2>3 DEF Knows, Holding, Sound, Listed, Probed, Untouched
  <2>4. CASE s = "rules" /\ pc[q] = "dirs" /\ Compared(q)
    BY <1>1, <2>1, <2>4 DEF Knows, Holding, Sound, Listed, Probed, Untouched,
       Compared, umbrella_eligible, RaceFree
  <2>5. QED
    BY <2>2, <2>3, <2>4
<1>4. QED
  BY <1>1, <1>2, <1>3, QueryFrame

\* A settled snapshot whose directory is as it was lists what the tree shows.
LEMMA SettledSnapshot ==
    ASSUME TypeOK, StampInv, NEW k \in Key, NEW s \in Snapshot, Sound(k, s),
           umbrella_eligible(s), s.stamp = mtime,
           \/ k \in NoIgnore
           \/ s.rule = None
           \/ s.rule = rtime /\ RaceFree(rtime, s.floor)
    PROVE  s.list = Visible(k) /\ (k \notin NoIgnore /\ s.rule = None => rule = None)
<1>1. mtime < s.floor
  BY RaceFreeIsOlder DEF umbrella_eligible, TypeOK, Snapshot
<1>2. k \notin NoIgnore /\ s.rule = None => rule = None
  BY <1>1 DEF Sound, Probed
<1>3. CASE k \in NoIgnore
  BY <1>1, <1>2, <1>3 DEF Sound, Listed, Untouched
<1>4. CASE k \notin NoIgnore /\ s.rule = None
  BY <1>1, <1>2, <1>4 DEF Sound, Listed, Untouched
<1>5. CASE s.rule # None /\ s.rule = rtime /\ RaceFree(rtime, s.floor)
  <2>1. rtime < s.floor
    <3>1. rtime \in Time
      BY <1>5, ScopeCacheAssumption, DirectoryAssumption DEF TypeOK, Snapshot
    <3>2. QED
      BY <1>5, <3>1, RaceFreeIsOlder DEF Snapshot
  <2>2. QED
    BY <1>1, <1>2, <2>1 DEF Sound, Listed, Untouched
<1>6. QED
  BY <1>3, <1>4, <1>5

\* Every step preserves the stamp rule.
LEMMA StampStep == TypeOK /\ StampInv /\ [Next]_vars => StampInv'
<1> SUFFICES ASSUME TypeOK, StampInv, [Next]_vars
             PROVE  StampInv'
  OBVIOUS
<1> USE DEF disk, cache, locals
<1> DEFINE EntriesSound == \A k \in Key : entries'[k] # None => Sound(k, entries'[k].snap)
<1>1. CASE Environment
  BY <1>1, EnvironmentStep DEF Environment
<1>2. ASSUME NEW q \in Query, NEW k \in Key, Start(q, k)
      PROVE  StampInv'
  <2>1. Knows(q)'
    BY <1>2 DEF Start, Go, Knows, Holding, TypeOK, Visible, Wanted
  <2>2. EntriesSound
    BY <1>2 DEF Start, StampInv
  <2>3. QED
    BY <1>2, <2>1, <2>2, QueryFrame DEF Start, Go, TypeOK
<1>3. ASSUME NEW q \in Query,
             LookupMisses(q) \/ StateGone(q) \/ RulesDiffer(q)
      PROVE  StampInv'
  BY <1>3, StepKnows DEF LookupMisses, StateGone, RulesDiffer
<1>4. ASSUME NEW q \in Query, LookupHits(q)
      PROVE  StampInv'
  <2>1. entries[key[q]] \in Entry /\ Sound(key[q], entries[key[q]].snap)
    BY <1>4 DEF LookupHits, TypeOK, StampInv
  <2>2. Knows(q)'
    BY <1>4, <2>1 DEF LookupHits, Go, Knows, Holding, TypeOK, StampInv, Visible, Wanted,
       Sound, Listed, Probed, Untouched
  <2>3. EntriesSound
    BY <1>4, <2>1, DataTypes DEF LookupHits, StampInv, TypeOK
  <2>4. QED
    BY <1>4, <2>2, <2>3, QueryFrame DEF LookupHits, Go, TypeOK
<1>5. ASSUME NEW q \in Query, NEW list, ReturnUnchecked(q, list)
      PROVE  StampInv'
  <2>1. EntriesSound
    BY <1>5 DEF ReturnUnchecked, StampInv
  <2>2. QED
    BY <1>5, <2>1, ReturnFrame, QueryFrame DEF ReturnUnchecked
<1>6. ASSUME NEW q \in Query, StateReplaced(q)
      PROVE  StampInv'
  BY <1>5, <1>6 DEF StateReplaced
<1>7. ASSUME NEW q \in Query, StateClean(q)
      PROVE  StampInv'
  <2>1. EntriesSound
    BY <1>7 DEF StateClean, StampInv
  <2>2. Knows(q)'
    BY <1>7 DEF StateClean, Go, Knows, Holding, TypeOK, StampInv, Visible, Wanted,
       Sound, Listed, Probed, Untouched
  <2>3. QED
    BY <1>7, <2>1, <2>2, QueryFrame DEF StateClean, Go, TypeOK
<1>8. ASSUME NEW q \in Query, CheckDirectories(q)
      PROVE  StampInv'
  <2>1. held[q] \in Snapshot /\ key[q] \in Key /\ Sound(key[q], held[q])
        /\ Visible(key[q]) \in seen[q]
    BY <1>8 DEF CheckDirectories, TypeOK, StampInv, Knows, Holding
  <2>2. CASE directory_fingerprints_match(held[q])
    <3>1. Compared(q)
      BY <2>1, <2>2, SettledSnapshot DEF Compared, directory_fingerprints_match
    <3>2. QED
      BY <1>8, <2>2, <3>1, StepKnows DEF CheckDirectories
  <2>3. CASE ~ directory_fingerprints_match(held[q])
    BY <1>8, <2>3, StepKnows DEF CheckDirectories
  <2>4. QED
    BY <2>2, <2>3
<1>9. ASSUME NEW q \in Query, RulesMatch(q)
      PROVE  StampInv'
  BY <1>5, <1>9, StepKnows DEF RulesMatch
<1>10. ASSUME NEW q \in Query, mark_dirty(q)
       PROVE  StampInv'
  <2>1. Knows(q)'
    BY <1>10 DEF mark_dirty, Go, Knows, Holding, TypeOK, StampInv, Visible, Wanted
  <2>2. EntriesSound
    <3>1. CASE Holds(key[q], held[q])
      <4>1. entries[key[q]] \in Entry /\ entries' = [entries EXCEPT ![key[q]].dirty = TRUE]
        BY <1>10, <3>1 DEF mark_dirty, Holds, TypeOK
      <4>2. \A k \in Key : entries'[k] # None =>
              entries[k] # None /\ entries'[k].snap = entries[k].snap
        BY <4>1, <3>1 DEF TypeOK, Entry, Holds
      <4>3. QED
        BY <4>2 DEF StampInv
    <3>2. CASE ~ Holds(key[q], held[q])
      BY <1>10, <3>2 DEF mark_dirty, StampInv
    <3>3. QED
      BY <3>1, <3>2
  <2>3. QED
    BY <1>10, <2>1, <2>2, QueryFrame DEF mark_dirty, Go, TypeOK
<1>11. ASSUME NEW q \in Query, Begin(q)
       PROVE  StampInv'
  <2>1. Knows(q)'
    BY <1>11 DEF Begin, Go, Knows, Holding, TypeOK, StampInv, Visible, Wanted, Time
  <2>2. EntriesSound
    BY <1>11 DEF Begin, StampInv
  <2>3. QED
    BY <1>11, <2>1, <2>2, QueryFrame DEF Begin, Go, TypeOK
<1>12. ASSUME NEW q \in Query, WalkRules(q) \/ WalkFiles(q)
       PROVE  StampInv'
  <2>1. CASE WalkRules(q)
    <3>1. Knows(q)'
      <4>1. pc[q] = "walk" /\ pc'[q] = "list" /\ key' = key /\ seen' = seen
            /\ UNCHANGED <<now, files, mtime, rule, rtime>>
            /\ build'[q] = [build[q] EXCEPT !.list = Wanted(key[q])]
        BY <2>1 DEF WalkRules, Building, Go, TypeOK
      <4>2. build'[q].list = Wanted(key[q]) /\ build'[q].floor = build[q].floor
        BY <4>1 DEF TypeOK, Snapshot
      <4>3. build[q].floor <= now /\ Visible(key[q]) \in seen[q]
        BY <4>1 DEF StampInv, Knows
      <4>4. Masked(key[q], build[q])'
        BY <4>1, <4>2, <4>3 DEF Masked, Wanted
      <4>5. QED
        BY <4>1, <4>3, <4>4 DEF Knows, Holding, Visible, Wanted
    <3>2. EntriesSound
      BY <2>1 DEF WalkRules, Building, StampInv
    <3>3. QED
      BY <2>1, <3>1, <3>2, QueryFrame DEF WalkRules, Building, Go, TypeOK
  <2>2. CASE WalkFiles(q)
    <3>1. Knows(q)'
      <4>1. pc[q] = "list" /\ pc'[q] = "stamp" /\ key' = key /\ seen' = seen
            /\ UNCHANGED <<now, files, mtime, rule, rtime>>
            /\ build'[q] = [build[q] EXCEPT !.list = files \cap build[q].list]
        BY <2>2 DEF WalkFiles, Building, Go, TypeOK
      <4>2. build'[q].list = files \cap build[q].list
            /\ build'[q].floor = build[q].floor
        BY <4>1 DEF TypeOK, Snapshot
      <4>3. Masked(key[q], build[q]) /\ Visible(key[q]) \in seen[q]
        BY <4>1 DEF StampInv, Knows
      <4>4. Listed(key[q], build[q])'
        BY <4>1, <4>2, <4>3 DEF Masked, Listed, Untouched, Visible, Wanted
      <4>5. QED
        BY <4>1, <4>3, <4>4 DEF Knows, Holding, Visible, Wanted
    <3>2. EntriesSound
      BY <2>2 DEF WalkFiles, Building, StampInv
    <3>3. QED
      BY <2>2, <3>1, <3>2, QueryFrame DEF WalkFiles, Building, Go, TypeOK
  <2>3. QED
    BY <1>12, <2>1, <2>2
<1>13. ASSUME NEW q \in Query, Stamp(q)
       PROVE  StampInv'
  <2>1. Knows(q)'
    <3>1. pc[q] = "stamp" /\ pc'[q] = "fingerprint" /\ key' = key /\ seen' = seen
          /\ UNCHANGED <<now, files, mtime, rule, rtime>>
          /\ build'[q] = [build[q] EXCEPT !.stamp = mtime]
      BY <1>13 DEF Stamp, Building, Go, TypeOK
    <3>2. build'[q].list = build[q].list /\ build'[q].floor = build[q].floor
      BY <3>1 DEF TypeOK, Snapshot
    <3>3. Listed(key[q], build[q]) /\ Visible(key[q]) \in seen[q]
      BY <3>1 DEF StampInv, Knows
    <3>4. Listed(key[q], build[q])'
      BY <3>1, <3>2, <3>3 DEF Listed, Untouched, Visible, Wanted
    <3>5. QED
      BY <3>1, <3>3, <3>4 DEF Knows, Holding, Visible, Wanted
  <2>2. EntriesSound
    BY <1>13 DEF Stamp, Building, StampInv
  <2>3. QED
    BY <1>13, <2>1, <2>2, QueryFrame DEF Stamp, Building, Go, TypeOK
<1>14. ASSUME NEW q \in Query, build_ignore_fingerprint(q)
       PROVE  StampInv'
  <2>1. Knows(q)'
    <3> DEFINE r == IF key[q] \in NoIgnore THEN None ELSE rtime
    <3>1. pc[q] = "fingerprint" /\ pc'[q] = "store" /\ key'[q] = key[q]
          /\ build'[q] = [build[q] EXCEPT !.rule = r] /\ seen' = seen
          /\ UNCHANGED <<now, files, mtime, rule, rtime>>
      BY <1>14 DEF build_ignore_fingerprint, Building, Go, TypeOK
    <3>2. build'[q].rule = r /\ build'[q].list = build[q].list
          /\ build'[q].floor = build[q].floor
      BY <3>1 DEF TypeOK, Snapshot
    <3>3. Listed(key[q], build[q]) /\ Visible(key[q]) \in seen[q]
      BY <3>1 DEF StampInv, Knows
    <3>4. Listed(key[q], build[q])'
      BY <3>1, <3>2, <3>3 DEF Listed, Untouched, Visible, Wanted
    <3>5. Probed(key[q], build[q])'
      BY <3>1, <3>2 DEF Probed, StampInv, DiskTimes
    <3>6. QED
      BY <3>1, <3>3, <3>4, <3>5 DEF Knows, Holding, Sound, Visible, Wanted
  <2>2. EntriesSound
    BY <1>14 DEF build_ignore_fingerprint, Building, StampInv
  <2>3. QED
    BY <1>14, <2>1, <2>2, QueryFrame DEF build_ignore_fingerprint, Building, Go, TypeOK
<1>15. ASSUME NEW q \in Query, clear_validation_flags(q)
       PROVE  StampInv'
  <2>1. EntriesSound
    <3>1. CASE Holds(key[q], held[q])
      <4>1. entries[key[q]] \in Entry
            /\ entries' = [entries EXCEPT ![key[q]].dirty = FALSE, ![key[q]].pending = FALSE]
        BY <1>15, <3>1 DEF clear_validation_flags, Holds, TypeOK
      <4>2. \A k \in Key : entries'[k] # None =>
              entries[k] # None /\ entries'[k].snap = entries[k].snap
        BY <4>1, <3>1 DEF TypeOK, Entry, Holds
      <4>3. QED
        BY <4>2 DEF StampInv
    <3>2. CASE ~ Holds(key[q], held[q])
      BY <1>15, <3>2 DEF clear_validation_flags, StampInv
    <3>3. QED
      BY <3>1, <3>2
  <2>2. QED
    BY <1>15, <2>1, ReturnFrame, QueryFrame DEF clear_validation_flags
<1>16. ASSUME NEW q \in Query, store_snapshot(q)
       PROVE  StampInv'
  <2>1. Sound(key[q], build[q])
    BY <1>16 DEF store_snapshot, StampInv, Knows
  <2>2. \A k \in Key : \/ entries'[k] = None
                       \/ k = key[q] /\ entries'[k].snap = build[q]
                       \/ entries'[k] = entries[k]
    BY <1>16 DEF store_snapshot, Without, TypeOK
  <2>3. EntriesSound
    BY <2>1, <2>2 DEF StampInv
  <2>4. QED
    BY <1>16, <2>3, ReturnFrame, QueryFrame DEF store_snapshot
<1>17. ASSUME NEW q \in Query, Fails(q)
       PROVE  StampInv'
  <2>1. EntriesSound
    BY <1>17 DEF Fails, StampInv
  <2>2. QED
    BY <1>17, <2>1, ReturnFrame, QueryFrame DEF Fails
<1>18. CASE UNCHANGED vars
  BY <1>18 DEF vars, StampInv, DiskTimes, Knows, Compared, umbrella_eligible, RaceFree,
     Sound, Masked, Listed, Probed, Untouched, Visible, Wanted
<1>19. QED
  BY <1>1, <1>2, <1>3, <1>4, <1>6, <1>7, <1>8, <1>9, <1>10, <1>11, <1>12, <1>13,
     <1>14, <1>15, <1>16, <1>17, <1>18 DEF Next, Ask

\* The types and the stamp rule together: the invariant behind the theorems
\* below, for any tree and any queries.
THEOREM StampInvariant == Spec => [](TypeOK /\ StampInv)
<1>1. Init => TypeOK /\ StampInv
  BY TypingInit, StampInit
<1>2. TypeOK /\ StampInv /\ [Next]_vars => TypeOK' /\ StampInv'
  BY TypingStep, StampStep
<1>3. QED
  BY <1>1, <1>2, PTL DEF Spec

\* A cached tree with settled and unchanged stamps is exact, for any changes of
\* the disk, any queries and any slack of at least one unit of file times.
THEOREM SettledTreesAreExact == Spec => []SettledIsExact
<1>1. TypeOK /\ StampInv => SettledIsExact
  <2> SUFFICES ASSUME TypeOK, StampInv, NEW k \in Key, entries[k] # None,
                      Settled(entries[k].snap), entries[k].snap.stamp = mtime,
                      k \in NoIgnore \/ entries[k].snap.rule \in {None, rtime}
               PROVE  Exact(k, entries[k].snap)
    BY DEF SettledIsExact
  <2>1. entries[k].snap \in Snapshot /\ Sound(k, entries[k].snap)
    BY DEF TypeOK, Entry, StampInv
  <2>2. entries[k].snap.list = Visible(k)
        /\ (k \notin NoIgnore /\ entries[k].snap.rule = None => rule = None)
    BY <2>1, SettledSnapshot DEF Settled
  <2>3. rtime = None <=> rule = None
    BY DEF StampInv, DiskTimes
  <2>4. QED
    BY <2>2, <2>3 DEF Exact
<1>2. QED
  BY <1>1, StampInvariant, PTL

\* A query that finds the stamps of a settled tree unchanged answers with what
\* the tree has shown during the call, for any changes between its two checks.
THEOREM SettledAnswersCurrent == Spec => SettledAnswersAreCurrent
<1>1. TypeOK /\ StampInv /\ [Next]_vars
      => [\A q \in Query :
            pc[q] = "rules" /\ pc'[q] = "idle" /\ answer'[q] # None
                /\ Settled(held[q])
              => answer'[q] \in seen[q]]_vars
  <2> SUFFICES ASSUME TypeOK, StampInv, Next, NEW q \in Query, pc[q] = "rules",
                      pc'[q] = "idle", answer'[q] # None, Settled(held[q])
               PROVE  answer'[q] \in seen[q]
    OBVIOUS
  <2>1. RulesMatch(q) /\ ~ comparing[q] /\ answer'[q] = held[q].list
    <3>1. PICK p \in Query : Ask(p)
      BY DEF Next, Environment, ChangeFiles, Toggle, ChangeRule, Tick, Age, locals
    <3>2. p = q
      BY <3>1 DEF Ask, Start, LookupMisses, LookupHits, StateGone, StateReplaced, StateClean,
         CheckDirectories, RulesDiffer, RulesMatch, mark_dirty, Begin, WalkRules, WalkFiles, Stamp,
         build_ignore_fingerprint, clear_validation_flags, store_snapshot, Fails,
         ReturnUnchecked, Return, Step, Go, TypeOK
    <3>3. RulesDiffer(q) \/ RulesMatch(q) \/ Fails(q)
      BY <3>1, <3>2 DEF Ask, Start, LookupMisses, LookupHits, StateGone, StateReplaced,
         StateClean, CheckDirectories, mark_dirty, Begin, WalkRules, WalkFiles, Stamp,
         build_ignore_fingerprint, clear_validation_flags, store_snapshot
    <3>4. QED
      BY <3>3 DEF RulesDiffer, RulesMatch, Fails, ReturnUnchecked, Return, Step, Go, TypeOK
  <2>2. Compared(q)
    BY DEF StampInv, Knows
  <2>3. QED
    BY <2>1, <2>2 DEF RulesMatch, ignore_unchanged, Settled, Compared
<1>2. QED
  BY <1>1, StampInvariant, PTL DEF Spec, SettledAnswersAreCurrent

-----------------------------------------------------------------------------
(* Eviction, which the two caches do alike: the order names each cached key  *)
(* once, and what is left is within the limits.                              *)

\* The order names each cached key once and no other.
Names(order, E) ==
    order \in Seq(Key) /\ IsInjective(order) /\ Range(order) = Cached(E)

\* Such an order is as long as the cache has keys.
LEMMA NamesCount ==
    ASSUME NEW E, NEW order, Names(order, E)
    PROVE  IsFiniteSet(Cached(E)) /\ Len(order) = Cardinality(Cached(E))
<1>1. Range(order) = ToSet(order)
  BY DEF Range, ToSet
<1>2. QED
  BY <1>1, OrderCounts DEF Names

\* A key that is used, new or not, is named by the order once.
LEMMA UseNames ==
    ASSUME NEW V, NEW E \in [Key -> V], NEW order, Names(order, E), NEW k \in Key,
           NEW e, e # None
    PROVE  Names(touch(order, k), [E EXCEPT ![k] = e])
<1> DEFINE used == touch(order, k)
           F == [E EXCEPT ![k] = e]
<1>1. /\ used \in Seq(Key) /\ IsInjective(used)
      /\ ToSet(used) = ToSet(order) \cup {k}
  BY TouchKeeps DEF Names
<1> HIDE DEF used
<1>2. Range(used) = ToSet(used) /\ Range(order) = ToSet(order)
  BY DEF Range, ToSet
<1>3. Cached(F) = Cached(E) \cup {k}
  BY DEF Cached
<1>4. QED
  BY <1>1, <1>2, <1>3 DEF Names, used

\* Without the keys that the order names first, it names those that are left.
LEMMA EvictionNames ==
    ASSUME NEW E, NEW order, Names(order, E), NEW n \in 0 .. Len(order)
    PROVE  LET kept == Without(E, Range(SubSeq(order, 1, n)))
           IN  /\ Names(SubSeq(order, n + 1, Len(order)), kept)
               /\ n = Len(order) => Cached(kept) = {}
<1> DEFINE gone == SubSeq(order, 1, n)
           rest == SubSeq(order, n + 1, Len(order))
           kept == Without(E, Range(gone))
<1>1. ToSet(gone) = {order[i] : i \in 1 .. n}
  BY PrefixNames DEF Names
<1>2. /\ rest \in Seq(Key) /\ IsInjective(rest)
      /\ ToSet(rest) = ToSet(order) \ {order[i] : i \in 1 .. n}
  BY DroppingKeeps DEF Names
<1> HIDE DEF gone, rest
<1>3. /\ Range(gone) = ToSet(gone) /\ Range(rest) = ToSet(rest)
      /\ Range(order) = ToSet(order)
  BY DEF Range, ToSet
<1>4. Cached(kept) = Cached(E) \ Range(gone)
  BY DEF Cached, Without
<1>5. n = Len(order) => ToSet(order) = {order[i] : i \in 1 .. n}
  BY DEF ToSet, Names
<1>6. QED
  BY <1>1, <1>2, <1>3, <1>4, <1>5 DEF Names, gone, rest

-----------------------------------------------------------------------------
(* The limits of the trees *)

\* The files counted are those of the cached trees, added up.
LEMMA FilesAreASum ==
    ASSUME NEW E
    PROVE  total_cached_scope_entries(E)
             = Sum([k \in Key |-> Cardinality(E[k].snap.list)], Cached(E))
<1> DEFINE f == [k \in Key |-> Cardinality(E[k].snap.list)]
           S == Cached(E)
           a(g) == g = [s \in SUBSET S |->
                          IF s = {} THEN 0
                          ELSE LET x == CHOOSE x \in s : TRUE
                               IN  Cardinality(E[x].snap.list) + g[s \ {x}]]
<1>1. total_cached_scope_entries(E) = (CHOOSE g : a(g))[S]
  BY DEF total_cached_scope_entries, MapThenSumSet, MapThenFoldSet
<1>2. ASSUME NEW s \in SUBSET S, s # {}
      PROVE  Cardinality(E[CHOOSE x \in s : TRUE].snap.list) = f[CHOOSE x \in s : TRUE]
  BY <1>2 DEF Cached
<1>3. ASSUME NEW g
      PROVE  a(g) <=> Summed(g, f, S)
  <2> HIDE DEF f, S
  <2>1. [s \in SUBSET S |-> IF s = {} THEN 0
                            ELSE LET x == CHOOSE x \in s : TRUE
                                 IN  Cardinality(E[x].snap.list) + g[s \ {x}]]
          = [s \in SUBSET S |-> IF s = {} THEN 0
                                ELSE LET x == CHOOSE x \in s : TRUE
                                     IN  f[x] + g[s \ {x}]]
    BY <1>2
  <2>2. QED
    BY <2>1, Zenon DEF Summed
<1> HIDE DEF a, f, S
<1>4. (CHOOSE g : a(g)) = (CHOOSE g : Summed(g, f, S))
  BY <1>3, Zenon
<1>5. QED
  BY <1>1, <1>4, Zenon DEF Sum, f, S

\* Trees with the same files fit as well.
LEMMA SameFilesFit ==
    ASSUME NEW E, NEW F, Fits(E), IsFiniteSet(Cached(E)), Cached(F) = Cached(E),
           \A k \in Cached(E) : F[k].snap.list = E[k].snap.list
    PROVE  Fits(F)
<1> DEFINE f == [k \in Key |-> Cardinality(E[k].snap.list)]
           h == [k \in Key |-> Cardinality(F[k].snap.list)]
<1>1. \A k \in Cached(E) : f[k] = h[k]
  BY DEF Cached
<1>2. Sum(f, Cached(E)) = Sum(h, Cached(E))
  <2> HIDE DEF f, h
  <2>1. QED
    BY <1>1, SumCongruent
<1>3. total_cached_scope_entries(E) = total_cached_scope_entries(F)
  BY <1>2, FilesAreASum
<1>4. QED
  BY <1>3 DEF Fits

\* What evict_to_capacity leaves fits, with the tree just stored or without.
LEMMA EvictionFits ==
    ASSUME NEW E, NEW order, Names(order, E)
    PROVE  LET n == evicted(E, order)
               kept == Without(E, Range(SubSeq(order, 1, n)))
           IN  Names(SubSeq(order, n + 1, Len(order)), kept) /\ Fits(kept)
<1> DEFINE After(n) == Without(E, Range(SubSeq(order, 1, n)))
           enough == {n \in 0 .. Len(order) : Fits(After(n)) \/ n = Len(order)}
           least(n) == /\ Fits(After(n)) \/ n = Len(order)
                       /\ \A m \in 0 .. n - 1 : ~ Fits(After(m))
<1>1. \E n \in 0 .. Len(order) : least(n)
  <2>1. PICK n \in enough : \A m \in enough : n <= m
    <3>1. enough \in SUBSET Nat /\ Len(order) \in enough
      BY DEF Names
    <3> HIDE DEF enough
    <3>2. QED
      BY <3>1, LeastNatural
  <2> HIDE DEF After
  <2>2. ASSUME NEW m \in 0 .. n - 1
        PROVE  ~ Fits(After(m))
    <3>1. m \in 0 .. Len(order) /\ m < n
      BY DEF Names
    <3>2. QED
      BY <2>1, <3>1
  <2>3. QED
    BY <2>2
<1> DEFINE n == evicted(E, order)
<1>2. n = CHOOSE i \in 0 .. Len(order) : least(i)
  BY DEF evicted
<1>3. n \in 0 .. Len(order) /\ least(n)
  <2> HIDE DEF least, n
  <2>1. QED
    BY <1>1, <1>2
<1> HIDE DEF n
<1>4. /\ Names(SubSeq(order, n + 1, Len(order)), After(n))
      /\ n = Len(order) => Cached(After(n)) = {}
  BY <1>3, EvictionNames
<1>5. Fits(After(n))
  <2>1. CASE Cached(After(n)) = {}
    <3> HIDE DEF After
    <3>1. total_cached_scope_entries(After(n)) = 0
      BY <2>1, FilesAreASum, SumOfNothing
    <3>2. Cardinality(Cached(After(n))) = 0
      BY <2>1, FS_EmptySet
    <3>3. QED
      BY <3>1, <3>2, ScopeCacheAssumption DEF Fits
  <2>2. QED
    BY <1>3, <1>4, <2>1
<1>6. QED
  BY <1>4, <1>5 DEF n

\* The order names each cached tree once, and the trees fit.
LimitInv == Names(accessOrder, entries) /\ Fits(entries)

\* Every step keeps the order and the limits; only the walk that ends stores.
LEMMA LimitStep == TypeOK /\ LimitInv /\ [Next]_vars => LimitInv'
<1> SUFFICES ASSUME TypeOK, LimitInv, [Next]_vars
             PROVE  LimitInv'
  OBVIOUS
<1>1. ASSUME Names(accessOrder', entries), entries' \in [Key -> {None} \cup Entry],
             Cached(entries') = Cached(entries),
             \A k \in Cached(entries) : entries'[k].snap = entries[k].snap
      PROVE  LimitInv'
  <2>1. IsFiniteSet(Cached(entries))
    BY NamesCount DEF LimitInv
  <2>2. Fits(entries')
    BY <1>1, <2>1, SameFilesFit DEF LimitInv
  <2>3. QED
    BY <1>1, <2>2 DEF LimitInv, Names
<1>2. CASE UNCHANGED cache
  BY <1>2 DEF cache, LimitInv
<1>3. ASSUME NEW q \in Query, LookupHits(q)
      PROVE  LimitInv'
  <2> DEFINE k == key[q]
  <2>1. k \in Key /\ entries[k] \in Entry
    BY <1>3 DEF LookupHits, TypeOK
  <2>2. Hit(entries[k]) \in Entry /\ Hit(entries[k]).snap = entries[k].snap
    BY <2>1, DataTypes
  <2>3. entries' = [entries EXCEPT ![k] = Hit(entries[k])]
        /\ accessOrder' = touch(accessOrder, k)
    BY <1>3 DEF LookupHits
  <2>4. Hit(entries[k]) # None
    BY <2>2, NoEntryAssumption
  <2> HIDE DEF k
  <2>5. Names(accessOrder', entries')
    BY <2>1, <2>3, <2>4, UseNames DEF TypeOK, LimitInv
  <2>6. Cached(entries') = Cached(entries)
    BY <2>1, <2>3, <2>4, NoEntryAssumption DEF Cached, TypeOK
  <2>7. Names(accessOrder', entries)
    BY <2>5, <2>6 DEF Names
  <2>8. \A i \in Cached(entries) : entries'[i].snap = entries[i].snap
    BY <2>1, <2>2, <2>3 DEF Cached, TypeOK
  <2>9. QED
    BY <1>1, <2>1, <2>2, <2>3, <2>6, <2>7, <2>8 DEF TypeOK
<1>4. ASSUME NEW q \in Query, mark_dirty(q) \/ clear_validation_flags(q)
      PROVE  LimitInv'
  <2>1. CASE ~ Holds(key[q], held[q])
    BY <1>2, <1>4, <2>1 DEF mark_dirty, clear_validation_flags, Return, cache
  <2>2. CASE Holds(key[q], held[q])
    <3> DEFINE k == key[q]
    <3>1. k \in Key /\ entries[k] \in Entry /\ accessOrder' = accessOrder
      BY <1>4, <2>2 DEF mark_dirty, clear_validation_flags, Holds, TypeOK
    <3>2. \/ entries' = [entries EXCEPT ![k] = [entries[k] EXCEPT !.dirty = TRUE]]
          \/ entries' = [entries EXCEPT ![k] = [entries[k] EXCEPT !.dirty = FALSE,
                                                                  !.pending = FALSE]]
      BY <1>4, <2>2, <3>1 DEF mark_dirty, clear_validation_flags, TypeOK
    <3>3. entries'[k] \in Entry /\ entries'[k].snap = entries[k].snap
          /\ entries' \in [Key -> {None} \cup Entry]
          /\ \A i \in Key \ {k} : entries'[i] = entries[i]
      <4> DEFINE marked == [entries[k] EXCEPT !.dirty = TRUE]
                 cleared == [entries[k] EXCEPT !.dirty = FALSE, !.pending = FALSE]
      <4>1. /\ marked \in Entry /\ marked.snap = entries[k].snap
            /\ cleared \in Entry /\ cleared.snap = entries[k].snap
        BY <3>1 DEF Entry
      <4> HIDE DEF marked, cleared
      <4>2. entries' = [entries EXCEPT ![k] = marked]
            \/ entries' = [entries EXCEPT ![k] = cleared]
        BY <3>2 DEF marked, cleared
      <4> HIDE DEF k
      <4>3. QED
        BY <3>1, <4>1, <4>2 DEF TypeOK
    <3> HIDE DEF k
    <3>4. entries[k] # None /\ entries'[k] # None
      BY <3>1, <3>3, NoEntryAssumption
    <3>5. Cached(entries') = Cached(entries)
      BY <3>1, <3>3, <3>4 DEF Cached
    <3>6. \A i \in Cached(entries) : entries'[i].snap = entries[i].snap
      BY <3>3 DEF Cached
    <3>7. QED
      BY <1>1, <3>1, <3>3, <3>5, <3>6 DEF LimitInv
  <2>3. QED
    BY <2>1, <2>2
<1>5. ASSUME NEW q \in Query, store_snapshot(q)
      PROVE  LimitInv'
  <2> DEFINE k == key[q]
             e == [snap |-> build[q], dirty |-> FALSE, pending |-> FALSE, hits |-> 0]
             E == [entries EXCEPT ![k] = e]
             order == touch(accessOrder, k)
  <2>1. k \in Key /\ e # None
    <3>1. e \in Entry
      BY DEF Entry, TypeOK
    <3>2. QED
      BY <3>1, NoEntryAssumption DEF TypeOK
  <2>2. /\ entries' = Without(E, Range(SubSeq(order, 1, evicted(E, order))))
        /\ accessOrder' = SubSeq(order, evicted(E, order) + 1, Len(order))
    BY <1>5, Zenon DEF store_snapshot
  <2> HIDE DEF e, k
  <2>3. Names(order, E)
    BY <2>1, UseNames DEF TypeOK, LimitInv
  <2> HIDE DEF order, E
  <2>4. QED
    BY <2>2, <2>3, EvictionFits DEF LimitInv
<1>6. CASE UNCHANGED vars
  BY <1>2, <1>6 DEF vars, cache
<1>7. CASE Environment
  BY <1>2, <1>7 DEF Environment, ChangeFiles, ChangeRule, Tick, cache
<1>8. ASSUME NEW q \in Query, Ask(q), UNCHANGED <<entries, accessOrder>>
      PROVE  LimitInv'
  BY <1>8 DEF LimitInv
<1>9. ASSUME NEW q \in Query, Ask(q),
             ~ LookupHits(q), ~ mark_dirty(q), ~ clear_validation_flags(q),
             ~ store_snapshot(q)
      PROVE  UNCHANGED <<entries, accessOrder>>
  BY <1>9 DEF Ask, Start, LookupMisses, StateGone, StateReplaced, StateClean,
     CheckDirectories, RulesDiffer, RulesMatch, Begin, WalkRules, WalkFiles, Stamp,
     build_ignore_fingerprint, Fails, ReturnUnchecked, Step, Building, cache
<1>10. QED
  BY <1>3, <1>4, <1>5, <1>6, <1>7, <1>8, <1>9 DEF Next

\* The limits hold together, and eviction can reach every cached tree: for any
\* trees, any queries and any limits.
THEOREM LimitsHold == Spec => []WithinLimits
<1>1. Init => LimitInv
  <2> SUFFICES ASSUME Init PROVE LimitInv
    OBVIOUS
  <2>1. Cached(entries) = {}
    BY DEF Init, Cached
  <2>2. Names(accessOrder, entries)
    BY <2>1 DEF Init, Names, Range, IsInjective
  <2>3. total_cached_scope_entries(entries) = 0 /\ Cardinality(Cached(entries)) = 0
    BY <2>1, FilesAreASum, SumOfNothing, FS_EmptySet
  <2>4. QED
    BY <2>2, <2>3, ScopeCacheAssumption DEF LimitInv, Fits
<1>2. LimitInv => WithinLimits
  BY NamesCount DEF LimitInv, Names, WithinLimits, OrderNamesCached
<1>3. QED
  BY <1>1, <1>2, TypingInit, TypingStep, LimitStep, PTL DEF Spec

-----------------------------------------------------------------------------
(* Answers without a walk.  A query that is past the check and will answer   *)
(* from a tree nobody walks again is at risk; what has been answered and     *)
(* what is at risk are bounded together.                                     *)

\* The queries that may still answer for k without a walk of their own: past
\* the state of the entry and not comparing, or on their way there with no walk
\* due.
AtRisk(k) ==
    {q \in Query :
        /\ key[q] = k
        /\ \/ pc[q] \in {"dirs", "rules"} /\ ~ comparing[q]
           \/ /\ pc[q] = "state" /\ entries[k] # None
              /\ ~ (Holds(k, held[q]) /\ entries[k].pending)}

\* The most hits an entry can have had, and those this one has had: all of them
\* when a walk is due, and when the entry is gone.
MostHits == IF Interval = 0 THEN 0 ELSE Interval - 1
HitsOf(k) == IF entries[k] = None \/ entries[k].pending THEN MostHits ELSE entries[k].hits

RiskBounded(k) ==
    unchecked[k] + Cardinality(AtRisk(k)) <= Cardinality(Query) - 1 + HitsOf(k)

\* The strengthening of UncheckedAnswersAreBounded that every step preserves.
RiskInv == \A k \in Key : RiskBounded(k)

\* What one query changes in a set of queries.
LEMMA QueriesCount ==
    ASSUME NEW S \in SUBSET Query, NEW T \in SUBSET Query, NEW q \in Query
    PROVE  /\ Cardinality(S) \in Nat /\ Cardinality(T) \in Nat
           /\ Cardinality(Query) \in Nat /\ Cardinality(Query) > 0
           /\ T \subseteq S => Cardinality(T) <= Cardinality(S)
           /\ T \ {q} \subseteq S => Cardinality(T) <= Cardinality(S) + 1
           /\ T \subseteq S \ {q} /\ q \in S => Cardinality(T) <= Cardinality(S) - 1
           /\ q \notin T => Cardinality(T) <= Cardinality(Query) - 1
<1>1. IsFiniteSet(Query) /\ IsFiniteSet(S) /\ IsFiniteSet(T)
  BY ScopeCacheAssumption, FS_Subset
<1>2. /\ Cardinality(S) \in Nat /\ Cardinality(T) \in Nat /\ Cardinality(Query) \in Nat
      /\ Cardinality(T \ {q}) \in Nat
  BY <1>1, FS_CardinalityType, FS_Subset
<1>3. T \subseteq S => Cardinality(T) <= Cardinality(S)
  BY <1>1, FS_Subset
<1>4. ASSUME T \ {q} \subseteq S
      PROVE  Cardinality(T) <= Cardinality(S) + 1
  <2>1. Cardinality(T \ {q}) <= Cardinality(S)
    BY <1>1, <1>4, FS_Subset
  <2>2. Cardinality(T) <= Cardinality(T \ {q}) + 1
    <3>1. CASE q \in T
      <4>1. Cardinality(T \ {q}) = Cardinality(T) - 1
        BY <1>1, <3>1, FS_RemoveElement
      <4>2. QED
        BY <1>2, <4>1
    <3>2. CASE q \notin T
      <4>1. T \ {q} = T
        BY <3>2
      <4>2. QED
        BY <1>2, <4>1
    <3>3. QED
      BY <3>1, <3>2
  <2>3. QED
    BY <1>2, <2>1, <2>2
<1>5. ASSUME NEW R \in SUBSET Query, T \subseteq R \ {q}, q \in R
      PROVE  Cardinality(T) <= Cardinality(R) - 1
  <2>1. IsFiniteSet(R) /\ IsFiniteSet(R \ {q})
    BY <1>1, FS_Subset
  <2>2. Cardinality(T) <= Cardinality(R \ {q})
    BY <1>5, <2>1, FS_Subset
  <2>3. Cardinality(R \ {q}) = Cardinality(R) - 1
    BY <1>5, <2>1, FS_RemoveElement
  <2>4. QED
    BY <2>2, <2>3
<1>6. T \subseteq S \ {q} /\ q \in S => Cardinality(T) <= Cardinality(S) - 1
  BY <1>5
<1>7. q \notin T => Cardinality(T) <= Cardinality(Query) - 1
  BY <1>5
<1>8. Cardinality(Query) > 0
  BY <1>1, <1>2, FS_EmptySet
<1>9. QED
  BY <1>2, <1>3, <1>4, <1>6, <1>7, <1>8

\* What the bounds are made of.
RiskTyped ==
    \A k \in Key :
        /\ AtRisk(k) \in SUBSET Query /\ unchecked[k] \in Nat
        /\ MostHits \in Nat /\ HitsOf(k) \in Nat /\ HitsOf(k) <= MostHits

LEMMA RiskTypes == TypeOK => RiskTyped
<1> SUFFICES ASSUME TypeOK, NEW k \in Key
             PROVE  /\ AtRisk(k) \in SUBSET Query /\ unchecked[k] \in Nat
                    /\ MostHits \in Nat /\ HitsOf(k) \in Nat /\ HitsOf(k) <= MostHits
  BY DEF RiskTyped
<1>1. MostHits \in Nat
  BY ScopeCacheAssumption DEF MostHits
<1>2. entries[k] # None => /\ entries[k].hits \in Nat
                           /\ entries[k].hits = 0 \/ entries[k].hits < Interval
  BY DEF TypeOK, Entry
<1>3. HitsOf(k) \in Nat /\ HitsOf(k) <= MostHits
  BY <1>1, <1>2, ScopeCacheAssumption DEF HitsOf, MostHits
<1>4. QED
  BY <1>1, <1>3 DEF AtRisk, TypeOK

LEMMA RiskTypesNext == TypeOK' => RiskTyped'
BY RiskTypes, PTL

\* Only q moves.
OthersStay(q) ==
    \A p \in Query \ {q} : pc'[p] = pc[p] /\ key'[p] = key[p] /\ held'[p] = held[p]
                           /\ comparing'[p] = comparing[p]

\* The entry of k counts the same hits, or is gone.
SameHits(k) ==
    \/ entries'[k] = entries[k]
    \/ entries'[k] = None
    \/ /\ entries[k] # None /\ entries'[k] # None
       /\ entries'[k].snap = entries[k].snap /\ entries'[k].hits = entries[k].hits
       /\ entries'[k].pending = entries[k].pending

\* Then the others are no more at risk than before, and the bound is no less.
LEMMA RiskFrame ==
    ASSUME TypeOK, TypeOK', NEW q \in Query, OthersStay(q), NEW k \in Key, SameHits(k)
    PROVE  AtRisk(k)' \ {q} \subseteq AtRisk(k) /\ HitsOf(k) <= HitsOf(k)'
<1>1. AtRisk(k)' \ {q} \subseteq AtRisk(k)
  BY DEF AtRisk, OthersStay, SameHits, Holds
<1>2. HitsOf(k)' = MostHits \/ HitsOf(k)' = HitsOf(k)
  BY DEF SameHits, HitsOf, MostHits
<1>3. HitsOf(k) \in Nat /\ HitsOf(k) <= MostHits /\ MostHits \in Nat
  BY RiskTypes DEF RiskTyped
<1>4. QED
  BY <1>1, <1>2, <1>3

\* A step of q that adds nothing to the risk for k.
LEMMA QuietStep ==
    ASSUME TypeOK, TypeOK', NEW k \in Key, RiskBounded(k), NEW q \in Query,
           OthersStay(q), SameHits(k), unchecked'[k] = unchecked[k],
           q \in AtRisk(k)' => q \in AtRisk(k)
    PROVE  RiskBounded(k)'
<1> DEFINE S == AtRisk(k)
           T == AtRisk(k)'
<1>1. /\ S \in SUBSET Query /\ T \in SUBSET Query
      /\ unchecked[k] \in Nat /\ unchecked'[k] \in Nat
      /\ HitsOf(k) \in Nat /\ HitsOf(k)' \in Nat
  BY RiskTypes, RiskTypesNext DEF RiskTyped
<1>2. T \subseteq S /\ HitsOf(k) <= HitsOf(k)'
  BY RiskFrame
<1>3. Cardinality(T) <= Cardinality(S) /\ Cardinality(S) \in Nat /\ Cardinality(T) \in Nat
      /\ Cardinality(Query) \in Nat
  <2> HIDE DEF S, T
  <2>1. QED
    BY <1>1, <1>2, QueriesCount
<1>4. QED
  BY <1>1, <1>2, <1>3 DEF RiskBounded

\* A query at risk answers.
LEMMA AnswerStep ==
    ASSUME TypeOK, TypeOK', NEW k \in Key, RiskBounded(k), NEW q \in Query,
           OthersStay(q), SameHits(k), unchecked'[k] = unchecked[k] + 1,
           q \in AtRisk(k), q \notin AtRisk(k)'
    PROVE  RiskBounded(k)'
<1> DEFINE S == AtRisk(k)
           T == AtRisk(k)'
<1>1. /\ S \in SUBSET Query /\ T \in SUBSET Query
      /\ unchecked[k] \in Nat /\ unchecked'[k] \in Nat
      /\ HitsOf(k) \in Nat /\ HitsOf(k)' \in Nat
  BY RiskTypes, RiskTypesNext DEF RiskTyped
<1>2. T \subseteq S \ {q} /\ q \in S /\ HitsOf(k) <= HitsOf(k)'
  BY RiskFrame
<1>3. Cardinality(T) <= Cardinality(S) - 1 /\ Cardinality(S) \in Nat
      /\ Cardinality(T) \in Nat /\ Cardinality(Query) \in Nat
  <2> HIDE DEF S, T
  <2>1. QED
    BY <1>1, <1>2, QueriesCount
<1>4. QED
  BY <1>1, <1>2, <1>3 DEF RiskBounded

\* A walk ends: nothing has been answered since, and q is not at risk.
LEMMA WalkedStep ==
    ASSUME TypeOK', NEW k \in Key, NEW q \in Query, unchecked'[k] = 0,
           q \notin AtRisk(k)'
    PROVE  RiskBounded(k)'
<1> DEFINE T == AtRisk(k)'
<1>1. T \in SUBSET Query /\ HitsOf(k)' \in Nat
  BY RiskTypes, RiskTypesNext DEF RiskTyped
<1>2. Cardinality(T) <= Cardinality(Query) - 1 /\ Cardinality(T) \in Nat
      /\ Cardinality(Query) \in Nat
  <2> HIDE DEF T
  <2>1. QED
    BY <1>1, QueriesCount
<1>3. QED
  BY <1>1, <1>2 DEF RiskBounded

\* A hit: one more query at risk, one more hit; or a walk is due.
LEMMA HitStep ==
    ASSUME TypeOK, TypeOK', NEW q \in Query, LookupHits(q), RiskInv
    PROVE  RiskInv'
<1> SUFFICES ASSUME NEW k \in Key PROVE RiskBounded(k)'
  BY DEF RiskInv
<1>1. RiskBounded(k)
  BY DEF RiskInv
<1>2. /\ OthersStay(q) /\ pc[q] = "lookup" /\ pc'[q] = "state" /\ key' = key
      /\ unchecked' = unchecked /\ held'[q] = entries[key[q]].snap
      /\ entries[key[q]] \in Entry
  BY DEF LookupHits, Go, OthersStay, TypeOK
<1>3. CASE k # key[q]
  <2>1. SameHits(k) /\ q \notin AtRisk(k)'
    BY <1>2, <1>3 DEF LookupHits, SameHits, AtRisk, TypeOK
  <2>2. QED
    BY <1>1, <1>2, <2>1, QuietStep
<1>4. CASE k = key[q]
  <2> DEFINE S == AtRisk(k)
             T == AtRisk(k)'
             e == entries[k]
             due == Interval = 0 \/ e.hits + 1 >= Interval
  <2>1. /\ entries'[k] = Hit(e) /\ e \in Entry /\ Hit(e) \in Entry
        /\ Hit(e).snap = e.snap
    BY <1>2, <1>4, DataTypes DEF LookupHits, TypeOK
  <2>2. /\ Hit(e).pending = (due \/ e.pending)
        /\ Hit(e).hits = IF due THEN 0 ELSE e.hits + 1
    BY <2>1 DEF Hit, Entry
  <2>3. e # None /\ entries'[k] # None
    BY <2>1, NoEntryAssumption
  <2>4. /\ S \in SUBSET Query /\ T \in SUBSET Query
        /\ unchecked[k] \in Nat /\ MostHits \in Nat
        /\ HitsOf(k) \in Nat /\ HitsOf(k)' \in Nat /\ HitsOf(k) <= MostHits
    BY RiskTypes, RiskTypesNext DEF RiskTyped
  <2>5. T \ {q} \subseteq S
    <3>1. ASSUME NEW p \in Query \ {q}, p \in T
          PROVE  p \in S
      <4>1. pc'[p] = pc[p] /\ key'[p] = key[p] /\ held'[p] = held[p]
            /\ comparing'[p] = comparing[p]
        BY <1>2 DEF OthersStay
      <4>2. Holds(k, held[p])' = Holds(k, held[p])
        BY <2>1, <2>3, <4>1 DEF Holds
      <4>3. e.pending => entries'[k].pending
        BY <2>1, <2>2
      <4> HIDE DEF e
      <4>4. QED
        BY <2>3, <3>1, <4>1, <4>2, <4>3 DEF AtRisk, e
    <3>2. QED
      BY <2>4, <3>1
  <2>6. q \in T => ~ entries'[k].pending
    <3>1. Holds(k, held[q])'
      BY <1>2, <1>4, <2>1, <2>3 DEF Holds
    <3>2. QED
      BY <1>2, <3>1 DEF AtRisk
  <2>7. /\ Cardinality(S) \in Nat /\ Cardinality(T) \in Nat /\ Cardinality(Query) \in Nat
        /\ q \notin T => Cardinality(T) <= Cardinality(S)
        /\ Cardinality(T) <= Cardinality(S) + 1
    <3> HIDE DEF S, T
    <3>1. q \notin T => T \subseteq S
      BY <2>5
    <3>2. QED
      BY <2>4, <2>5, <3>1, QueriesCount
  <2>8. CASE entries'[k].pending
    <3>1. HitsOf(k)' = MostHits
      BY <2>8 DEF HitsOf, MostHits
    <3>2. QED
      BY <1>1, <1>2, <2>4, <2>6, <2>7, <2>8, <3>1 DEF RiskBounded
  <2>9. CASE ~ entries'[k].pending
    <3>1. HitsOf(k)' = HitsOf(k) + 1
      BY <2>1, <2>2, <2>3, <2>9 DEF HitsOf
    <3>2. QED
      BY <1>1, <1>2, <2>4, <2>7, <3>1 DEF RiskBounded
  <2>10. QED
    BY <2>8, <2>9
<1>5. QED
  BY <1>3, <1>4

\* A query that ends, or goes where it is not at risk, changing no entry.
LEMMA LeavingStep ==
    ASSUME TypeOK, TypeOK', NEW q \in Query, OthersStay(q), RiskInv,
           \A k \in Key : SameHits(k), unchecked' = unchecked,
           pc'[q] \notin {"state", "dirs", "rules"}
    PROVE  RiskInv'
<1> SUFFICES ASSUME NEW k \in Key PROVE RiskBounded(k)'
  BY DEF RiskInv
<1>1. q \notin AtRisk(k)'
  BY DEF AtRisk
<1>2. QED
  BY <1>1, QuietStep DEF RiskInv

\* Every step keeps the answers and the risk within the bound.
LEMMA RiskStep == TypeOK /\ RiskInv /\ [Next]_vars => RiskInv'
<1> SUFFICES ASSUME TypeOK, RiskInv, [Next]_vars
             PROVE  RiskInv'
  OBVIOUS
<1>0. TypeOK'
  BY TypingStep
<1>1. ASSUME UNCHANGED <<entries, pc, key, held, comparing, unchecked>>
      PROVE  RiskInv'
  BY <1>1 DEF RiskInv, RiskBounded, AtRisk, Holds, HitsOf, MostHits
<1>2. CASE Environment \/ UNCHANGED vars
  BY <1>1, <1>2 DEF Environment, ChangeFiles, ChangeRule, Tick, cache, locals, vars
<1>3. ASSUME NEW q \in Query, LookupHits(q)
      PROVE  RiskInv'
  BY <1>0, <1>3, HitStep
<1>4. ASSUME NEW q \in Query,
             \/ \E k \in Key : Start(q, k)
             \/ LookupMisses(q) \/ StateGone(q) \/ RulesDiffer(q)
             \/ RulesMatch(q) /\ comparing[q]
             \/ Begin(q) \/ WalkRules(q) \/ WalkFiles(q) \/ Stamp(q)
             \/ build_ignore_fingerprint(q) \/ Fails(q)
      PROVE  RiskInv'
  <2>1. /\ OthersStay(q) /\ entries' = entries /\ unchecked' = unchecked
        /\ pc'[q] \notin {"state", "dirs", "rules"}
    BY <1>4 DEF Start, LookupMisses, StateGone, RulesDiffer, RulesMatch, Begin, WalkRules,
       WalkFiles, Stamp, build_ignore_fingerprint, Fails, Step, Go, Return, Building,
       OthersStay, cache, locals, TypeOK
  <2>2. \A k \in Key : SameHits(k)
    BY <2>1 DEF SameHits
  <2>3. QED
    BY <1>0, <2>1, <2>2, LeavingStep
<1>5. ASSUME NEW q \in Query,
             StateReplaced(q) \/ (RulesMatch(q) /\ ~ comparing[q])
      PROVE  RiskInv'
  <2> SUFFICES ASSUME NEW k \in Key PROVE RiskBounded(k)'
    BY DEF RiskInv
  <2>1. /\ OthersStay(q) /\ entries' = entries /\ pc'[q] = "idle"
        /\ unchecked' = [unchecked EXCEPT ![key[q]] = unchecked[key[q]] + 1]
    BY <1>5 DEF StateReplaced, RulesMatch, ReturnUnchecked, Return, Go, OthersStay, cache,
       TypeOK
  <2>2. SameHits(k) /\ q \notin AtRisk(k)'
    BY <2>1 DEF SameHits, AtRisk
  <2>3. CASE k = key[q]
    <3>1. q \in AtRisk(k)
      BY <1>5, <2>3 DEF StateReplaced, RulesMatch, AtRisk
    <3>2. unchecked'[k] = unchecked[k] + 1
      BY <2>1, <2>3 DEF TypeOK
    <3>3. QED
      BY <1>0, <2>1, <2>2, <3>1, <3>2, AnswerStep DEF RiskInv
  <2>4. CASE k # key[q]
    <3>1. unchecked'[k] = unchecked[k]
      BY <2>1, <2>4 DEF TypeOK
    <3>2. QED
      BY <1>0, <2>1, <2>2, <3>1, QuietStep DEF RiskInv
  <2>5. QED
    BY <2>3, <2>4
<1>6. ASSUME NEW q \in Query, StateClean(q) \/ CheckDirectories(q)
      PROVE  RiskInv'
  <2> SUFFICES ASSUME NEW k \in Key PROVE RiskBounded(k)'
    BY DEF RiskInv
  <2>1. /\ OthersStay(q) /\ entries' = entries /\ unchecked' = unchecked
        /\ key' = key
    BY <1>6 DEF StateClean, CheckDirectories, Step, Go, OthersStay, cache, locals, TypeOK
  <2>2. SameHits(k)
    BY <2>1 DEF SameHits
  <2>3. q \in AtRisk(k)' => q \in AtRisk(k)
    <3>1. CASE StateClean(q)
      BY <3>1 DEF StateClean, Go, AtRisk, Holds, TypeOK, cache
    <3>2. CASE CheckDirectories(q)
      BY <3>2 DEF CheckDirectories, Step, Go, AtRisk, TypeOK, locals
    <3>3. QED
      BY <1>6, <3>1, <3>2
  <2>4. QED
    BY <1>0, <2>1, <2>2, <2>3, QuietStep DEF RiskInv
<1>7. ASSUME NEW q \in Query, mark_dirty(q)
      PROVE  RiskInv'
  <2>1. OthersStay(q) /\ unchecked' = unchecked /\ pc'[q] = "begin"
    BY <1>7 DEF mark_dirty, Go, OthersStay, TypeOK
  <2>2. ASSUME NEW k \in Key
        PROVE  SameHits(k)
    <3>1. CASE Holds(key[q], held[q])
      <4>1. entries[key[q]] \in Entry
            /\ entries' = [entries EXCEPT ![key[q]].dirty = TRUE]
        BY <1>7, <3>1 DEF mark_dirty, Holds, TypeOK
      <4>2. k # key[q] => entries'[k] = entries[k]
        BY <4>1 DEF TypeOK
      <4>3. k = key[q] => entries'[k] = [entries[k] EXCEPT !.dirty = TRUE]
        BY <4>1 DEF TypeOK
      <4>4. \A e \in Entry :
               LET d == [e EXCEPT !.dirty = TRUE]
               IN  /\ d \in Entry /\ d.snap = e.snap /\ d.hits = e.hits
                   /\ d.pending = e.pending
        BY DEF Entry
      <4>5. k = key[q] => SameHits(k)
        BY <4>1, <4>3, <4>4, NoEntryAssumption DEF SameHits
      <4>6. QED
        BY <4>2, <4>5 DEF SameHits
    <3>2. CASE ~ Holds(key[q], held[q])
      BY <1>7, <3>2 DEF mark_dirty, SameHits
    <3>3. QED
      BY <3>1, <3>2
  <2>3. QED
    BY <1>0, <2>1, <2>2, LeavingStep
<1>8. ASSUME NEW q \in Query, clear_validation_flags(q)
      PROVE  RiskInv'
  <2>1. OthersStay(q) /\ pc'[q] = "idle"
    BY <1>8 DEF clear_validation_flags, Return, Go, OthersStay, TypeOK
  <2>2. CASE ~ Holds(key[q], held[q])
    <3>1. entries' = entries /\ unchecked' = unchecked
      BY <1>8, <2>2 DEF clear_validation_flags
    <3>2. \A k \in Key : SameHits(k)
      BY <3>1 DEF SameHits
    <3>3. QED
      BY <1>0, <2>1, <3>1, <3>2, LeavingStep
  <2>3. CASE Holds(key[q], held[q])
    <3> SUFFICES ASSUME NEW k \in Key PROVE RiskBounded(k)'
      BY DEF RiskInv
    <3>1. q \notin AtRisk(k)'
      BY <2>1 DEF AtRisk
    <3>2. /\ k = key[q] => unchecked'[k] = 0
          /\ k # key[q] => unchecked'[k] = unchecked[k] /\ entries'[k] = entries[k]
      BY <1>8, <2>3 DEF clear_validation_flags, TypeOK
    <3>3. CASE k = key[q]
      BY <1>0, <3>1, <3>2, <3>3, WalkedStep
    <3>4. CASE k # key[q]
      BY <1>0, <2>1, <3>1, <3>2, <3>4, QuietStep DEF RiskInv, SameHits
    <3>5. QED
      BY <3>3, <3>4
  <2>4. QED
    BY <2>2, <2>3
<1>9. ASSUME NEW q \in Query, store_snapshot(q)
      PROVE  RiskInv'
  <2> SUFFICES ASSUME NEW k \in Key PROVE RiskBounded(k)'
    BY DEF RiskInv
  <2>1. /\ OthersStay(q) /\ pc'[q] = "idle"
        /\ unchecked' = [unchecked EXCEPT ![key[q]] = 0]
    BY <1>9 DEF store_snapshot, Return, Go, OthersStay, TypeOK
  <2>2. q \notin AtRisk(k)'
    BY <2>1 DEF AtRisk
  <2>3. k # key[q] => entries'[k] = None \/ entries'[k] = entries[k]
    BY <1>9 DEF store_snapshot, Without, TypeOK
  <2>4. CASE k = key[q]
    <3>1. unchecked'[k] = 0
      BY <2>1, <2>4 DEF TypeOK
    <3>2. QED
      BY <1>0, <2>2, <3>1, WalkedStep
  <2>5. CASE k # key[q]
    <3>1. unchecked'[k] = unchecked[k] /\ SameHits(k)
      BY <2>1, <2>3, <2>5 DEF TypeOK, SameHits
    <3>2. QED
      BY <1>0, <2>1, <2>2, <3>1, QuietStep DEF RiskInv
  <2>6. QED
    BY <2>4, <2>5
<1>10. QED
  BY <1>2, <1>3, <1>4, <1>5, <1>6, <1>7, <1>8, <1>9 DEF Next, Ask

\* A tree that changed without a trace in its stamps is answered from a bounded
\* number of times before somebody walks it again: for any number of queries,
\* any interval, any evictions and any failures.
THEOREM AnswersAreBounded == Spec => []UncheckedAnswersAreBounded
<1>1. Init => RiskInv
  <2> SUFFICES ASSUME Init, NEW k \in Key PROVE RiskBounded(k)
    BY DEF RiskInv
  <2>1. TypeOK
    BY TypingInit
  <2>2. AtRisk(k) = {} /\ unchecked[k] = 0
    BY DEF Init, AtRisk
  <2>3. Cardinality(AtRisk(k)) = 0
    BY <2>2, FS_EmptySet
  <2>4. HitsOf(k) \in Nat
    BY <2>1, RiskTypes DEF RiskTyped
  <2>5. Cardinality(Query) \in Nat /\ Cardinality(Query) > 0
    BY QueriesCount, ScopeCacheAssumption
  <2>6. QED
    BY <2>2, <2>3, <2>4, <2>5 DEF RiskBounded
<1>2. TypeOK /\ RiskInv => UncheckedAnswersAreBounded
  <2> SUFFICES ASSUME TypeOK, RiskInv, NEW k \in Key
               PROVE  unchecked[k] <= MostHits + Cardinality(Query) - 1
    BY DEF UncheckedAnswersAreBounded, MostHits
  <2>1. RiskBounded(k)
    BY DEF RiskInv
  <2>2. /\ AtRisk(k) \in SUBSET Query /\ unchecked[k] \in Nat
        /\ MostHits \in Nat /\ HitsOf(k) \in Nat /\ HitsOf(k) <= MostHits
    BY RiskTypes, RiskTypesNext DEF RiskTyped
  <2>3. Cardinality(AtRisk(k)) \in Nat /\ Cardinality(Query) \in Nat
    BY <2>2, QueriesCount, ScopeCacheAssumption
  <2>4. QED
    BY <2>1, <2>2, <2>3 DEF RiskBounded
<1>3. QED
  BY <1>1, <1>2, TypingInit, TypingStep, RiskStep, PTL DEF Spec

-----------------------------------------------------------------------------
(* The listings *)

\* Init has the types.
LEMMA DirTypesInit == DirInit => DirTypes
BY DirectoryAssumption DEF DirInit, DirTypes, Time, Listing, NoListing

\* Every action keeps the types.
LEMMA DirTypesStep == DirTypes /\ [DirNext]_dirVars => DirTypes'
<1> SUFFICES ASSUME DirTypes, [DirNext]_dirVars
             PROVE  DirTypes'
  OBVIOUS
<1> USE DEF DirTypes, directory, listingCache, Phase
<1>1. ASSUME NEW f \in File, DirChanges(f)
      PROVE  DirTypes'
  BY <1>1 DEF DirChanges, Toggle
<1>2. CASE DirAges
  BY <1>2, DirectoryAssumption DEF DirAges, Age, Time
<1>3. ASSUME NEW c \in Call, ListDir(c), ~ store_listing(c)
      PROVE  DirTypes'
  <2>1. CASE \E k \in Key : StartListDir(c, k)
    BY <2>1 DEF StartListDir
  <2>2. CASE FindsListing(c)
    BY <2>2 DEF FindsListing
  <2>3. CASE FindsNone(c) \/ ServeCached(c) \/ ListAgain(c) \/ ListFails(c)
    BY <2>3 DEF FindsNone, ServeCached, ListAgain, ListFails
  <2>4. CASE OpenDir(c)
    <3>1. [list |-> {}, modified |-> 0, began |-> now] \in Listing
      BY DirectoryAssumption DEF Listing, Time
    <3>2. Shown[view[c]] \in SUBSET File
      BY DirectoryAssumption
    <3>3. QED
      BY <2>4, <3>1, <3>2 DEF OpenDir
  <2>5. ASSUME NEW f \in File, next_entry(c, f)
        PROVE  DirTypes'
    <3>1. \A S \in SUBSET File : [listing[c] EXCEPT !.list = S] \in Listing
      BY DEF Listing
    <3>2. listing[c].list \in SUBSET File
      BY DEF Listing
    <3>3. (IF f \in files THEN listing[c].list \cup {f} ELSE listing[c].list)
          \in SUBSET File
      BY <3>2
    <3>4. QED
      BY <2>5, <3>1, <3>3 DEF next_entry
  <2>6. CASE ReadModified(c)
    <3>1. [listing[c] EXCEPT !.modified = mtime] \in Listing
      BY DEF Listing
    <3>2. QED
      BY <2>6, <3>1 DEF ReadModified
  <2>7. QED
    BY <1>3, <2>1, <2>2, <2>3, <2>4, <2>5, <2>6 DEF ListDir
<1>4. ASSUME NEW c \in Call, store_listing(c)
      PROVE  DirTypes'
  BY <1>4 DEF store_listing, Without
<1>5. CASE UNCHANGED dirVars
  BY <1>5 DEF dirVars
<1>6. QED
  BY <1>1, <1>2, <1>3, <1>4, <1>5 DEF DirNext

-----------------------------------------------------------------------------
\* If the directory has not changed since a listing began, the listing is what
\* the directory shows.
ListedNow(k, e) ==
    /\ e.began <= now
    /\ mtime < e.began => e.list = files \cap Shown[k]

\* The same of a listing being made, but for the files not looked at.
Reading(k, e, u) ==
    /\ e.began <= now
    /\ u \subseteq Shown[k]
    /\ mtime < e.began => e.list = (files \cap Shown[k]) \ u

\* The strengthening of UnracedIsExact that every step preserves.
ListingInv ==
    /\ mtime <= now
    /\ \A k \in Key : listings[k] # None => ListedNow(k, listings[k])
    /\ \A c \in Call : phase[c] = "read" => Reading(view[c], listing[c], unread[c])
    /\ \A c \in Call : phase[c] = "store" => ListedNow(view[c], listing[c])

\* Every step preserves what is known of the listings.
LEMMA ListingStep == DirTypes /\ ListingInv /\ [DirNext]_dirVars => ListingInv'
<1> SUFFICES ASSUME DirTypes, ListingInv, [DirNext]_dirVars
             PROVE  ListingInv'
  OBVIOUS
<1> USE DEF DirTypes, directory, listingCache, Phase
<1>1. ASSUME NEW f \in File, DirChanges(f)
      PROVE  ListingInv'
  <2>1. \A e \in Listing : e.began <= now => ~ (now < e.began)
    BY DEF Listing, Time
  <2>2. QED
    BY <1>1, <2>1 DEF DirChanges, Toggle, ListingInv, ListedNow, Reading, Time
<1>2. CASE DirAges
  <2>1. \A e \in Listing : e.began <= now => e.began <= now'
    BY <1>2 DEF DirAges, Age, Listing, Time
  <2>2. mtime <= now'
    BY <1>2 DEF DirAges, Age, ListingInv, Time
  <2>3. QED
    BY <1>2, <2>1, <2>2 DEF DirAges, Age, ListingInv, ListedNow, Reading
<1>3. ASSUME NEW c \in Call, \E k \in Key : StartListDir(c, k)
      PROVE  ListingInv'
  BY <1>3 DEF StartListDir, ListingInv, ListedNow, Reading
<1>4. ASSUME NEW c \in Call,
             FindsListing(c) \/ FindsNone(c) \/ ServeCached(c) \/ ListAgain(c) \/ ListFails(c)
      PROVE  ListingInv'
  BY <1>4 DEF FindsListing, FindsNone, ServeCached, ListAgain, ListFails, ListingInv, ListedNow,
     Reading
<1>5. ASSUME NEW c \in Call, OpenDir(c)
      PROVE  ListingInv'
  <2>1. /\ phase'[c] = "read" /\ unread'[c] = Shown[view[c]] /\ view' = view
        /\ listing'[c] = [list |-> {}, modified |-> 0, began |-> now]
        /\ \A d \in Call \ {c} : phase'[d] = phase[d] /\ unread'[d] = unread[d]
                                 /\ listing'[d] = listing[d]
    BY <1>5 DEF OpenDir
  <2>2. Reading(view[c], listing[c], unread[c])'
    BY <1>5, <2>1 DEF OpenDir, Reading, Time
  <2>3. QED
    BY <1>5, <2>1, <2>2 DEF OpenDir, ListingInv, ListedNow, Reading
<1>6. ASSUME NEW c \in Call, NEW f \in File, next_entry(c, f)
      PROVE  ListingInv'
  <2>1. /\ phase[c] = "read" /\ unread'[c] = unread[c] \ {f} /\ f \in unread[c]
        /\ listing'[c].list = IF f \in files THEN listing[c].list \cup {f}
                              ELSE listing[c].list
        /\ listing'[c].began = listing[c].began
        /\ \A d \in Call \ {c} : unread'[d] = unread[d] /\ listing'[d] = listing[d]
    BY <1>6 DEF next_entry, Listing
  <2>2. Reading(view[c], listing[c], unread[c])
    BY <2>1 DEF ListingInv
  <2>3. Reading(view[c], listing[c], unread[c])'
    BY <1>6, <2>1, <2>2 DEF next_entry, Reading
  <2>4. QED
    BY <1>6, <2>1, <2>3 DEF next_entry, ListingInv, ListedNow, Reading
<1>7. ASSUME NEW c \in Call, ReadModified(c)
      PROVE  ListingInv'
  <2>1. listing'[c].list = listing[c].list /\ listing'[c].began = listing[c].began
        /\ \A d \in Call \ {c} : listing'[d] = listing[d]
    BY <1>7 DEF ReadModified, Listing
  <2>2. ListedNow(view[c], listing[c])'
    BY <1>7, <2>1 DEF ReadModified, ListingInv, ListedNow, Reading
  <2>3. QED
    BY <1>7, <2>1, <2>2 DEF ReadModified, ListingInv, ListedNow, Reading
<1>8. ASSUME NEW c \in Call, store_listing(c)
      PROVE  ListingInv'
  <2>1. \A k \in Key : \/ listings'[k] = None
                       \/ k = view[c] /\ listings'[k] = listing[c]
                       \/ listings'[k] = listings[k]
    BY <1>8 DEF store_listing, Without
  <2>2. QED
    BY <1>8, <2>1 DEF store_listing, ListingInv, ListedNow, Reading
<1>9. CASE UNCHANGED dirVars
  BY <1>9 DEF dirVars, ListingInv, ListedNow, Reading
<1>10. QED
  BY <1>1, <1>2, <1>3, <1>4, <1>5, <1>6, <1>7, <1>8, <1>9 DEF DirNext, ListDir

\* A cached listing with the time of the directory is wrong only if the
\* directory changed while it was listed, or in that unit of time: for any
\* directory, any calls and any evictions.
THEOREM UnracedListingsAreExact == DirSpec => []UnracedIsExact
<1>1. DirInit => DirTypes /\ ListingInv
  <2>1. DirInit => ListingInv
    BY DEF DirInit, ListingInv
  <2>2. QED
    BY <2>1, DirTypesInit
<1>2. DirTypes /\ ListingInv /\ [DirNext]_dirVars => DirTypes' /\ ListingInv'
  BY DirTypesStep, ListingStep
<1>3. DirTypes /\ ListingInv => UnracedIsExact
  BY DEF DirTypes, ListingInv, ListedNow, UnracedIsExact, Unraced, Listing, Time
<1>4. QED
  BY <1>1, <1>2, <1>3, PTL DEF DirSpec

-----------------------------------------------------------------------------
(* The order of the listings *)

\* evict_to_capacity stops at some number of listings.
LEMMA EvictedListings ==
    ASSUME NEW E, NEW order, Names(order, E)
    PROVE  evictedListings(E, order) \in 0 .. Len(order)
<1> DEFINE Enough(m) ==
             \/ Cardinality(Cached(Without(E, Range(SubSeq(order, 1, m))))) <= MaxListings
             \/ m = Len(order)
           Enoughs == {n \in 0 .. Len(order) : Enough(n)}
<1>1. PICK n \in Enoughs : \A m \in Enoughs : n <= m
  <2>1. Enoughs \in SUBSET Nat /\ Len(order) \in Enoughs
    BY DEF Names
  <2> HIDE DEF Enoughs
  <2>2. QED
    BY <2>1, LeastNatural
<1> HIDE DEF Enough
<1>2. ASSUME NEW m \in 0 .. n
      PROVE  m = n <=> Enough(m)
  <2>1. m \in 0 .. Len(order) /\ m <= n
    BY DEF Names
  <2>2. QED
    BY <1>1, <2>1
<1>3. (CHOOSE i \in 0 .. Len(order) : \A m \in 0 .. i : m = i <=> Enough(m))
        \in 0 .. Len(order)
  BY <1>2
<1>4. QED
  BY <1>3 DEF evictedListings, Enough

\* Every step keeps the order; a listing that is stored may evict others.
LEMMA ListingOrderStep ==
    DirTypes /\ Names(listingOrder, listings) /\ [DirNext]_dirVars
      => Names(listingOrder, listings)'
<1> SUFFICES ASSUME DirTypes, Names(listingOrder, listings), [DirNext]_dirVars
             PROVE  Names(listingOrder', listings')
  BY DEF Names
<1>1. CASE UNCHANGED listingCache
  BY <1>1 DEF listingCache
<1>2. ASSUME NEW c \in Call, FindsListing(c)
      PROVE  Names(listingOrder', listings')
  <2>1. /\ view[c] \in Key /\ listings[view[c]] # None
        /\ listingOrder' = touch(listingOrder, view[c])
        /\ listings' = [listings EXCEPT ![view[c]] = listings[view[c]]]
    BY <1>2 DEF FindsListing, DirTypes
  <2>2. QED
    BY <2>1, UseNames DEF DirTypes
<1>3. ASSUME NEW c \in Call, store_listing(c)
      PROVE  Names(listingOrder', listings')
  <2> DEFINE E == [listings EXCEPT ![view[c]] = listing[c]]
             order == touch(listingOrder, view[c])
             n == evictedListings(E, order)
  <2>1. /\ listings' = Without(E, Range(SubSeq(order, 1, n)))
        /\ listingOrder' = SubSeq(order, n + 1, Len(order))
    BY <1>3, Zenon DEF store_listing
  <2>2. view[c] \in Key /\ listing[c] # None
    BY NoListingAssumption DEF DirTypes
  <2>3. Names(order, E)
    BY <2>2, UseNames DEF DirTypes
  <2> HIDE DEF E, order
  <2>4. n \in 0 .. Len(order)
    BY <2>3, EvictedListings
  <2> HIDE DEF n
  <2>5. QED
    BY <2>1, <2>3, <2>4, EvictionNames
<1>4. ASSUME NEW c \in Call, ListDir(c), ~ FindsListing(c), ~ store_listing(c)
      PROVE  UNCHANGED listingCache
  BY <1>4 DEF ListDir, StartListDir, FindsNone, ServeCached, ListAgain, OpenDir, next_entry,
     ReadModified, ListFails
<1>5. ASSUME NEW f \in File, DirChanges(f)
      PROVE  UNCHANGED listingCache
  BY <1>5 DEF DirChanges
<1>6. CASE DirAges \/ UNCHANGED dirVars
  BY <1>1, <1>6 DEF DirAges, dirVars, listingCache
<1>7. QED
  BY <1>1, <1>2, <1>3, <1>4, <1>5, <1>6 DEF DirNext

\* The listings keep their types, and the order names each cached listing once:
\* for any directory, any calls and any room.
THEOREM ListingsAreOrdered == DirSpec => []DirTypeOK
<1>1. DirInit => DirTypes /\ Names(listingOrder, listings)
  <2>1. DirInit => Names(listingOrder, listings)
    BY DEF DirInit, Names, Cached, Range, IsInjective
  <2>2. QED
    BY <2>1, DirTypesInit
<1>2. DirTypes /\ Names(listingOrder, listings) => DirTypeOK
  BY NamesCount DEF Names, DirTypeOK
<1>3. QED
  BY <1>1, <1>2, DirTypesStep, ListingOrderStep, PTL DEF DirSpec
=============================================================================
